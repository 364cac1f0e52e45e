---------------------------- MODULE PartsProofs ----------------------------
(***************************************************************************)
(* Proofs about the parts of MCParts.                                      *)
(*                                                                         *)
(* InterfaceRegistry: for any versions and ids and however many instances, *)
(* what is asked for is served, every list is in the order of its          *)
(* instances' ages, and the first interface of a request stays.            *)
(*                                                                         *)
(* TickLoop: for every capacity of the channel and any number of tick      *)
(* tasks, every frame is an answer in the channel or a tick in flight, so  *)
(* that no task ever waits to send its answer.                             *)
(*                                                                         *)
(* Dispatchers: for any set of threads that dispatch and shut down, each   *)
(* dispatcher is taken by one shutdown, and what a dispatcher has accepted *)
(* is run before it has been joined.  The argument is about who owns a     *)
(* dispatcher: the shutdown whose exchange cleared its pointer, until that *)
(* shutdown takes it.                                                      *)
(***************************************************************************)
EXTENDS MCParts, TLAPS, WellFoundedInduction, FiniteSetTheorems

-----------------------------------------------------------------------------
(* The interfaces *)

\* Every instance in a list implements a version that satisfies its entry's.
EntriesServe ==
  \A k \in Keys : \A n \in DOMAIN inner_interfaces[k] :
    Caret(k, inner_interfaces[k][n].of)

\* No instance is as young as the next one will be.
AgesBelow ==
  \A k \in Keys : \A n \in DOMAIN inner_interfaces[k] : inner_interfaces[k][n].age < age

IInv == InterfacesType /\ EntriesServe /\ AgesBelow /\ OldestFirst

-----------------------------------------------------------------------------
(* Versions *)

LEMMA CaretReflexive ==
  ASSUME NEW a \in Version
  PROVE  Caret(a, a)
BY DEF Version, Caret, Leq

\* The two requirements between what is asked for and an instance add up.
LEMMA CaretTransitive ==
  ASSUME NEW a \in Version, NEW b \in Version, NEW c \in Version,
         Caret(a, b), Caret(b, c)
  PROVE  Caret(a, c)
BY DEF Version, Caret, Leq

-----------------------------------------------------------------------------
(* Lists *)

LEMMA LeastNumber ==
  ASSUME NEW T \in SUBSET Nat, T # {}
  PROVE  \E x \in T : \A y \in T : x <= y
<1>1. PICK x \in T : \A y \in T : <<y, x>> \notin OpToRel(<, Nat)
  BY NatLessThanWellFounded, WFMin
<1>2. \A y \in T : ~(y < x)
  BY <1>1 DEF OpToRel
<1> QED
  BY <1>2

\* Position finds the first instance of an id that is in the list.
LEMMA PositionIsFirst ==
  ASSUME NEW s \in Seq(Instances), NEW id, \E i \in DOMAIN s : s[i].id = id
  PROVE  /\ Position(s, id) \in 1 .. Len(s)
         /\ s[Position(s, id)].id = id
         /\ \A j \in 1 .. Position(s, id) - 1 : s[j].id # id
<1> DEFINE T == {i \in DOMAIN s : s[i].id = id}
<1>1. DOMAIN s = 1 .. Len(s) /\ Len(s) \in Nat
  OBVIOUS
<1>2. T \in SUBSET Nat /\ T # {}
  BY <1>1
<1>3. PICK x \in T : \A y \in T : x <= y
  BY <1>2, LeastNumber
<1>4. \A j \in 1 .. x - 1 : s[j].id # id
  BY <1>1, <1>3
<1>5. \E i \in DOMAIN s : s[i].id = id /\ \A j \in 1 .. i - 1 : s[j].id # id
  BY <1>3, <1>4
<1> QED
  BY <1>1, <1>5 DEF Position

\* What a removal leaves of a list that has the id.
LEMMA WithoutIsShorter ==
  ASSUME NEW s \in Seq(Instances), NEW id, \E i \in DOMAIN s : s[i].id = id
  PROVE  /\ Without(s, id) \in Seq(Instances)
         /\ Len(Without(s, id)) = Len(s) - 1
         /\ \A i \in 1 .. Len(s) - 1 :
              Without(s, id)[i] = IF i < Position(s, id) THEN s[i] ELSE s[i + 1]
<1> DEFINE w == [i \in 1 .. Len(s) - 1 |-> IF i < Position(s, id) THEN s[i] ELSE s[i + 1]]
<1>1. Without(s, id) = w
  BY DEF Without
<1>2. DOMAIN s = 1 .. Len(s) /\ Len(s) \in Nat /\ Len(s) - 1 \in Nat
  OBVIOUS
<1>3. \A i \in 1 .. Len(s) - 1 : w[i] \in Instances
  BY <1>2
<1>4. w \in Seq(Instances)
  BY <1>2, <1>3
<1>5. Len(w) = Len(s) - 1
  BY <1>2
<1> QED
  BY <1>1, <1>4, <1>5

\* A list that does not have the id is left as it is.
LEMMA WithoutNone ==
  ASSUME NEW s, NEW id, ~ \E i \in DOMAIN s : s[i].id = id
  PROVE  Without(s, id) = s
BY DEF Without

\* Everything in the shorter list was in the list, and in the same order.
LEMMA WithoutKeepsOrder ==
  ASSUME NEW s \in Seq(Instances), NEW id
  PROVE  LET w == Without(s, id) IN
         /\ w \in Seq(Instances)
         /\ \A n \in DOMAIN w : \E o \in DOMAIN s : w[n] = s[o]
         /\ \A m, n \in DOMAIN w : m < n =>
              \E o, p \in DOMAIN s : o < p /\ w[m] = s[o] /\ w[n] = s[p]
<1>1. CASE \E i \in DOMAIN s : s[i].id = id
  <2> DEFINE w == Without(s, id)
             From(i) == IF i < Position(s, id) THEN i ELSE i + 1
  <2>1. /\ w \in Seq(Instances) /\ DOMAIN w = 1 .. Len(s) - 1
        /\ \A i \in 1 .. Len(s) - 1 : w[i] = s[From(i)]
        /\ DOMAIN s = 1 .. Len(s) /\ Len(s) \in Nat
    BY <1>1, WithoutIsShorter
  <2>2. Position(s, id) \in Nat
    BY <1>1, PositionIsFirst
  <2>3. \A i \in 1 .. Len(s) - 1 : From(i) \in 1 .. Len(s)
    BY <2>1, <2>2
  <2>4. \A m, n \in 1 .. Len(s) - 1 : m < n => From(m) < From(n)
    BY <2>1, <2>2
  <2> HIDE DEF w, From
  <2>5. \A n \in DOMAIN w : \E o \in DOMAIN s : w[n] = s[o]
    BY <2>1, <2>3
  <2>6. \A m, n \in DOMAIN w : m < n =>
           \E o, p \in DOMAIN s : o < p /\ w[m] = s[o] /\ w[n] = s[p]
    BY <2>1, <2>3, <2>4
  <2> QED
    BY <2>1, <2>5, <2>6 DEF w
<1>2. CASE ~ \E i \in DOMAIN s : s[i].id = id
  BY <1>2, WithoutNone
<1> QED
  BY <1>1, <1>2

-----------------------------------------------------------------------------
(* Operations *)

LEMMA AddKeeps ==
  ASSUME IInv, NEW w \in Versions, NEW id \in Ids, AddInterface(w, id)
  PROVE  IInv'
<1> DEFINE instance == [id |-> id, of |-> w, age |-> age]
           Old(v) == IF v \in Keys THEN inner_interfaces[v] ELSE <<>>
<1>1. /\ Keys' = Keys \cup {w}
      /\ \A v \in Keys \cup {w} : inner_interfaces'[v] =
           IF v = w \/ Caret(v, w) THEN Append(Old(v), instance) ELSE Old(v)
      /\ age' = age + 1 /\ age \in Nat /\ poisoned' \in BOOLEAN
  BY DEF AddInterface, Pushed, Record, Keys, IInv, InterfacesType
<1>2. instance \in Instances /\ instance.of = w /\ instance.age = age
  BY <1>1 DEF Instances
<1>3. \A v \in Keys \cup {w} :
         /\ Old(v) \in Seq(Instances)
         /\ \A n \in DOMAIN Old(v) : Caret(v, Old(v)[n].of) /\ Old(v)[n].age < age
         /\ \A m, n \in DOMAIN Old(v) : m < n => Old(v)[m].age < Old(v)[n].age
  BY DEF IInv, InterfacesType, EntriesServe, AgesBelow, OldestFirst
<1> HIDE DEF instance, Old
<1>4. \A v \in Keys \cup {w} : v \in Version
  BY VersionsAssumption DEF IInv, InterfacesType
<1>5. ASSUME NEW v \in Keys \cup {w}
      PROVE  LET s == inner_interfaces'[v] IN
             /\ s \in Seq(Instances)
             /\ \A n \in DOMAIN s : Caret(v, s[n].of) /\ s[n].age < age'
             /\ \A m, n \in DOMAIN s : m < n => s[m].age < s[n].age
  <2> DEFINE s == Old(v)
             longer == Append(s, instance)
  <2>1. /\ s \in Seq(Instances)
        /\ \A n \in DOMAIN s : Caret(v, s[n].of) /\ s[n].age < age /\ s[n].age \in Nat
        /\ \A m, n \in DOMAIN s : m < n => s[m].age < s[n].age
    <3>1. s \in Seq(Instances)
      BY <1>3
    <3>2. \A n \in DOMAIN s : s[n] \in Instances
      BY <3>1
    <3>3. \A n \in DOMAIN s : s[n].age \in Nat
      BY <3>2 DEF Instances
    <3> QED
      BY <1>3, <3>3
  <2>2. CASE v = w \/ Caret(v, w)
    <3>1. /\ longer \in Seq(Instances)
          /\ DOMAIN longer = 1 .. Len(s) + 1 /\ DOMAIN s = 1 .. Len(s) /\ Len(s) \in Nat
          /\ \A n \in 1 .. Len(s) : longer[n] = s[n]
          /\ longer[Len(s) + 1] = instance
      BY <1>2, <2>1
    <3>2. inner_interfaces'[v] = longer
      BY <1>1, <2>2
    <3>3. Caret(v, w)
      BY <1>4, <2>2, CaretReflexive
    <3>4. age' = age + 1 /\ age \in Nat
      BY <1>1
    <3> HIDE DEF s, longer
    <3>5. \A n \in DOMAIN longer : Caret(v, longer[n].of) /\ longer[n].age < age'
      BY <1>2, <2>1, <3>1, <3>3, <3>4
    <3>6. \A m, n \in DOMAIN longer : m < n => longer[m].age < longer[n].age
      BY <1>2, <2>1, <3>1
    <3> QED
      BY <3>1, <3>2, <3>5, <3>6
  <2>3. CASE ~(v = w \/ Caret(v, w))
    <3>1. inner_interfaces'[v] = s
      BY <1>1, <2>3
    <3> HIDE DEF s
    <3> QED
      BY <1>1, <2>1, <3>1
  <2> QED
    BY <2>2, <2>3
<1> QED
  BY <1>1, <1>5 DEF IInv, InterfacesType, EntriesServe, AgesBelow, OldestFirst

LEMMA RemoveKeeps ==
  ASSUME IInv, NEW from \in Versions, NEW id \in Ids, RemoveInterface(from, id)
  PROVE  IInv'
<1>1. /\ Keys' = Keys
      /\ \A v \in Keys : inner_interfaces'[v] =
           IF Caret(from, v) THEN Without(inner_interfaces[v], id) ELSE inner_interfaces[v]
      /\ age' = age /\ poisoned' \in BOOLEAN
  BY DEF RemoveInterface, Record, Keys
<1>2. ASSUME NEW v \in Keys
      PROVE  LET s == inner_interfaces'[v] IN
             /\ s \in Seq(Instances)
             /\ \A n \in DOMAIN s : Caret(v, s[n].of) /\ s[n].age < age'
             /\ \A m, n \in DOMAIN s : m < n => s[m].age < s[n].age
  <2> DEFINE s == inner_interfaces[v]
  <2>1. /\ s \in Seq(Instances)
        /\ \A n \in DOMAIN s : Caret(v, s[n].of) /\ s[n].age < age
        /\ \A m, n \in DOMAIN s : m < n => s[m].age < s[n].age
    BY DEF IInv, InterfacesType, EntriesServe, AgesBelow, OldestFirst
  <2> HIDE DEF s
  <2>2. CASE Caret(from, v)
    <3> DEFINE w == Without(s, id)
    <3>1. /\ w \in Seq(Instances)
          /\ \A n \in DOMAIN w : \E o \in DOMAIN s : w[n] = s[o]
          /\ \A m, n \in DOMAIN w : m < n =>
               \E o, p \in DOMAIN s : o < p /\ w[m] = s[o] /\ w[n] = s[p]
      BY <2>1, WithoutKeepsOrder
    <3>2. inner_interfaces'[v] = w
      BY <1>1, <2>2 DEF s
    <3> HIDE DEF w
    <3> QED
      BY <1>1, <2>1, <3>1, <3>2
  <2>3. CASE ~Caret(from, v)
    <3>1. inner_interfaces'[v] = s
      BY <1>1, <2>3 DEF s
    <3> QED
      BY <1>1, <2>1, <3>1
  <2> QED
    BY <2>2, <2>3
<1> QED
  BY <1>1, <1>2 DEF IInv, InterfacesType, EntriesServe, AgesBelow, OldestFirst

LEMMA InitIInv == InterfacesInit => IInv
<1> SUFFICES ASSUME InterfacesInit PROVE IInv
  OBVIOUS
<1>1. Keys = {} /\ age = 0 /\ poisoned = FALSE
  BY DEF InterfacesInit, Keys
<1> QED
  BY <1>1 DEF IInv, InterfacesType, EntriesServe, AgesBelow, OldestFirst

LEMMA StepIInv == IInv /\ [InterfacesNext]_interfacesVars => IInv'
<1> SUFFICES ASSUME IInv, [InterfacesNext]_interfacesVars PROVE IInv'
  OBVIOUS
<1>1. ASSUME NEW v \in Versions, NEW id \in Ids, AddInterface(v, id) PROVE IInv'
  BY <1>1, AddKeeps
<1>2. ASSUME NEW v \in Versions, NEW id \in Ids, RemoveInterface(v, id) PROVE IInv'
  BY <1>2, RemoveKeeps
<1>3. CASE ShutdownInterfaces
  BY <1>3 DEF ShutdownInterfaces, Keys, IInv, InterfacesType, EntriesServe, AgesBelow, OldestFirst
<1>4. CASE UNCHANGED interfacesVars
  BY <1>4 DEF interfacesVars, Keys, IInv, InterfacesType, EntriesServe, AgesBelow, OldestFirst
<1> QED
  BY <1>1, <1>2, <1>3, <1>4 DEF InterfacesNext

-----------------------------------------------------------------------------
(* Theorems *)

\* Every variable keeps its range: each entry is a list of instances.
THEOREM TypeCorrect == InterfacesSpec => []InterfacesType
<1>1. IInv => InterfacesType
  BY DEF IInv
<1> QED
  BY <1>1, InitIInv, StepIInv, PTL DEF InterfacesSpec

LEMMA EntriesServeAnswers == IInv => AnswersServe
<1> SUFFICES ASSUME IInv, NEW v \in Versions, NEW k \in Keys,
                    NEW n \in DOMAIN inner_interfaces[k], Caret(v, k)
             PROVE  Caret(v, inner_interfaces[k][n].of)
  BY DEF AnswersServe
<1>1. v \in Version /\ k \in Version
  BY VersionsAssumption DEF IInv, InterfacesType
<1>2. inner_interfaces[k][n].of \in Version
  <2>1. inner_interfaces[k] \in Seq(Instances)
    BY DEF IInv, InterfacesType
  <2>2. inner_interfaces[k][n] \in Instances
    BY <2>1
  <2> QED
    BY <2>2, VersionsAssumption DEF Instances
<1>3. Caret(k, inner_interfaces[k][n].of)
  BY DEF IInv, EntriesServe
<1> QED
  BY <1>1, <1>2, <1>3, CaretTransitive

\* For every version that is asked for, whatever was added and removed, each
\* answer implements a version that satisfies it.
THEOREM AnswersServeHolds == InterfacesSpec => []AnswersServe
<1>1. QED
  BY EntriesServeAnswers, InitIInv, StepIInv, PTL DEF InterfacesSpec

\* Every list stays in the order its instances were added in.
THEOREM OldestFirstHolds == InterfacesSpec => []OldestFirst
<1>1. IInv => OldestFirst
  BY DEF IInv
<1> QED
  BY <1>1, InitIInv, StepIInv, PTL DEF InterfacesSpec

-----------------------------------------------------------------------------
(* The first interface *)

\* The compatible entries, where there are any, have a greatest one.
GreatestExists ==
  \A v \in Versions : Compatible(v) # {} =>
    \E k \in Compatible(v) : \A l \in Compatible(v) : Leq(l, k)

LEMMA LeqOrders ==
  ASSUME NEW a \in Version, NEW b \in Version
  PROVE  /\ Leq(a, b) \/ Leq(b, a)
         /\ Leq(a, b) /\ Leq(b, a) => a = b
<1>1. Leq(a, b) \/ Leq(b, a)
  BY DEF Version, Leq
<1>2. ASSUME Leq(a, b), Leq(b, a) PROVE a = b
  <2>1. a.major = b.major /\ a.minor = b.minor /\ a.patch = b.patch
    BY <1>2 DEF Version, Leq
  <2> QED
    BY <2>1 DEF Version
<1> QED
  BY <1>1, <1>2

LEMMA LeqTransitive ==
  ASSUME NEW a \in Version, NEW b \in Version, NEW c \in Version, Leq(a, b), Leq(b, c)
  PROVE  Leq(a, c)
BY DEF Version, Leq

\* There is one greatest version only.
LEMMA GreatestIs ==
  ASSUME NEW S \in SUBSET Version, NEW g \in S, \A l \in S : Leq(l, g)
  PROVE  (CHOOSE k \in S : \A l \in S : Leq(l, k)) = g
<1> DEFINE h == CHOOSE k \in S : \A l \in S : Leq(l, k)
<1>1. h \in S /\ \A l \in S : Leq(l, h)
  OBVIOUS
<1> HIDE DEF h
<1>2. Leq(h, g) /\ Leq(g, h) /\ h \in Version /\ g \in Version
  BY <1>1
<1>3. h = g
  BY <1>2, LeqOrders
<1> QED
  BY <1>3 DEF h

LEMMA CompatibleVersions == IInv => \A v : Compatible(v) \in SUBSET Version
BY VersionsAssumption DEF IInv, InterfacesType, Compatible

\* An addition makes its version an entry, if it is none, and no other.
LEMMA AddCompatible ==
  ASSUME NEW w \in Versions, NEW id \in Ids, AddInterface(w, id), NEW v
  PROVE  Compatible(v)' = Compatible(v) \cup {k \in {w} : Caret(v, k)}
<1>1. Keys' = Keys \cup {w}
  BY DEF AddInterface, Pushed, Keys
<1> QED
  BY <1>1 DEF Compatible

LEMMA StepGreatest ==
  IInv /\ GreatestExists /\ [InterfacesNext]_interfacesVars => GreatestExists'
<1> SUFFICES ASSUME IInv, GreatestExists, [InterfacesNext]_interfacesVars,
                    NEW v \in Versions, Compatible(v)' # {}
             PROVE  \E k \in Compatible(v)' : \A l \in Compatible(v)' : Leq(l, k)
  BY DEF GreatestExists
<1>1. Compatible(v) \in SUBSET Version
  BY CompatibleVersions
<1>2. CASE Compatible(v)' = Compatible(v)
  BY <1>2 DEF GreatestExists
<1>3. ASSUME NEW w \in Versions, NEW id \in Ids, AddInterface(w, id), Compatible(v)' # Compatible(v)
      PROVE  \E k \in Compatible(v)' : \A l \in Compatible(v)' : Leq(l, k)
  <2>1. Compatible(v)' = Compatible(v) \cup {w} /\ w \in Version
    BY <1>3, AddCompatible, VersionsAssumption
  <2>2. Leq(w, w)
    BY <2>1, LeqOrders
  <2>3. CASE Compatible(v) = {}
    BY <2>1, <2>2, <2>3
  <2>4. CASE Compatible(v) # {}
    <3>1. PICK g \in Compatible(v) : \A l \in Compatible(v) : Leq(l, g)
      BY <2>4 DEF GreatestExists
    <3>2. CASE Leq(w, g)
      BY <2>1, <3>1, <3>2
    <3>3. CASE Leq(g, w)
      BY <1>1, <2>1, <2>2, <3>1, <3>3, LeqTransitive
    <3> QED
      BY <1>1, <2>1, <3>1, <3>2, <3>3, LeqOrders
  <2> QED
    BY <2>3, <2>4
<1>4. ASSUME NEW w \in Versions, NEW id \in Ids, RemoveInterface(w, id)
      PROVE  Compatible(v)' = Compatible(v)
  BY <1>4 DEF RemoveInterface, Keys, Compatible
<1>5. ASSUME ShutdownInterfaces
      PROVE  Compatible(v)' = {}
  BY <1>5 DEF ShutdownInterfaces, Keys, Compatible
<1>6. ASSUME UNCHANGED interfacesVars
      PROVE  Compatible(v)' = Compatible(v)
  BY <1>6 DEF interfacesVars, Keys, Compatible
<1> QED
  BY <1>2, <1>3, <1>4, <1>5, <1>6 DEF InterfacesNext

\* The answer stays where its entry stays the greatest and keeps its head.
LEMMA FirstKept ==
  ASSUME IInv, IInv', GreatestExists, NEW v \in Versions, FirstInterface(v) # NoInterface,
         Greatest(v) \in Compatible(v)',
         \A l \in Compatible(v)' : Leq(l, Greatest(v)),
         inner_interfaces'[Greatest(v)] # <<>>,
         Head(inner_interfaces'[Greatest(v)]) = Head(inner_interfaces[Greatest(v)])
  PROVE  FirstInterface(v)' = FirstInterface(v)
<1>1. Compatible(v)' \in SUBSET Version
  BY VersionsAssumption DEF IInv, InterfacesType, Compatible
<1>2. Greatest(v)' = Greatest(v)
  BY <1>1, GreatestIs DEF Greatest
<1> QED
  BY <1>2 DEF FirstInterface

\* Who is answered is answered from the greatest compatible entry.
LEMMA FirstIsOfGreatest ==
  ASSUME IInv, GreatestExists, NEW v \in Versions, FirstInterface(v) # NoInterface
  PROVE  /\ Greatest(v) \in Compatible(v) /\ Greatest(v) \in Keys
         /\ \A l \in Compatible(v) : Leq(l, Greatest(v))
         /\ inner_interfaces[Greatest(v)] \in Seq(Instances)
         /\ inner_interfaces[Greatest(v)] # <<>>
         /\ FirstInterface(v) = Head(inner_interfaces[Greatest(v)])
<1>1. /\ Compatible(v) # {} /\ inner_interfaces[Greatest(v)] # <<>>
      /\ FirstInterface(v) = Head(inner_interfaces[Greatest(v)])
  BY DEF FirstInterface
<1>2. Greatest(v) \in Compatible(v) /\ \A l \in Compatible(v) : Leq(l, Greatest(v))
  BY <1>1 DEF GreatestExists, Greatest
<1> QED
  BY <1>1, <1>2 DEF Compatible, IInv, InterfacesType

LEMMA AddKeepsFirst ==
  ASSUME IInv, GreatestExists, NEW v \in Versions, FirstInterface(v) # NoInterface,
         NEW w \in Versions, NEW id \in Ids, AddInterface(w, id),
         FirstInterface(v)' # FirstInterface(v)
  PROVE  w \notin Keys /\ Caret(v, w) /\ \A k \in Compatible(v) : Leq(k, w)
<1> DEFINE g == Greatest(v)
           s == inner_interfaces[g]
           instance == [id |-> id, of |-> w, age |-> age]
<1>1. /\ g \in Compatible(v) /\ g \in Keys /\ \A l \in Compatible(v) : Leq(l, g)
      /\ s \in Seq(Instances) /\ s # <<>>
  BY FirstIsOfGreatest
<1>2. Compatible(v)' = Compatible(v) \cup {k \in {w} : Caret(v, k)}
  BY AddCompatible
<1>3. inner_interfaces'[g] \in {s, Append(s, instance)} /\ instance \in Instances
  BY <1>1 DEF AddInterface, Pushed, Keys, Instances, IInv, InterfacesType
<1> HIDE DEF g, s, instance
<1>4. inner_interfaces'[g] # <<>> /\ Head(inner_interfaces'[g]) = Head(s)
  BY <1>1, <1>3
<1>5. g \in Compatible(v)' /\ IInv'
  BY <1>1, <1>2, AddKeeps
<1>6. PICK l \in Compatible(v)' : ~Leq(l, g)
  BY <1>4, <1>5, FirstKept DEF g, s
<1>7. l = w /\ Caret(v, w) /\ w \notin Compatible(v)
  BY <1>1, <1>2, <1>6
<1>8. w \in Version /\ g \in Version /\ Compatible(v) \in SUBSET Version
  BY <1>1, VersionsAssumption, CompatibleVersions
<1>9. Leq(g, w)
  BY <1>6, <1>7, <1>8, LeqOrders
<1>10. \A k \in Compatible(v) : Leq(k, w)
  BY <1>1, <1>8, <1>9, LeqTransitive
<1> QED
  BY <1>7, <1>10 DEF Compatible

LEMMA RemoveKeepsFirst ==
  ASSUME IInv, GreatestExists, NEW v \in Versions, FirstInterface(v) # NoInterface,
         NEW from \in Versions, NEW id \in Ids, RemoveInterface(from, id),
         FirstInterface(v)' # FirstInterface(v)
  PROVE  id = FirstInterface(v).id /\ Caret(from, Greatest(v))
<1> DEFINE g == Greatest(v)
           s == inner_interfaces[g]
<1>1. /\ g \in Compatible(v) /\ g \in Keys /\ \A l \in Compatible(v) : Leq(l, g)
      /\ s \in Seq(Instances) /\ s # <<>> /\ FirstInterface(v) = Head(s)
  BY FirstIsOfGreatest
<1>2. Compatible(v)' = Compatible(v) /\ IInv'
  BY RemoveKeeps DEF RemoveInterface, Keys, Compatible
<1>3. inner_interfaces'[g] = IF Caret(from, g) THEN Without(s, id) ELSE s
  BY <1>1 DEF RemoveInterface, Keys
<1> HIDE DEF g, s
<1>4. ~(inner_interfaces'[g] # <<>> /\ Head(inner_interfaces'[g]) = Head(s))
  BY <1>1, <1>2, FirstKept DEF g, s
<1>5. Caret(from, g) /\ inner_interfaces'[g] = Without(s, id)
  BY <1>1, <1>3, <1>4
<1>6. \E i \in DOMAIN s : s[i].id = id
  BY <1>1, <1>4, <1>5, WithoutNone
<1>7. CASE Position(s, id) # 1
  <2> DEFINE P == Position(s, id)
             w == Without(s, id)
  <2>1. P \in 2 .. Len(s) /\ Len(s) \in Nat
    BY <1>1, <1>6, <1>7, PositionIsFirst
  <2>2. w \in Seq(Instances) /\ Len(w) = Len(s) - 1 /\ w[1] = s[1]
    BY <1>1, <1>6, <2>1, WithoutIsShorter
  <2> HIDE DEF P, w
  <2>3. w # <<>> /\ Head(w) = Head(s)
    BY <1>1, <2>1, <2>2
  <2> QED
    BY <1>4, <1>5, <2>3 DEF w
<1>8. CASE Position(s, id) = 1
  <2>1. s[1].id = id
    BY <1>1, <1>6, <1>8, PositionIsFirst
  <2> QED
    BY <1>1, <1>5, <2>1 DEF g
<1> QED
  BY <1>7, <1>8

\* For any versions, ids and number of instances: a client's first interface
\* changes only when a greater compatible version is added, when its own id is
\* removed, or when all is shut down.
THEOREM FirstStaysHolds == InterfacesSpec => FirstStays
<1> DEFINE Stays == \A v \in Versions :
       FirstInterface(v) # NoInterface /\ FirstInterface(v)' # FirstInterface(v) =>
         \/ \E w \in Versions, id \in Ids :
              /\ AddInterface(w, id)
              /\ w \notin Keys /\ Caret(v, w)
              /\ \A k \in Compatible(v) : Leq(k, w)
         \/ \E from \in Versions :
              RemoveInterface(from, FirstInterface(v).id) /\ Caret(from, Greatest(v))
         \/ ShutdownInterfaces
<1>1. IInv /\ GreatestExists /\ [InterfacesNext]_interfacesVars => [Stays]_interfacesVars
  <2> SUFFICES ASSUME IInv, GreatestExists, [InterfacesNext]_interfacesVars,
                      ~UNCHANGED interfacesVars, NEW v \in Versions,
                      FirstInterface(v) # NoInterface, FirstInterface(v)' # FirstInterface(v)
               PROVE  \/ \E w \in Versions, id \in Ids :
                           /\ AddInterface(w, id)
                           /\ w \notin Keys /\ Caret(v, w)
                           /\ \A k \in Compatible(v) : Leq(k, w)
                      \/ \E from \in Versions :
                           RemoveInterface(from, FirstInterface(v).id) /\ Caret(from, Greatest(v))
                      \/ ShutdownInterfaces
    OBVIOUS
  <2>1. ASSUME NEW w \in Versions, NEW id \in Ids, AddInterface(w, id)
        PROVE  w \notin Keys /\ Caret(v, w) /\ \A k \in Compatible(v) : Leq(k, w)
    BY <2>1, AddKeepsFirst
  <2>2. ASSUME NEW from \in Versions, NEW id \in Ids, RemoveInterface(from, id)
        PROVE  id = FirstInterface(v).id /\ Caret(from, Greatest(v))
    BY <2>2, RemoveKeepsFirst
  <2> QED
    BY <2>1, <2>2 DEF InterfacesNext
<1>2. InterfacesInit => GreatestExists
  BY DEF InterfacesInit, GreatestExists, Compatible, Keys
<1>3. FirstStays <=> [][Stays]_interfacesVars
  BY DEF FirstStays
<1> QED
  BY <1>1, <1>2, <1>3, InitIInv, StepIInv, StepGreatest, PTL DEF InterfacesSpec

-----------------------------------------------------------------------------
(* The tick loop *)

\* Once the channel is being drained, frames only get fewer.
FramesBounded == Len(channel) + Cardinality(Flying) <= Frames

FramesInv == FramesConserved /\ FramesBounded

-----------------------------------------------------------------------------
(* Types *)

LEMMA InitTicks == Init => TypeOK
BY FramesAssumption DEF Init, TypeOK, Answers, Places

LEMMA StepTicks == TypeOK /\ [Next]_vars => TypeOK'
<1> SUFFICES ASSUME TypeOK, [Next]_vars PROVE TypeOK'
  OBVIOUS
<1> USE FramesAssumption, TicksAssumption DEF TypeOK, Places, Flights
<1>1. ASSUME NEW i \in Ticks, Begin(i) PROVE TypeOK'
  BY <1>1 DEF Begin, Answers
<1>2. CASE BeginDrain \/ BeginBlocked \/ Unblock \/ Leave \/ Drain \/ Stop
  BY <1>2 DEF BeginDrain, BeginBlocked, Unblock, Leave, Drain, Stop, Answers
<1>3. ASSUME NEW i \in Ticks, Timer(i) PROVE TypeOK'
  BY <1>3 DEF Timer, Flying
<1>4. ASSUME NEW i \in Ticks, NEW a \in Answers, Answer(i, a) PROVE TypeOK'
  BY <1>4 DEF Answer, Flying
<1>5. ASSUME NEW i \in Ticks, Send(i) PROVE TypeOK'
  <2>1. flight[i].answer \in Answers
    BY <1>5 DEF Send, Joined, Flying
  <2> QED
    BY <1>5, <2>1 DEF Send
<1>6. CASE UNCHANGED vars
  BY <1>6 DEF vars
<1> QED
  BY <1>1, <1>2, <1>3, <1>4, <1>5, <1>6 DEF Next, Thread, Task, Over

\* Every variable keeps its range: the channel never holds more than it can.
THEOREM TicksTypeCorrect == Spec => []TypeOK
<1>1. QED
  BY InitTicks, StepTicks, PTL DEF Spec

-----------------------------------------------------------------------------
(* Timers *)

LEMMA StepTimers == TypeOK /\ TimersAreHeard /\ [Next]_vars => TimersAreHeard'
<1> SUFFICES ASSUME TypeOK, TimersAreHeard, [Next]_vars PROVE TimersAreHeard'
  OBVIOUS
<1> USE TicksAssumption DEF TypeOK, TimersAreHeard, Flying, Flights
<1>1. ASSUME NEW i \in Ticks, Begin(i) PROVE TimersAreHeard'
  BY <1>1 DEF Begin
<1>2. CASE BeginDrain \/ BeginBlocked \/ Unblock \/ Drain \/ Stop
  BY <1>2 DEF BeginDrain, BeginBlocked, Unblock, Drain, Stop
<1>3. CASE Leave
  BY <1>3 DEF Leave
<1>4. ASSUME NEW i \in Ticks, Timer(i) PROVE TimersAreHeard'
  BY <1>4 DEF Timer
<1>5. ASSUME NEW i \in Ticks, NEW a \in Answers, Answer(i, a) PROVE TimersAreHeard'
  BY <1>5 DEF Answer
<1>6. ASSUME NEW i \in Ticks, Send(i) PROVE TimersAreHeard'
  BY <1>6 DEF Send
<1>7. CASE UNCHANGED vars
  BY <1>7 DEF vars
<1> QED
  BY <1>1, <1>2, <1>3, <1>4, <1>5, <1>6, <1>7 DEF Next, Thread, Task, Over

\* A call returns only after the timer of its own frame: wherever the thread is
\* outside tick, every timer it made has fired while it listened.
THEOREM TimersAreHeardHolds == Spec => []TimersAreHeard
<1>1. Init => TimersAreHeard
  BY DEF Init, TimersAreHeard, Flying
<1> QED
  BY <1>1, InitTicks, StepTicks, StepTimers, PTL DEF Spec

-----------------------------------------------------------------------------
(* Frames *)

LEMMA FlyingFinite ==
  /\ IsFiniteSet(Flying)
  /\ Cardinality(Flying) \in Nat
<1>1. Flying \in SUBSET Ticks
  BY DEF Flying
<1>2. IsFiniteSet(Flying)
  BY <1>1, TicksAssumption, FS_Subset
<1> QED
  BY <1>2, FS_CardinalityType

LEMMA InitFrames == Init => FramesInv
<1> SUFFICES ASSUME Init PROVE FramesInv
  OBVIOUS
<1>1. Flying = {}
  BY DEF Init, Flying
<1>2. Cardinality(Flying) = 0
  BY <1>1, FS_EmptySet
<1>3. Len(channel) = Frames
  BY FramesAssumption DEF Init
<1> QED
  BY <1>2, <1>3, FramesAssumption DEF FramesInv, FramesConserved, FramesBounded

\* A step that neither starts a tick task nor ends one.
LEMMA FlyingKept ==
  ASSUME TypeOK,
         flight' = flight \/ \E i \in Ticks : i \in Flying /\
           \E f \in Flights : flight' = [flight EXCEPT ![i] = f]
  PROVE  Flying' = Flying
BY TicksAssumption DEF Flying, TypeOK

LEMMA StepFrames == TypeOK /\ FramesInv /\ [Next]_vars => FramesInv'
<1> SUFFICES ASSUME TypeOK, FramesInv, [Next]_vars PROVE FramesInv'
  OBVIOUS
<1> DEFINE Count == Len(channel) + Cardinality(Flying)
<1>0. /\ IsFiniteSet(Flying) /\ Cardinality(Flying) \in Nat
      /\ channel \in Seq(Answers) /\ Len(channel) \in Nat
      /\ Frames \in Nat
  BY FlyingFinite, FramesAssumption DEF TypeOK
<1>1. ASSUME NEW i \in Ticks, Begin(i) PROVE FramesInv'
  <2>1. Flying' = Flying \cup {i} /\ i \notin Flying
    <3>1. [fired |-> FALSE, answer |-> "none"] \in Flights
      BY DEF Flights
    <3>2. [fired |-> FALSE, answer |-> "none"] # None
      BY <3>1, TicksAssumption
    <3> QED
      BY <1>1, <3>2 DEF Begin, Flying, TypeOK
  <2>2. Cardinality(Flying') = Cardinality(Flying) + 1
    BY <1>0, <2>1, FS_AddElement
  <2>3. Len(channel') = Len(channel) - 1
    BY <1>0, <1>1 DEF Begin
  <2>4. place = "outside"
    BY <1>1 DEF Begin
  <2> QED
    BY <1>0, <2>2, <2>3, <2>4 DEF FramesInv, FramesConserved, FramesBounded
<1>2. CASE BeginDrain \/ Drain
  <2>1. Flying' = Flying /\ place' = "draining"
    BY <1>2, FlyingKept DEF BeginDrain, Drain
  <2>2. Len(channel') = Len(channel) - 1
    BY <1>0, <1>2 DEF BeginDrain, Drain
  <2> QED
    BY <1>0, <2>1, <2>2 DEF FramesInv, FramesConserved, FramesBounded
<1>3. CASE BeginBlocked \/ Unblock \/ Leave \/ Stop \/ UNCHANGED vars
  <2>1. Flying' = Flying /\ channel' = channel
    BY <1>3, FlyingKept DEF BeginBlocked, Unblock, Leave, Stop, vars
  <2>2. place' \notin {"draining", "stopped"} => place \notin {"draining", "stopped"}
    BY <1>3 DEF BeginBlocked, Unblock, Leave, Stop, vars
  <2> QED
    BY <1>0, <2>1, <2>2 DEF FramesInv, FramesConserved, FramesBounded
<1>4. ASSUME NEW i \in Ticks, Timer(i) \/ \E a \in Answers : Answer(i, a)
      PROVE  FramesInv'
  <2>1. \E f \in Flights : flight' = [flight EXCEPT ![i] = f]
    BY <1>4, TicksAssumption DEF Timer, Answer, Flying, TypeOK, Flights
  <2>2. i \in Flying /\ channel' = channel /\ place' = place
    BY <1>4 DEF Timer, Answer
  <2>3. Flying' = Flying
    BY <2>1, <2>2, FlyingKept
  <2> QED
    BY <1>0, <2>2, <2>3 DEF FramesInv, FramesConserved, FramesBounded
<1>5. ASSUME NEW i \in Ticks, Send(i) PROVE FramesInv'
  <2>1. Flying' = Flying \ {i} /\ i \in Flying
    BY <1>5 DEF Send, Joined, Flying, TypeOK
  <2>2. Cardinality(Flying') = Cardinality(Flying) - 1
    BY <1>0, <2>1, FS_RemoveElement
  <2>3. flight[i].answer \in Answers
    BY <1>5, TicksAssumption DEF Send, Joined, Flying, TypeOK, Flights
  <2>4. Len(channel') = Len(channel) + 1 /\ place' = place
    BY <1>0, <1>5, <2>3 DEF Send
  <2> QED
    BY <1>0, <2>2, <2>4 DEF FramesInv, FramesConserved, FramesBounded
<1> QED
  BY <1>1, <1>2, <1>3, <1>4, <1>5 DEF Next, Thread, Task, Over

\* Until the loop is drained no frame is lost and none is made.
THEOREM FramesConservedHolds == Spec => []FramesConserved
<1>1. FramesInv => FramesConserved
  BY DEF FramesInv
<1> QED
  BY <1>1, InitTicks, StepTicks, InitFrames, StepFrames, PTL DEF Spec

LEMMA SendHasRoom == TypeOK /\ FramesInv => SendNeverBlocks
<1> SUFFICES ASSUME TypeOK, FramesInv, NEW i \in Ticks, Joined(i)
             PROVE  Len(channel) < Frames
  BY DEF SendNeverBlocks
<1>1. Flying # {}
  BY DEF Joined
<1>2. Cardinality(Flying) \in Nat /\ Cardinality(Flying) # 0
  BY <1>1, FlyingFinite, FS_EmptySet
<1> QED
  BY <1>2, FramesAssumption DEF FramesInv, FramesBounded, TypeOK

\* No tick task ever waits for room in the channel, whatever the delay in
\* frames: a send that waited would stop the thread that makes the room.
THEOREM SendNeverBlocksHolds == Spec => []SendNeverBlocks
<1>1. QED
  BY SendHasRoom, InitTicks, StepTicks, InitFrames, StepFrames, PTL DEF Spec

-----------------------------------------------------------------------------
(* The dispatchers *)

\* The pointers that c's shutdown cleared and has not come to take yet.
Owns(c, k) ==
  /\ k \in seen[c]
  /\ \/ step[c] \in {"load", "swap"} /\ k < kind[c]
     \/ step[c] = "take" /\ k >= kind[c]
     \/ step[c] = "join" /\ k > kind[c]

\* A pointer that is set leads to a dispatcher.
PointersLead == pointer \subseteq option

\* What is owned is there to be taken, and nobody else can come to own it.
OwnedIsThere ==
  \A c \in Callers, k \in 1 .. last : Owns(c, k) => k \in option \ pointer

\* No two shutdowns own the same dispatcher.
OwnedOnce ==
  \A c, d \in Callers, k \in 1 .. last : Owns(c, k) /\ Owns(d, k) => c = d

\* A dispatcher that is or has been joined is no longer in its option.
JoinedIsTaken ==
  /\ joined \cap option = {}
  /\ \A c \in Callers : step[c] = "join" => kind[c] \notin option

OwnersInv == PointersLead /\ OwnedIsThere /\ OwnedOnce /\ TakenOnce

RunInv == JoinedIsTaken /\ AcceptedIsRun

-----------------------------------------------------------------------------

\* A shutdown goes on to a dispatcher there is, and to a step of its own.
LEMMA FollowType ==
  ASSUME DispatchersType, NEW c \in Callers,
         NEW same \in {"load", "take"}, NEW next \in {"take", "idle"},
         Follow(c, same, next), last' = last
  PROVE  /\ kind' \in [Callers -> 1 .. last']
         /\ step' \in [Callers -> {"idle", "found", "panicked", "load", "swap", "take",
                                   "join", "poisoned"}]
<1>1. kind[c] \in 1 .. last /\ last \in Nat
  BY DEF DispatchersType, Kinds
<1>2. CASE kind[c] < last
  <2>1. kind[c] + 1 \in 1 .. last
    BY <1>1, <1>2
  <2> QED
    BY <1>2, <2>1 DEF Follow, Go, DispatchersType
<1>3. CASE ~(kind[c] < last)
  <2>1. 1 \in 1 .. last
    BY <1>1
  <2> QED
    BY <1>3, <2>1 DEF Follow, Go, DispatchersType
<1> QED
  BY <1>2, <1>3

LEMMA InitDispatchers == DispatchersInit => DispatchersType
BY DEF DispatchersInit, DispatchersType, Kinds

LEMMA StepDispatchers == DispatchersType /\ [DispatchersNext]_dispatchersVars => DispatchersType'
<1> SUFFICES ASSUME DispatchersType, [DispatchersNext]_dispatchersVars PROVE DispatchersType'
  OBVIOUS
<1> USE DEF DispatchersType, Kinds
<1>1. ASSUME NEW c \in Callers, NEW k \in Kinds, Dispatch(c, k) PROVE DispatchersType'
  BY <1>1 DEF Dispatch, Go
<1>2. ASSUME NEW c \in Callers, Submit(c) PROVE DispatchersType'
  BY <1>2 DEF Submit, Go
<1>3. ASSUME NEW k \in Kinds, Run(k) PROVE DispatchersType'
  BY <1>3 DEF Run
<1>4. ASSUME NEW c \in Callers, Shutdown(c) PROVE DispatchersType'
  BY <1>4 DEF Shutdown, Go
<1>5. ASSUME NEW c \in Callers, Load(c) PROVE DispatchersType'
  BY <1>5 DEF Load, Go
<1>6. ASSUME NEW c \in Callers, Swap(c) PROVE DispatchersType'
  <2> DEFINE Steps == {"idle", "found", "panicked", "load", "swap", "take", "join", "poisoned"}
  <2>1. UNCHANGED <<last, option, jobs, joined>>
    BY <1>6 DEF Swap
  <2>2. pointer' \subseteq pointer
    BY <1>6 DEF Swap, Refused
  <2>3. seen' \in [Callers -> SUBSET Kinds]
    <3>1. seen' = seen \/ seen' = [seen EXCEPT ![c] = @ \ {1}]
      BY <1>6 DEF Swap, Refused
    <3> QED
      BY <3>1
  <2>4. kind' \in [Callers -> 1 .. last'] /\ step' \in [Callers -> Steps]
    <3>1. \/ Follow(c, "load", "take")
          \/ kind' = kind /\ (step' = step \/ step' = [step EXCEPT ![c] = "panicked"])
      BY <1>6 DEF Swap, Refused, Go
    <3>2. CASE Follow(c, "load", "take")
      BY <2>1, <3>2, FollowType
    <3>3. CASE kind' = kind /\ (step' = step \/ step' = [step EXCEPT ![c] = "panicked"])
      BY <2>1, <3>3
    <3> QED
      BY <3>1, <3>2, <3>3
  <2> QED
    BY <2>1, <2>2, <2>3, <2>4
<1>7. ASSUME NEW c \in Callers, Take(c) PROVE DispatchersType'
  BY <1>7 DEF Take, Go
<1>8. ASSUME NEW c \in Callers, Skip(c) PROVE DispatchersType'
  <2>1. Follow(c, "take", "idle") /\ last' = last
    BY <1>8 DEF Skip
  <2>2. /\ kind' \in [Callers -> 1 .. last']
        /\ step' \in [Callers -> {"idle", "found", "panicked", "load", "swap", "take",
                                  "join", "poisoned"}]
    BY <2>1, FollowType
  <2> QED
    BY <1>8, <2>2 DEF Skip
<1>9. ASSUME NEW c \in Callers, Join(c) PROVE DispatchersType'
  <2>1. Follow(c, "take", "idle") /\ last' = last
    BY <1>9 DEF Join
  <2>2. /\ kind' \in [Callers -> 1 .. last']
        /\ step' \in [Callers -> {"idle", "found", "panicked", "load", "swap", "take",
                                  "join", "poisoned"}]
    BY <2>1, FollowType
  <2>3. joined' \subseteq 1 .. last'
    BY ZenonT(30), <1>9 DEF Join
  <2> QED
    BY <1>9, <2>2, <2>3 DEF Join
<1>10. CASE UNCHANGED dispatchersVars
  BY <1>10 DEF dispatchersVars
<1> QED
  BY <1>1, <1>2, <1>3, <1>4, <1>5, <1>6, <1>7, <1>8, <1>9, <1>10
     DEF DispatchersNext, Call, Step, DispatchersOver

\* Every variable keeps its range: the calls go over the dispatchers there are.
THEOREM DispatchersTypeCorrect == DispatchersSpec => []DispatchersType
<1>1. QED
  BY InitDispatchers, StepDispatchers, PTL DEF DispatchersSpec

-----------------------------------------------------------------------------

LEMMA InitOwners == DispatchersInit => OwnersInv
BY DEF DispatchersInit, OwnersInv, PointersLead, OwnedIsThere, OwnedOnce, TakenOnce, Owns

\* A step that takes nothing out of an option and gives nobody a dispatcher.
LEMMA NobodyGains ==
  ASSUME OwnersInv, DispatchersType,
         last' = last, pointer' = pointer, option' = option,
         \A c \in Callers, k \in 1 .. last : Owns(c, k)' => Owns(c, k),
         TakenOnce'
  PROVE  OwnersInv'
<1> USE DEF OwnersInv
<1>1. PointersLead'
  BY DEF PointersLead
<1>2. OwnedIsThere'
  BY DEF OwnedIsThere
<1>3. OwnedOnce'
  BY DEF OwnedOnce
<1> QED
  BY <1>1, <1>2, <1>3

LEMMA StepOwners == DispatchersType /\ OwnersInv /\ [DispatchersNext]_dispatchersVars => OwnersInv'
<1> SUFFICES ASSUME DispatchersType, OwnersInv, [DispatchersNext]_dispatchersVars PROVE OwnersInv'
  OBVIOUS
<1>1. ASSUME NEW c \in Callers, NEW k \in Kinds, Dispatch(c, k) PROVE OwnersInv'
  <2>1. \A d \in Callers, j \in 1 .. last : Owns(d, j)' => Owns(d, j)
    BY <1>1 DEF Dispatch, Go, DispatchersType, Owns
  <2>2. TakenOnce'
    BY <1>1 DEF Dispatch, Go, DispatchersType, OwnersInv, TakenOnce
  <2> QED
    BY <1>1, <2>1, <2>2, NobodyGains DEF Dispatch
<1>2. ASSUME NEW c \in Callers, Submit(c) PROVE OwnersInv'
  <2>1. \A d \in Callers, j \in 1 .. last : Owns(d, j)' => Owns(d, j)
    BY <1>2 DEF Submit, Go, DispatchersType, Owns
  <2>2. TakenOnce'
    BY <1>2 DEF Submit, Go, DispatchersType, OwnersInv, TakenOnce
  <2> QED
    BY <1>2, <2>1, <2>2, NobodyGains DEF Submit
<1>3. ASSUME NEW k \in Kinds, Run(k) PROVE OwnersInv'
  BY <1>3 DEF Run, OwnersInv, PointersLead, OwnedIsThere, OwnedOnce, TakenOnce, Owns
<1>4. ASSUME NEW c \in Callers, Shutdown(c) PROVE OwnersInv'
  <2>1. \A d \in Callers, j \in 1 .. last : Owns(d, j)' => Owns(d, j)
    BY <1>4 DEF Shutdown, Go, DispatchersType, Owns
  <2>2. TakenOnce'
    BY <1>4 DEF Shutdown, Go, DispatchersType, OwnersInv, TakenOnce
  <2> QED
    BY <1>4, <2>1, <2>2, NobodyGains DEF Shutdown
<1>5. ASSUME NEW c \in Callers, Load(c) PROVE OwnersInv'
  <2>1. \A d \in Callers, j \in 1 .. last : Owns(d, j)' => Owns(d, j)
    BY <1>5 DEF Load, Go, DispatchersType, Owns, Kinds
  <2>2. TakenOnce'
    BY <1>5 DEF Load, Go, DispatchersType, OwnersInv, TakenOnce
  <2> QED
    BY <1>5, <2>1, <2>2, NobodyGains DEF Load
<1>6. ASSUME NEW c \in Callers, Swap(c) PROVE OwnersInv'
  <2>1. CASE ~Refused(c) /\ kind[c] \in seen[c] /\ kind[c] \in pointer
    <3>1. /\ pointer' = pointer \ {kind[c]}
          /\ Follow(c, "load", "take")
          /\ seen' = seen /\ last' = last /\ option' = option
      BY <1>6, <2>1 DEF Swap
    <3>2. \A d \in Callers, j \in 1 .. last :
             Owns(d, j)' => Owns(d, j) \/ (d = c /\ j = kind[c])
      BY <1>6, <3>1 DEF Swap, Follow, Go, DispatchersType, Owns
    <3>3. PointersLead'
      BY <3>1 DEF OwnersInv, PointersLead
    <3>4. OwnedIsThere'
      BY <2>1, <3>1, <3>2 DEF OwnersInv, OwnedIsThere, PointersLead
    <3>5. OwnedOnce'
      <4>1. \A d \in Callers : ~Owns(d, kind[c])
        BY <2>1 DEF OwnersInv, OwnedIsThere, DispatchersType
      <4> QED
        BY <3>1, <3>2, <4>1 DEF OwnersInv, OwnedOnce
    <3>6. TakenOnce'
      BY <3>1 DEF Follow, Go, DispatchersType, OwnersInv, TakenOnce
    <3> QED
      BY <3>3, <3>4, <3>5, <3>6 DEF OwnersInv
  <2>2. CASE ~Refused(c) /\ ~(kind[c] \in seen[c] /\ kind[c] \in pointer)
    <3>1. \A d \in Callers, j \in 1 .. last : Owns(d, j)' => Owns(d, j)
      <4>1. CASE kind[c] \notin seen[c] /\ seen' = seen /\ Follow(c, "load", "take")
        <5>1. \A d \in Callers : d # c => step'[d] = step[d] /\ kind'[d] = kind[d]
          BY <4>1 DEF Follow, Go, DispatchersType
        <5>2. CASE kind[c] < last
          <6>1. step'[c] = "load" /\ kind'[c] = kind[c] + 1 /\ step[c] = "swap"
            BY <1>6, <4>1, <5>2 DEF Swap, Follow, Go, DispatchersType
          <6> QED
            BY <4>1, <5>1, <6>1 DEF Owns, DispatchersType
        <5>3. CASE ~(kind[c] < last)
          <6>1. step'[c] = "take" /\ step[c] = "swap" /\ kind[c] = last
            BY <1>6, <4>1, <5>3 DEF Swap, Follow, Go, DispatchersType, Kinds
          <6> QED
            BY <4>1, <5>1, <6>1 DEF Owns, DispatchersType, Kinds
        <5> QED
          BY <5>2, <5>3
      <4>2. CASE UNCHANGED <<pointer, kind, step>>
        BY <1>6, <2>2, <4>2 DEF Swap, DispatchersType, Owns
      <4> QED
        BY <1>6, <2>2, <4>1, <4>2 DEF Swap
    <3>2. TakenOnce'
      <4>1. \E s \in {"swap", "load", "take"} : step' = [step EXCEPT ![c] = s]
        BY <1>6, <2>2 DEF Swap, Follow, Go, DispatchersType
      <4> QED
        BY <4>1 DEF DispatchersType, OwnersInv, TakenOnce
    <3>3. pointer' = pointer
      BY <1>6, <2>2 DEF Swap
    <3> QED
      BY <1>6, <3>1, <3>2, <3>3, NobodyGains DEF Swap
  <2>3. CASE Refused(c)
    <3>1. \A d \in Callers, j \in 1 .. last : Owns(d, j)' => Owns(d, j)
      BY <1>6, <2>3 DEF Swap, Refused, Go, DispatchersType, Owns
    <3>2. TakenOnce'
      BY <2>3 DEF Refused, Go, DispatchersType, OwnersInv, TakenOnce
    <3> QED
      BY <1>6, <2>3, <3>1, <3>2, NobodyGains DEF Swap, Refused
  <2> QED
    BY <2>1, <2>2, <2>3
<1>7. ASSUME NEW c \in Callers, Take(c) PROVE OwnersInv'
  <2>1. Owns(c, kind[c]) /\ kind[c] \in 1 .. last
    BY <1>7 DEF Take, Owns, DispatchersType
  <2>2. kind[c] \in option /\ kind[c] \notin pointer
    BY <2>1 DEF OwnersInv, OwnedIsThere
  <2>3. step' = [step EXCEPT ![c] = "join"]
    BY <1>7, <2>2 DEF Take, Go
  <2>4. \A d \in Callers, j \in 1 .. last :
           Owns(d, j)' => Owns(d, j) /\ ~(d = c /\ j = kind[c])
    BY <1>7, <2>3 DEF Take, DispatchersType, Owns
  <2>5. PointersLead'
    BY <1>7, <2>2 DEF Take, OwnersInv, PointersLead
  <2>6. OwnedIsThere'
    <3> SUFFICES ASSUME NEW d \in Callers, NEW j \in 1 .. last, Owns(d, j)'
                 PROVE  j \in option' \ pointer'
      BY <1>7 DEF OwnedIsThere, Take
    <3>1. Owns(d, j) /\ ~(d = c /\ j = kind[c])
      BY <2>4
    <3>2. j # kind[c]
      BY <2>1, <3>1 DEF OwnersInv, OwnedOnce
    <3> QED
      BY <1>7, <3>1, <3>2 DEF Take, OwnersInv, OwnedIsThere
  <2>7. OwnedOnce'
    BY <1>7, <2>4 DEF Take, OwnersInv, OwnedOnce
  <2>8. TakenOnce'
    BY <2>3 DEF DispatchersType, OwnersInv, TakenOnce
  <2> QED
    BY <2>5, <2>6, <2>7, <2>8 DEF OwnersInv
<1>8. ASSUME NEW c \in Callers, Skip(c) PROVE OwnersInv'
  <2>1. \A d \in Callers, j \in 1 .. last : Owns(d, j)' => Owns(d, j)
    BY <1>8 DEF Skip, Follow, Go, DispatchersType, Owns
  <2>2. TakenOnce'
    BY <1>8 DEF Skip, Follow, Go, DispatchersType, OwnersInv, TakenOnce
  <2> QED
    BY <1>8, <2>1, <2>2, NobodyGains DEF Skip
<1>9. ASSUME NEW c \in Callers, Join(c) PROVE OwnersInv'
  <2>1. \A d \in Callers, j \in 1 .. last : Owns(d, j)' => Owns(d, j)
    BY <1>9 DEF Join, Follow, Go, DispatchersType, Owns
  <2>2. TakenOnce'
    BY <1>9 DEF Join, Follow, Go, DispatchersType, OwnersInv, TakenOnce
  <2> QED
    BY <1>9, <2>1, <2>2, NobodyGains DEF Join
<1>10. CASE UNCHANGED dispatchersVars
  BY <1>10 DEF dispatchersVars, OwnersInv, PointersLead, OwnedIsThere, OwnedOnce, TakenOnce, Owns
<1> QED
  BY <1>1, <1>2, <1>3, <1>4, <1>5, <1>6, <1>7, <1>8, <1>9, <1>10
     DEF DispatchersNext, Call, Step, DispatchersOver

\* Whatever number of threads shut the system down at once, the one whose
\* exchange cleared a pointer finds the dispatcher: no unwrap under the write
\* lock fails.
THEOREM TakenOnceHolds == DispatchersSpec => []TakenOnce
<1>1. OwnersInv => TakenOnce
  BY DEF OwnersInv
<1> QED
  BY <1>1, InitDispatchers, StepDispatchers, InitOwners, StepOwners, PTL DEF DispatchersSpec

-----------------------------------------------------------------------------

LEMMA InitRun == DispatchersInit => RunInv
BY DEF DispatchersInit, RunInv, JoinedIsTaken, AcceptedIsRun

LEMMA StepRun ==
  DispatchersType /\ OwnersInv /\ RunInv /\ [DispatchersNext]_dispatchersVars => RunInv'
<1> SUFFICES ASSUME DispatchersType, OwnersInv, RunInv, [DispatchersNext]_dispatchersVars PROVE RunInv'
  OBVIOUS
<1> USE DEF RunInv, JoinedIsTaken, AcceptedIsRun, DispatchersType, Kinds
<1>1. ASSUME NEW c \in Callers, NEW k \in Kinds, Dispatch(c, k) PROVE RunInv'
  BY <1>1 DEF Dispatch, Go
<1>2. ASSUME NEW c \in Callers, Submit(c) PROVE RunInv'
  BY <1>2 DEF Submit, Go
<1>3. ASSUME NEW k \in Kinds, Run(k) PROVE RunInv'
  BY <1>3 DEF Run
<1>4. ASSUME NEW c \in Callers, Shutdown(c) PROVE RunInv'
  BY <1>4 DEF Shutdown, Go
<1>5. ASSUME NEW c \in Callers, Load(c) PROVE RunInv'
  BY <1>5 DEF Load, Go
<1>6. ASSUME NEW c \in Callers, Swap(c) PROVE RunInv'
  BY <1>6 DEF Swap, Refused, Follow, Go
<1>7. ASSUME NEW c \in Callers, Take(c) PROVE RunInv'
  BY <1>7 DEF Take, Go
<1>8. ASSUME NEW c \in Callers, Skip(c) PROVE RunInv'
  BY <1>8 DEF Skip, Follow, Go
<1>9. ASSUME NEW c \in Callers, Join(c) PROVE RunInv'
  <2>1. /\ jobs[kind[c]] = 0 /\ kind[c] \notin option
        /\ joined' = joined \cup {kind[c]}
        /\ UNCHANGED <<option, jobs>>
    BY <1>9 DEF Join
  <2>2. \A d \in Callers : step'[d] = "join" => step[d] = "join" /\ kind'[d] = kind[d]
    BY <1>9 DEF Join, Follow, Go
  <2> QED
    BY ZenonT(30), <2>1, <2>2
<1>10. CASE UNCHANGED dispatchersVars
  BY <1>10 DEF dispatchersVars
<1> QED
  BY <1>1, <1>2, <1>3, <1>4, <1>5, <1>6, <1>7, <1>8, <1>9, <1>10
     DEF DispatchersNext, Call, Step, DispatchersOver

\* A job that dispatch accepted before or during a shutdown is run before the
\* dispatcher has been joined: once it is out of its option, none is accepted.
THEOREM AcceptedIsRunHolds == DispatchersSpec => []AcceptedIsRun
<1>1. RunInv => AcceptedIsRun
  BY DEF RunInv
<1> QED
  BY <1>1, InitDispatchers, StepDispatchers, InitOwners, StepOwners, InitRun, StepRun, PTL DEF DispatchersSpec

-----------------------------------------------------------------------------
(* All parts *)

\* A behaviour of the parts is one of the tick loop, one of the dispatchers
\* and one of the interfaces, of which two stand still: all keep their types.
THEOREM PartsTypesHold == PartsSpec => []TypesOK
<1> DEFINE PartsInv == TypeOK /\ DispatchersType /\ IInv
<1>1. PartsInit => PartsInv
  BY InitTicks, InitDispatchers, InitIInv DEF PartsInit
<1>2. PartsInv /\ [PartsNext]_partsVars => PartsInv'
  <2> SUFFICES ASSUME PartsInv, [PartsNext]_partsVars PROVE PartsInv'
    OBVIOUS
  <2>1. [Next]_vars
    BY DEF PartsNext, partsVars, OfTicks, OfDispatchers, OfInterfaces
  <2>2. [DispatchersNext]_dispatchersVars
    BY DEF PartsNext, partsVars, OfTicks, OfDispatchers, OfInterfaces
  <2>3. [InterfacesNext]_interfacesVars
    BY DEF PartsNext, partsVars, OfTicks, OfDispatchers, OfInterfaces
  <2> QED
    BY <2>1, <2>2, <2>3, StepTicks, StepDispatchers, StepIInv
<1>3. PartsInv => TypesOK
  BY DEF TypesOK, IInv
<1> QED
  BY <1>1, <1>2, <1>3, PTL DEF PartsSpec
=============================================================================
