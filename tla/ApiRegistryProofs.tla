------------------------- MODULE ApiRegistryProofs -------------------------
(* Proofs about ApiRegistry. *)
EXTENDS ApiRegistry, TLAPS

-----------------------------------------------------------------------------
(* Caret requirements *)

\* A version satisfies its own requirement.
LEMMA CaretReflexive ==
  ASSUME NEW a \in Version
  PROVE  Caret(a, a)
BY DEF Version, Caret, Leq

\* A version that satisfies the requirement of a version that satisfies a
\* requirement satisfies the latter: this is why overwriting a handle with a
\* newer api never breaks who asked for an older one.
LEMMA CaretTransitive ==
  ASSUME NEW a \in Version, NEW b \in Version, NEW c \in Version,
         Caret(a, b), Caret(b, c)
  PROVE  Caret(a, c)
BY DEF Version, Caret, Leq

-----------------------------------------------------------------------------
(* The inductive invariant *)

\* The write lock is with the thread that is setting an api.
Exclusive == \A t \in Threads : pc[t] = "store" <=> writer = t

\* A set under way overwrites entries that the version of its api satisfies,
\* with an api of that version.
SetUnderWay ==
  \A t \in Threads :
    pc[t] = "store" =>
      /\ handle[t] \in Apis
      /\ want[t] = VersionOf[handle[t]]
      /\ VersionOf[target[handle[t]]] = want[t]
      /\ \A v \in todo[t] : v # want[t] /\ Registered(v) /\ Caret(v, want[t])

\* What a set has overwritten stays so until the set ends.
Overwritten ==
  \A t \in Threads : \A v \in Versions :
    /\ pc[t] = "store"
    /\ v \notin todo[t] \cup {want[t]}
    /\ Registered(v)
    /\ Caret(v, want[t])
    => target[inner_apis[v]] = target[handle[t]]

\* The handle an api came in never points to null, and is in the entry of its
\* version or in none.
OwnHandles ==
  /\ \A a \in Apis : target[a] # None /\ Caret(VersionOf[a], VersionOf[target[a]])
  /\ \A v \in Versions : inner_apis[v] \in Apis => v = VersionOf[inner_apis[v]]

\* No two entries share a handle.
Distinct ==
  \A u, v \in Versions : Registered(u) /\ inner_apis[u] = inner_apis[v] => u = v

\* An entry points to an api that satisfies its version.
EntryServes ==
  \A v \in Versions :
    Registered(v) /\ target[inner_apis[v]] # None =>
      Caret(v, VersionOf[target[inner_apis[v]]])

\* A handle a client has is in an entry that satisfies its request, or was the
\* handle of an api that does.
HandleOfMatch ==
  \A t \in Threads :
    /\ \A v \in Versions : handle[t] # None /\ handle[t] = inner_apis[v] => Caret(want[t], v)
    /\ handle[t] \in Apis => Caret(want[t], VersionOf[handle[t]])

IInv ==
  /\ TypeOK
  /\ Exclusive
  /\ SetUnderWay
  /\ Overwritten
  /\ OwnHandles
  /\ Distinct
  /\ EntryServes
  /\ HandleOfMatch
  /\ HandleServes

LEMMA InitIInv == Init => IInv
<1> SUFFICES ASSUME Init PROVE IInv
  OBVIOUS
<1> USE ApiRegistryAssumption, VersionsAssumption
<1>1. TypeOK
  BY DEF Init, TypeOK, Handles
<1>2. \A a \in Apis : target[a] # None /\ Caret(VersionOf[a], VersionOf[target[a]])
  BY CaretReflexive DEF Init, Handles
<1>3. Exclusive /\ SetUnderWay /\ Overwritten /\ Distinct /\ EntryServes /\ HandleServes
  BY DEF Init, Exclusive, SetUnderWay, Overwritten, Distinct, EntryServes, HandleServes, Registered
<1>4. OwnHandles /\ HandleOfMatch
  BY <1>2 DEF Init, OwnHandles, HandleOfMatch, Handles
<1> QED BY <1>1, <1>3, <1>4 DEF IInv

\* The versions that the proofs compare are versions.
LEMMA VersionsAreVersions ==
  /\ \A v \in Versions : v \in Version
  /\ \A a \in Apis : VersionOf[a] \in Versions
BY ApiRegistryAssumption, VersionsAssumption

-----------------------------------------------------------------------------
(* Calls that leave the map and the handles as they are *)

\* A call begins and is answered, with a handle of a matching entry if any.
LEMMA AnswerIInv ==
  ASSUME IInv, NEW t \in Threads, NEW v \in Versions, NEW h \in Handles \cup {None},
         NEW x \in {"idle", "insert", "panicked"},
         pc[t] \in {"idle", "insert"},
         pc' = [pc EXCEPT ![t] = x],
         want' = [want EXCEPT ![t] = v],
         handle' = [handle EXCEPT ![t] = h],
         h # None => \E u \in Versions : inner_apis[u] = h /\ Caret(v, u),
         UNCHANGED <<inner_apis, target, writer, poisoned, deps, dep, todo>>
  PROVE  IInv'
<1> USE ApiRegistryAssumption, VersionsAssumption
<1>1. TypeOK'
  BY DEF IInv, TypeOK
<1>2. Exclusive'
  BY DEF IInv, TypeOK, Exclusive
<1>3. SetUnderWay' /\ Overwritten'
  BY DEF IInv, TypeOK, SetUnderWay, Overwritten, Registered
<1>4. OwnHandles' /\ Distinct' /\ EntryServes'
  BY DEF IInv, OwnHandles, Distinct, EntryServes, Registered
<1>5. HandleOfMatch'
  <2> SUFFICES ASSUME NEW s \in Threads
               PROVE  /\ \A u \in Versions : handle'[s] # None /\ handle'[s] = inner_apis[u] => Caret(want'[s], u)
                      /\ handle'[s] \in Apis => Caret(want'[s], VersionOf[handle'[s]])
    BY DEF HandleOfMatch
  <2>1. CASE s # t
    BY <2>1 DEF IInv, TypeOK, HandleOfMatch
  <2>2. CASE s = t
    <3>1. handle'[s] = h /\ want'[s] = v
      BY <2>2 DEF IInv, TypeOK
    <3>2. CASE h = None
      BY <3>1, <3>2 DEF Handles
    <3>3. CASE h # None
      <4>1. PICK u \in Versions : inner_apis[u] = h /\ Caret(v, u)
        BY <3>3
      <4> QED BY <3>1, <3>3, <4>1 DEF IInv, Distinct, OwnHandles, Registered
    <3> QED BY <3>2, <3>3
  <2> QED BY <2>1, <2>2
<1>6. HandleServes'
  <2> SUFFICES ASSUME NEW s \in Threads, handle'[s] # None, target[handle'[s]] # None
               PROVE  Caret(want'[s], VersionOf[target[handle'[s]]])
    BY DEF HandleServes
  <2>1. CASE s # t
    BY <2>1 DEF IInv, TypeOK, HandleServes
  <2>2. CASE s = t
    <3>1. PICK u \in Versions : inner_apis[u] = h /\ Caret(v, u)
      BY <2>2 DEF IInv, TypeOK
    <3>2. handle'[s] = h /\ want'[s] = v
      BY <2>2 DEF IInv, TypeOK
    <3>3. Caret(u, VersionOf[target[h]])
      BY <3>1, <3>2 DEF IInv, EntryServes, Registered
    <3>4. target[h] \in Apis
      BY <3>2 DEF IInv, TypeOK
    <3> QED BY <3>1, <3>2, <3>3, <3>4, CaretTransitive, VersionsAreVersions
  <2> QED BY <2>1, <2>2
<1> QED BY <1>1, <1>2, <1>3, <1>4, <1>5, <1>6 DEF IInv

\* What find and get_optional have in common.
LEMMA LookupIInv ==
  ASSUME IInv, NEW t \in Threads, NEW v \in Wanted, NEW d \in Deps \cup {None},
         Find(t, v, d) \/ GetOptional(t, v, d)
  PROVE  IInv'
<1> USE ApiRegistryAssumption, VersionsAssumption
<1>1. v \in Versions
  OBVIOUS
<1>2. /\ pc[t] = "idle"
      /\ want' = [want EXCEPT ![t] = v]
      /\ UNCHANGED <<inner_apis, target, writer, poisoned, deps, dep, todo>>
  BY DEF Find, GetOptional, Enter
<1>3. \/ Lookup(t, v)
      \/ \E x \in {"idle", "insert", "panicked"} :
           pc' = [pc EXCEPT ![t] = x] /\ handle' = [handle EXCEPT ![t] = None]
  BY DEF Find, GetOptional, Panic, Return
<1>4. CASE Lookup(t, v)
  <2>1. PICK u \in Matches(v) : Return(t, inner_apis[u])
    BY <1>4 DEF Lookup
  <2>2. u \in Versions /\ inner_apis[u] \in Handles \cup {None} /\ Caret(v, u)
    BY <2>1 DEF Matches, IInv, TypeOK
  <2> QED BY <1>1, <1>2, <2>1, <2>2, AnswerIInv DEF Return
<1>5. CASE \E x \in {"idle", "insert", "panicked"} :
             pc' = [pc EXCEPT ![t] = x] /\ handle' = [handle EXCEPT ![t] = None]
  BY <1>1, <1>2, <1>5, AnswerIInv
<1> QED BY <1>3, <1>4, <1>5

-----------------------------------------------------------------------------
(* Calls that change the map or the handles *)

\* get makes an entry of a placeholder that nobody has.
LEMMA InsertIInv ==
  ASSUME IInv, NEW t \in Threads, Insert(t)
  PROVE  IInv'
<1> USE ApiRegistryAssumption, VersionsAssumption
<1>0. pc[t] = "insert" /\ want[t] \in Versions /\ t # None
  BY DEF Insert, IInv, TypeOK
<1>1. CASE UNCHANGED <<inner_apis, target>>
  <2>1. \E x \in {"idle", "panicked"}, h \in Handles \cup {None} :
          /\ pc' = [pc EXCEPT ![t] = x]
          /\ handle' = [handle EXCEPT ![t] = h]
          /\ h = None \/ h = inner_apis[want[t]]
    <3>1. CASE Panic(t)
      BY <3>1 DEF Panic
    <3>2. CASE Return(t, inner_apis[want[t]])
      BY <1>0, <3>2 DEF Return, IInv, TypeOK
    <3>3. CASE ~Registered(want[t]) /\ ~Panic(t)
      BY <1>0, <1>1, <3>3 DEF Insert, Registered, Handles, IInv, TypeOK
    <3> QED BY <3>1, <3>2, <3>3 DEF Insert
  <2>2. want' = [want EXCEPT ![t] = want[t]]
    BY DEF Insert, IInv, TypeOK
  <2>3. Caret(want[t], want[t])
    BY <1>0, CaretReflexive
  <2> QED BY ZenonT(30), <1>0, <1>1, <2>1, <2>2, <2>3, AnswerIInv DEF Insert
<1>2. CASE \E p \in Placeholders :
             /\ ~Registered(want[t])
             /\ Unused(p)
             /\ inner_apis' = [inner_apis EXCEPT ![want[t]] = p]
             /\ target' = [target EXCEPT ![p] = None]
             /\ Return(t, p)
  <2>1. PICK p \in Placeholders :
             /\ ~Registered(want[t])
             /\ Unused(p)
             /\ inner_apis' = [inner_apis EXCEPT ![want[t]] = p]
             /\ target' = [target EXCEPT ![p] = None]
             /\ Return(t, p)
    BY <1>2
  <2>2. /\ p \in Handles /\ p \notin Apis /\ p # None
        /\ \A v \in Versions : inner_apis[v] # p
        /\ \A s \in Threads : handle[s] # p
    BY <2>1 DEF Unused, Handles
  <2>3. /\ pc' = [pc EXCEPT ![t] = "idle"]
        /\ handle' = [handle EXCEPT ![t] = p]
        /\ writer = None
        /\ UNCHANGED <<writer, poisoned, deps, want, dep, todo>>
    BY <2>1 DEF Insert, Return
  <2>4. TypeOK'
    BY <2>1, <2>2, <2>3 DEF IInv, TypeOK
  <2>5. \A s \in Threads : pc[s] # "store" /\ pc'[s] # "store"
    BY <2>3 DEF IInv, TypeOK, Exclusive
  <2>6. Exclusive' /\ SetUnderWay' /\ Overwritten'
    BY <2>3, <2>5 DEF Exclusive, SetUnderWay, Overwritten
  <2>7. \A h \in Handles : h # p => target'[h] = target[h]
    BY <2>1 DEF IInv, TypeOK
  <2>8. \A v \in Versions : IF v = want[t] THEN inner_apis'[v] = p ELSE inner_apis'[v] = inner_apis[v]
    BY <2>1 DEF IInv, TypeOK
  <2>9. target'[p] = None
    BY <2>1, <2>2 DEF IInv, TypeOK
  <2>10. OwnHandles' /\ Distinct' /\ EntryServes'
    <3>1. OwnHandles'
      BY <2>2, <2>7, <2>8 DEF IInv, OwnHandles, Handles
    <3>2. Distinct'
      BY <2>1, <2>2, <2>8 DEF IInv, Distinct, Registered
    <3>3. EntryServes'
      BY <2>2, <2>7, <2>8, <2>9 DEF IInv, TypeOK, EntryServes, Registered
    <3> QED BY <3>1, <3>2, <3>3
  <2>11. Caret(want[t], want[t])
    BY <1>0, CaretReflexive
  <2>12. \A s \in Threads : IF s = t THEN handle'[s] = p ELSE handle'[s] = handle[s]
    BY <2>3 DEF IInv, TypeOK
  <2>13. HandleOfMatch'
    BY <2>2, <2>3, <2>8, <2>11, <2>12 DEF IInv, HandleOfMatch
  <2>14. HandleServes'
    BY <2>2, <2>3, <2>7, <2>9, <2>12 DEF IInv, TypeOK, HandleServes
  <2> QED BY <2>4, <2>6, <2>10, <2>13, <2>14 DEF IInv
<1> QED BY <1>1, <1>2 DEF Insert

\* A set begins: the lock is taken and nothing is overwritten yet.
LEMMA SetIInv ==
  ASSUME IInv, NEW t \in Threads, NEW a \in Apis, NEW d \in Deps \cup {None}, Set(t, a, d)
  PROVE  IInv'
<1> USE ApiRegistryAssumption, VersionsAssumption
<1>0. VersionOf[a] \in Versions /\ pc[t] = "idle" /\ writer = None
      /\ want' = [want EXCEPT ![t] = VersionOf[a]]
  BY DEF Set, Enter
<1>1. CASE poisoned /\ Panic(t) /\ UNCHANGED <<writer, dep, todo>>
  BY <1>0, <1>1, AnswerIInv DEF Set, Panic
<1>2. CASE /\ writer' = t
           /\ pc' = [pc EXCEPT ![t] = "store"]
           /\ handle' = [handle EXCEPT ![t] = a]
           /\ dep' = [dep EXCEPT ![t] = d]
           /\ todo' = [todo EXCEPT ![t] = Compatible(VersionOf[a])]
  <2>1. UNCHANGED <<inner_apis, target, poisoned, deps>> /\ VersionOf[target[a]] = VersionOf[a]
    BY DEF Set
  <2>2. a \in Handles /\ a # None /\ t # None
    BY DEF Handles
  <2>3. Compatible(VersionOf[a]) \subseteq Versions
    BY DEF Compatible
  <2>4. TypeOK'
    BY <1>0, <1>2, <2>1, <2>2, <2>3 DEF IInv, TypeOK
  <2>5. \A s \in Threads :
          IF s = t
          THEN /\ handle'[s] = a /\ want'[s] = VersionOf[a] /\ pc'[s] = "store"
               /\ todo'[s] = Compatible(VersionOf[a])
          ELSE /\ handle'[s] = handle[s] /\ want'[s] = want[s] /\ pc'[s] = pc[s]
               /\ pc[s] # "store"
    BY <1>0, <1>2, <2>2 DEF IInv, TypeOK, Exclusive
  <2>6. Exclusive'
    BY <1>2, <2>5 DEF Exclusive
  <2>7. SetUnderWay'
    BY <2>1, <2>5 DEF SetUnderWay, Compatible, Registered
  <2>8. Overwritten'
    BY <2>1, <2>5 DEF Overwritten, Compatible, Registered
  <2>9. OwnHandles' /\ Distinct' /\ EntryServes'
    BY <2>1 DEF IInv, OwnHandles, Distinct, EntryServes, Registered
  <2>10. Caret(VersionOf[a], VersionOf[a])
    BY <1>0, CaretReflexive
  <2>11. HandleOfMatch'
    BY <2>1, <2>2, <2>5, <2>10 DEF IInv, HandleOfMatch, OwnHandles
  <2>12. HandleServes'
    BY <2>1, <2>5, <2>10 DEF IInv, HandleServes
  <2> QED BY <2>4, <2>6, <2>7, <2>8, <2>9, <2>11, <2>12 DEF IInv
<1> QED BY <1>1, <1>2 DEF Set

\* A store in the handle of an entry that the new api satisfies keeps every
\* promise made with that handle.
LEMMA StoreKeeps ==
  ASSUME IInv, NEW t \in Threads, pc[t] = "store",
         NEW v \in Versions, Registered(v), Caret(v, want[t]),
         target' = [target EXCEPT ![inner_apis[v]] = target[handle[t]]],
         inner_apis' = inner_apis
  PROVE  /\ target' \in [Handles -> Apis \cup {None}]
         /\ target'[inner_apis[v]] = target[handle[t]]
         /\ target'[handle[t]] = target[handle[t]]
         /\ \A u \in Versions : u # v /\ Registered(u) =>
              target'[inner_apis[u]] = target[inner_apis[u]]
         /\ OwnHandles' /\ Distinct' /\ EntryServes'
         /\ \A s \in Threads : handle[s] # None /\ target'[handle[s]] # None =>
              Caret(want[s], VersionOf[target'[handle[s]]])
<1> USE ApiRegistryAssumption, VersionsAssumption
<1> DEFINE h == inner_apis[v]
           b == target[handle[t]]
<1>1. h \in Handles /\ h # None
  BY DEF IInv, TypeOK, Registered
<1>2. handle[t] \in Apis /\ VersionOf[b] = want[t] /\ b \in Apis /\ want[t] \in Versions
  BY DEF IInv, TypeOK, SetUnderWay, OwnHandles, Handles
<1>3. target' \in [Handles -> Apis \cup {None}]
  BY <1>2 DEF IInv, TypeOK
<1>4. target'[h] = b /\ \A g \in Handles : g # h => target'[g] = target[g]
  BY <1>1 DEF IInv, TypeOK
<1>5. target'[handle[t]] = b
  BY <1>2, <1>4 DEF Handles
<1>6. \A u \in Versions : u # v /\ Registered(u) => inner_apis[u] # h /\ inner_apis[u] \in Handles
  BY DEF IInv, TypeOK, Distinct, Registered
<1>7. \A u \in Versions : u # v /\ Registered(u) => target'[inner_apis[u]] = target[inner_apis[u]]
  BY <1>4, <1>6
<1>8. OwnHandles'
  <2>1. \A a \in Apis : target'[a] # None /\ Caret(VersionOf[a], VersionOf[target'[a]])
    <3> SUFFICES ASSUME NEW a \in Apis
                 PROVE  target'[a] # None /\ Caret(VersionOf[a], VersionOf[target'[a]])
      OBVIOUS
    <3>1. CASE a = h
      BY <1>2, <1>4, <3>1 DEF IInv, OwnHandles, Handles
    <3>2. CASE a # h
      BY <1>4, <3>2 DEF IInv, OwnHandles, Handles
    <3> QED BY <3>1, <3>2
  <2> QED BY <2>1 DEF IInv, OwnHandles
<1>9. Distinct'
  BY DEF IInv, Distinct, Registered
<1>10. EntryServes'
  <2> SUFFICES ASSUME NEW u \in Versions, Registered(u), target'[inner_apis[u]] # None
               PROVE  Caret(u, VersionOf[target'[inner_apis[u]]])
    BY DEF EntryServes, Registered
  <2>1. CASE u = v
    BY <1>2, <1>4, <2>1
  <2>2. CASE u # v
    BY <1>7, <2>2 DEF IInv, EntryServes
  <2> QED BY <2>1, <2>2
<1>11. ASSUME NEW s \in Threads, handle[s] # None, target'[handle[s]] # None
       PROVE  Caret(want[s], VersionOf[target'[handle[s]]])
  <2>1. CASE handle[s] = h
    <3>1. Caret(want[s], v) /\ want[s] \in Versions
      BY <1>1, <2>1 DEF IInv, TypeOK, HandleOfMatch
    <3> QED BY <1>2, <1>4, <2>1, <3>1, CaretTransitive, VersionsAreVersions
  <2>2. CASE handle[s] # h
    BY <1>4, <1>11, <2>2 DEF IInv, TypeOK, HandleServes
  <2> QED BY <2>1, <2>2
<1> QED BY <1>3, <1>4, <1>5, <1>7, <1>8, <1>9, <1>10, <1>11

\* A set overwrites one more entry.
LEMMA ReplaceIInv ==
  ASSUME IInv, NEW t \in Threads, Replace(t)
  PROVE  IInv'
<1> USE ApiRegistryAssumption, VersionsAssumption
<1>1. PICK v \in todo[t] :
        /\ target' = [target EXCEPT ![inner_apis[v]] = target[handle[t]]]
        /\ todo' = [todo EXCEPT ![t] = @ \ {v}]
  BY DEF Replace
<1>2. pc[t] = "store" /\ UNCHANGED <<inner_apis, writer, poisoned, deps, pc, want, handle, dep>>
  BY DEF Replace
<1>3. v \in Versions /\ Registered(v) /\ Caret(v, want[t]) /\ v # want[t]
  BY <1>1, <1>2 DEF IInv, TypeOK, SetUnderWay
<1>4. /\ target' \in [Handles -> Apis \cup {None}]
      /\ target'[inner_apis[v]] = target[handle[t]]
      /\ target'[handle[t]] = target[handle[t]]
      /\ \A u \in Versions : u # v /\ Registered(u) =>
           target'[inner_apis[u]] = target[inner_apis[u]]
      /\ OwnHandles' /\ Distinct' /\ EntryServes'
      /\ \A s \in Threads : handle[s] # None /\ target'[handle[s]] # None =>
           Caret(want[s], VersionOf[target'[handle[s]]])
  BY <1>1, <1>2, <1>3, StoreKeeps
<1>5. \A s \in Threads : IF s = t THEN todo'[s] = todo[s] \ {v} ELSE todo'[s] = todo[s] /\ pc[s] # "store"
  BY <1>1, <1>2 DEF IInv, TypeOK, Exclusive
<1>6. todo' \in [Threads -> SUBSET Versions]
  BY <1>1 DEF IInv, TypeOK
<1>7. TypeOK'
  BY <1>2, <1>4, <1>6 DEF IInv, TypeOK
<1>8. Exclusive' /\ HandleOfMatch' /\ HandleServes'
  BY <1>2, <1>4 DEF IInv, Exclusive, HandleOfMatch, HandleServes
<1>9. SetUnderWay'
  BY <1>2, <1>4, <1>5 DEF IInv, SetUnderWay, Registered
<1>10. Overwritten'
  BY <1>2, <1>4, <1>5 DEF IInv, Overwritten, Registered
<1> QED BY <1>4, <1>7, <1>8, <1>9, <1>10 DEF IInv

\* How a call that has the write lock ends.
LEMMA UnlockKeeps ==
  ASSUME IInv, NEW t \in Threads, NEW d, NEW h \in Handles \cup {None},
         writer \in {None, t}, Unlock(t, d, h)
  PROVE  /\ \A s \in Threads : pc'[s] # "store"
         /\ pc' \in [Threads -> {"idle", "insert", "store", "panicked"}]
         /\ writer' = None
         /\ poisoned' \in BOOLEAN
         /\ \/ handle' = [handle EXCEPT ![t] = h]
            \/ handle' = [handle EXCEPT ![t] = None]
         /\ handle' \in [Threads -> Handles \cup {None}]
<1> USE ApiRegistryAssumption, VersionsAssumption
<1>1. \A s \in Threads : s # t => pc[s] # "store"
  BY DEF IInv, Exclusive
<1>2. CASE Return(t, h) /\ UNCHANGED poisoned
  BY <1>1, <1>2 DEF Unlock, Return, IInv, TypeOK
<1>3. CASE Panic(t) /\ poisoned' = TRUE
  BY <1>1, <1>3 DEF Unlock, Panic, IInv, TypeOK
<1> QED BY <1>2, <1>3 DEF Unlock

\* A set overwrites or makes the entry of its own version and ends.
LEMMA RegisterIInv ==
  ASSUME IInv, NEW t \in Threads, Register(t)
  PROVE  IInv'
<1> USE ApiRegistryAssumption, VersionsAssumption
<1> DEFINE w == want[t]
           a == handle[t]
<1>1. pc[t] = "store" /\ writer = t /\ UNCHANGED <<deps, want, dep, todo>>
  BY DEF Register, IInv, Exclusive
<1>2. a \in Apis /\ w = VersionOf[a] /\ w \in Versions /\ a \in Handles /\ a # None
  BY <1>1 DEF IInv, SetUnderWay, Handles
<1>3. Caret(w, w)
  BY <1>2, CaretReflexive
<1>4. CASE /\ Registered(w)
           /\ target' = [target EXCEPT ![inner_apis[w]] = target[a]]
           /\ Unlock(t, dep[t], inner_apis[w])
           /\ UNCHANGED inner_apis
  <2>1. inner_apis[w] \in Handles \cup {None}
    BY <1>2 DEF IInv, TypeOK
  <2>2. /\ target' \in [Handles -> Apis \cup {None}]
        /\ OwnHandles' /\ Distinct' /\ EntryServes'
        /\ \A s \in Threads : handle[s] # None /\ target'[handle[s]] # None =>
             Caret(want[s], VersionOf[target'[handle[s]]])
    BY <1>1, <1>2, <1>3, <1>4, StoreKeeps
  <2>3. /\ \A s \in Threads : pc'[s] # "store"
        /\ pc' \in [Threads -> {"idle", "insert", "store", "panicked"}]
        /\ writer' = None
        /\ poisoned' \in BOOLEAN
        /\ \/ handle' = [handle EXCEPT ![t] = inner_apis[w]]
           \/ handle' = [handle EXCEPT ![t] = None]
        /\ handle' \in [Threads -> Handles \cup {None}]
    BY <1>1, <1>4, <2>1, UnlockKeeps
  <2>4. TypeOK'
    BY <1>1, <1>4, <2>2, <2>3 DEF IInv, TypeOK
  <2>5. Exclusive' /\ SetUnderWay' /\ Overwritten'
    BY <2>3 DEF Exclusive, SetUnderWay, Overwritten
  <2>6. \A s \in Threads : s # t => handle'[s] = handle[s]
    BY <2>3 DEF IInv, TypeOK
  <2>7. handle'[t] \in {None, inner_apis[w]}
    BY <2>3 DEF IInv, TypeOK
  <2>8. HandleOfMatch'
    BY <1>1, <1>2, <1>3, <1>4, <2>6, <2>7 DEF IInv, HandleOfMatch, Distinct, OwnHandles, Registered, Handles
  <2>9. HandleServes'
    BY <1>1, <1>2, <1>4, <2>2, <2>6, <2>7 DEF HandleServes, EntryServes, Registered
  <2> QED BY <2>2, <2>4, <2>5, <2>8, <2>9 DEF IInv
<1>5. CASE /\ ~Registered(w)
           /\ inner_apis' = [inner_apis EXCEPT ![w] = a]
           /\ Unlock(t, dep[t], a)
           /\ UNCHANGED target
  <2>1. /\ \A s \in Threads : pc'[s] # "store"
        /\ pc' \in [Threads -> {"idle", "insert", "store", "panicked"}]
        /\ writer' = None
        /\ poisoned' \in BOOLEAN
        /\ \/ handle' = [handle EXCEPT ![t] = a]
           \/ handle' = [handle EXCEPT ![t] = None]
        /\ handle' \in [Threads -> Handles \cup {None}]
    BY <1>1, <1>2, <1>5, UnlockKeeps
  <2>2. inner_apis'[w] = a /\ \A v \in Versions : v # w => inner_apis'[v] = inner_apis[v]
    BY <1>2, <1>5 DEF IInv, TypeOK
  <2>3. TypeOK'
    BY <1>1, <1>2, <1>5, <2>1 DEF IInv, TypeOK
  <2>4. Exclusive' /\ SetUnderWay' /\ Overwritten'
    BY <2>1 DEF Exclusive, SetUnderWay, Overwritten
  <2>5. OwnHandles'
    BY <1>2, <1>5, <2>2 DEF IInv, OwnHandles
  <2>6. Distinct'
    BY <1>2, <1>5, <2>2 DEF IInv, Distinct, OwnHandles, Registered
  <2>7. EntryServes'
    BY <1>2, <1>5, <2>2 DEF IInv, EntryServes, OwnHandles, Registered
  <2>8. \A s \in Threads : s # t => handle'[s] = handle[s]
    BY <2>1 DEF IInv, TypeOK
  <2>9. handle'[t] \in {None, a}
    BY <2>1 DEF IInv, TypeOK
  <2>10. HandleOfMatch'
    BY <1>1, <1>2, <1>3, <2>2, <2>8, <2>9 DEF IInv, HandleOfMatch, Distinct, OwnHandles, Registered, Handles
  <2>11. HandleServes'
    BY <1>1, <1>2, <1>5, <2>8, <2>9 DEF IInv, HandleServes, OwnHandles
  <2> QED BY <2>3, <2>4, <2>5, <2>6, <2>7, <2>10, <2>11 DEF IInv
<1> QED BY <1>4, <1>5 DEF Register

\* An entry goes, and its handle stays with whoever has it.
LEMMA RemoveIInv ==
  ASSUME IInv, NEW t \in Threads, NEW v \in Versions, NEW d \in Deps \cup {None}, Remove(t, v, d)
  PROVE  IInv'
<1> USE ApiRegistryAssumption, VersionsAssumption
<1>0. pc[t] = "idle" /\ writer = None /\ want' = [want EXCEPT ![t] = v]
  BY DEF Remove, Enter
<1>1. CASE poisoned /\ Panic(t) /\ UNCHANGED <<inner_apis, writer, poisoned>>
  BY <1>0, <1>1, AnswerIInv DEF Remove, Panic
<1>2. CASE /\ inner_apis' = [inner_apis EXCEPT ![v] = None]
           /\ Unlock(t, d, inner_apis[v])
  <2>0. UNCHANGED <<target, deps, dep, todo>>
    BY DEF Remove
  <2>1. inner_apis[v] \in Handles \cup {None}
    BY DEF IInv, TypeOK
  <2>2. /\ \A s \in Threads : pc'[s] # "store"
        /\ pc' \in [Threads -> {"idle", "insert", "store", "panicked"}]
        /\ writer' = None
        /\ poisoned' \in BOOLEAN
        /\ \/ handle' = [handle EXCEPT ![t] = inner_apis[v]]
           \/ handle' = [handle EXCEPT ![t] = None]
        /\ handle' \in [Threads -> Handles \cup {None}]
    BY <1>0, <1>2, <2>1, UnlockKeeps
  <2>3. inner_apis'[v] = None /\ \A u \in Versions : u # v => inner_apis'[u] = inner_apis[u]
    BY <1>2 DEF IInv, TypeOK
  <2>4. TypeOK'
    BY <1>0, <1>2, <2>0, <2>2 DEF IInv, TypeOK
  <2>5. Exclusive' /\ SetUnderWay' /\ Overwritten'
    BY <2>2 DEF Exclusive, SetUnderWay, Overwritten
  <2>6. OwnHandles' /\ Distinct' /\ EntryServes'
    BY <2>0, <2>3 DEF IInv, OwnHandles, Distinct, EntryServes, Registered, Handles
  <2>7. \A s \in Threads :
          IF s = t THEN handle'[s] \in {None, inner_apis[v]} /\ want'[s] = v
          ELSE handle'[s] = handle[s] /\ want'[s] = want[s]
    BY <1>0, <2>2 DEF IInv, TypeOK
  <2>8. Caret(v, v)
    BY CaretReflexive
  <2>9. HandleOfMatch'
    BY <2>3, <2>7, <2>8 DEF IInv, HandleOfMatch, Distinct, OwnHandles, Registered, Handles
  <2>10. HandleServes'
    BY <2>0, <2>7 DEF IInv, HandleServes, EntryServes, Registered
  <2> QED BY <2>4, <2>5, <2>6, <2>9, <2>10 DEF IInv
<1> QED BY <1>1, <1>2 DEF Remove

\* All entries go, and the handles stay with whoever has them.
LEMMA ShutdownIInv ==
  ASSUME IInv, Shutdown
  PROVE  IInv'
<1> USE ApiRegistryAssumption, VersionsAssumption
<1>1. \A v \in Versions : inner_apis'[v] = None
  BY DEF Shutdown
<1>2. TypeOK'
  BY DEF Shutdown, IInv, TypeOK
<1>3. \A s \in Threads : pc[s] # "store"
  BY DEF Shutdown, IInv, Exclusive
<1>4. Exclusive' /\ SetUnderWay' /\ Overwritten' /\ Distinct' /\ EntryServes'
  BY <1>1, <1>3 DEF Shutdown, IInv, Exclusive, SetUnderWay, Overwritten, Distinct, EntryServes, Registered
<1>5. OwnHandles' /\ HandleOfMatch' /\ HandleServes'
  BY <1>1 DEF Shutdown, IInv, OwnHandles, HandleOfMatch, HandleServes, Handles
<1> QED BY <1>2, <1>4, <1>5 DEF IInv

\* Nothing but the dependency contexts changes.
LEMMA QuietIInv ==
  ASSUME IInv, UNCHANGED <<inner_apis, target, writer, poisoned, pc, want, handle, dep, todo>>,
         deps' \in [Deps -> {"unmade", "live", "removed"}]
  PROVE  IInv'
BY DEF IInv, TypeOK, Exclusive, SetUnderWay, Overwritten, OwnHandles, Distinct, EntryServes,
       HandleOfMatch, HandleServes, Registered

\* Every step keeps the invariant.
LEMMA NextIInv ==
  ASSUME IInv, [Next]_vars
  PROVE  IInv'
<1> USE ApiRegistryAssumption, VersionsAssumption
<1>1. ASSUME NEW t \in Threads, NEW d \in Deps \cup {None}, Call(t, d)
      PROVE  IInv'
  BY <1>1, LookupIInv, SetIInv, RemoveIInv DEF Call
<1>2. ASSUME NEW t \in Threads, Step(t)
      PROVE  IInv'
  BY <1>2, InsertIInv, ReplaceIInv, RegisterIInv DEF Step
<1>3. ASSUME NEW d \in Deps, GetDepContext(d) \/ RemoveDepContext(d)
      PROVE  IInv'
  <2>1. deps' \in [Deps -> {"unmade", "live", "removed"}]
    BY <1>3 DEF GetDepContext, RemoveDepContext, IInv, TypeOK
  <2> QED BY <1>3, <2>1, QuietIInv DEF GetDepContext, RemoveDepContext
<1>4. CASE UNCHANGED vars
  BY <1>4, QuietIInv DEF vars, IInv, TypeOK
<1> QED BY <1>1, <1>2, <1>3, <1>4, ShutdownIInv DEF Next

LEMMA Inductive == Spec => []IInv
BY InitIInv, NextIInv, PTL DEF Spec

-----------------------------------------------------------------------------
(* The theorems *)

\* Every variable stays in its range.
THEOREM TypeCorrect == Spec => []TypeOK
<1>1. IInv => TypeOK
  BY DEF IInv
<1> QED BY <1>1, Inductive, PTL

\* Whoever asked for a version has null or an api that satisfies it, for all
\* versions, apis and threads, across sets, removals, shutdowns and panics.
THEOREM HandlesServe == Spec => []HandleServes
<1>1. IInv => HandleServes
  BY DEF IInv
<1> QED BY <1>1, Inductive, PTL

\* Whatever the versions, apis and threads: what a kept handle points to is
\* changed by no call but a set, to the api being set, which satisfies the
\* request the handle was given for.
THEOREM OnlySetsReplaceHandles == Spec => OnlySetsReplace
<1> USE ApiRegistryAssumption, VersionsAssumption
<1> DEFINE BySets == \A t \in Threads :
                       /\ ~Shutdown
                       /\ handle[t] # None /\ handle'[t] = handle[t]
                       /\ target[handle[t]] \notin {None, target'[handle[t]]}
                       => \E u \in Threads :
                            /\ pc[u] = "store"
                            /\ target'[handle[t]] = target[handle[u]]
                            /\ Caret(want[t], want[u])
<1>1. ASSUME IInv, [Next]_vars
      PROVE  BySets
  <2> SUFFICES ASSUME NEW s \in Threads, handle[s] # None, handle'[s] = handle[s],
                      target[handle[s]] # None, target'[handle[s]] # target[handle[s]]
               PROVE  \E u \in Threads :
                        /\ pc[u] = "store"
                        /\ target'[handle[s]] = target[handle[u]]
                        /\ Caret(want[s], want[u])
    OBVIOUS
  <2> DEFINE Replaced == \E u \in Threads :
                           /\ pc[u] = "store"
                           /\ target'[handle[s]] = target[handle[u]]
                           /\ Caret(want[s], want[u])
  <2> HIDE DEF Replaced
  <2>0. handle[s] \in Handles /\ want[s] \in Versions
    BY <1>1 DEF IInv, TypeOK
  <2>1. target' # target
    OBVIOUS
  <2>2. ASSUME NEW p \in Placeholders, Unused(p), target' = [target EXCEPT ![p] = None]
        PROVE  FALSE
    BY <1>1, <2>0, <2>2 DEF Unused, IInv, TypeOK
  <2>3. ASSUME NEW t \in Threads, NEW v \in Versions, pc[t] = "store",
               v = want[t] \/ Caret(v, want[t]),
               target' = [target EXCEPT ![inner_apis[v]] = target[handle[t]]]
        PROVE  Replaced
    <3>1. handle[s] = inner_apis[v] /\ target'[handle[s]] = target[handle[t]]
      BY <1>1, <2>0, <2>3 DEF IInv, TypeOK
    <3>2. Caret(want[s], v)
      BY <1>1, <3>1 DEF IInv, HandleOfMatch
    <3>3. want[t] \in Version /\ want[s] \in Version /\ v \in Version
      BY <1>1, <2>0 DEF IInv, TypeOK
    <3>4. Caret(want[s], want[t])
      BY <2>3, <3>2, <3>3, CaretTransitive
    <3> QED BY <2>3, <3>1, <3>4 DEF Replaced
  <2>4. ASSUME NEW t \in Threads, NEW d \in Deps \cup {None}, Call(t, d)
        PROVE  FALSE
    BY <2>1, <2>4 DEF Call, Find, GetOptional, Set, Remove
  <2>5. ASSUME NEW t \in Threads, Insert(t)
        PROVE  FALSE
    BY <2>1, <2>2, <2>5 DEF Insert
  <2>6. ASSUME NEW t \in Threads, Replace(t)
        PROVE  Replaced
    <3>1. todo[t] \subseteq Versions
      BY <1>1 DEF IInv, TypeOK
    <3>2. PICK v \in todo[t] : target' = [target EXCEPT ![inner_apis[v]] = target[handle[t]]]
      BY <2>6 DEF Replace
    <3>3. pc[t] = "store" /\ Caret(v, want[t])
      BY <1>1, <2>6 DEF Replace, IInv, SetUnderWay
    <3> QED BY <2>3, <3>1, <3>2, <3>3
  <2>7. ASSUME NEW t \in Threads, Register(t)
        PROVE  Replaced
    <3>1. want[t] \in Versions
      BY <1>1 DEF IInv, TypeOK
    <3>2. /\ pc[t] = "store"
          /\ target' = [target EXCEPT ![inner_apis[want[t]]] = target[handle[t]]]
      BY <2>1, <2>7 DEF Register
    <3> QED BY <2>3, <3>1, <3>2
  <2> QED BY <1>1, <2>1, <2>4, <2>5, <2>6, <2>7
          DEF Replaced, Next, Step, Shutdown, GetDepContext, RemoveDepContext, vars
<1>2. IInv /\ [Next]_vars => [BySets]_vars
  BY <1>1
<1>3. OnlySetsReplace <=> [][BySets]_vars
  BY DEF OnlySetsReplace
<1> QED BY <1>2, <1>3, Inductive, PTL DEF Spec

\* A set leaves no entry behind that its api satisfies.
THEOREM SetsReachEveryEntry == Spec => SetReachesEveryEntry
<1> USE ApiRegistryAssumption, VersionsAssumption
<1> DEFINE Reached == \A t \in Threads :
                        pc[t] = "store" /\ pc'[t] # "store" =>
                          \A v \in Versions :
                            inner_apis'[v] # None /\ Caret(v, want[t]) =>
                              target'[inner_apis'[v]] = target[handle[t]]
<1>1. ASSUME IInv, [Next]_vars
      PROVE  Reached
  <2> SUFFICES ASSUME NEW t \in Threads, pc[t] = "store", pc'[t] # "store",
                      NEW v \in Versions, inner_apis'[v] # None, Caret(v, want[t])
               PROVE  target'[inner_apis'[v]] = target[handle[t]]
    OBVIOUS
  <2>1. writer = t /\ t # None
    BY <1>1 DEF IInv, Exclusive
  <2>2. Register(t)
    <3>1. \A s \in Threads, d \in Deps \cup {None} : ~Call(s, d)
      BY <2>1 DEF Call, Find, GetOptional, Set, Remove, Enter
    <3>2. \A s \in Threads : ~Insert(s) /\ (Register(s) => s = t)
      BY <1>1, <2>1 DEF Insert, Register, IInv, Exclusive
    <3>3. \A s \in Threads : ~Replace(s)
      BY DEF Replace
    <3> QED BY <1>1, <2>1, <3>1, <3>2, <3>3
            DEF Next, Step, Shutdown, GetDepContext, RemoveDepContext, vars
  <2>3. todo[t] = {} /\ handle[t] \in Apis /\ want[t] \in Versions /\ want[t] = VersionOf[handle[t]]
    BY <1>1, <2>2 DEF Register, IInv, TypeOK, SetUnderWay
  <2>4. Caret(want[t], want[t])
    BY <2>3, CaretReflexive
  <2>5. CASE /\ Registered(want[t])
             /\ target' = [target EXCEPT ![inner_apis[want[t]]] = target[handle[t]]]
             /\ UNCHANGED inner_apis
    <3>1. /\ target'[inner_apis[want[t]]] = target[handle[t]]
          /\ \A u \in Versions : u # want[t] /\ Registered(u) =>
               target'[inner_apis[u]] = target[inner_apis[u]]
      BY ZenonT(30), <1>1, <2>3, <2>4, <2>5, StoreKeeps
    <3>2. CASE v = want[t]
      BY <2>5, <3>1, <3>2
    <3>3. CASE v # want[t]
      BY <1>1, <2>3, <2>5, <3>1, <3>3 DEF IInv, Overwritten, Registered
    <3> QED BY <3>2, <3>3
  <2>6. CASE /\ ~Registered(want[t])
             /\ inner_apis' = [inner_apis EXCEPT ![want[t]] = handle[t]]
             /\ UNCHANGED target
    <3>1. CASE v = want[t]
      BY <1>1, <2>3, <2>6, <3>1 DEF IInv, TypeOK
    <3>2. CASE v # want[t]
      BY <1>1, <2>3, <2>6, <3>2 DEF IInv, TypeOK, Overwritten, Registered
    <3> QED BY <3>1, <3>2
  <2> QED BY <2>2, <2>5, <2>6 DEF Register
<1>2. IInv /\ [Next]_vars => [Reached]_vars
  BY <1>1
<1>3. SetReachesEveryEntry <=> [][Reached]_vars
  BY DEF SetReachesEveryEntry
<1> QED BY <1>2, <1>3, Inductive, PTL DEF Spec
=============================================================================
