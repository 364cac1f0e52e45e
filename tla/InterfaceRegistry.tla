-------------------------- MODULE InterfaceRegistry --------------------------
(***************************************************************************)
(* The interfaces of the api registry                                      *)
(* (bubble_core/src/api/api_registry_api.rs): add_interface,               *)
(* remove_interface and shutdown, each under the write lock of             *)
(* inner_interfaces.  One name is modelled: names never mix.               *)
(*                                                                         *)
(* An instance has the id of its struct, so two instances of one struct,   *)
(* of an old and of a new build, have the same id; age tells them apart.   *)
(***************************************************************************)
EXTENDS SemVer, Sequences, FiniteSets

CONSTANTS
  Ids,        (* instance ids                                             *)
  Ages        (* bound: how many instances are added                      *)

VARIABLES
  inner_interfaces,   (* the instances listed by each version that has an entry *)
  age,                (* how many instances have been added               *)
  poisoned            (* a call has panicked under the write lock         *)

interfacesVars == <<inner_interfaces, age, poisoned>>

Instances == [id : Ids, of : Versions, age : Nat]
Keys == DOMAIN inner_interfaces

InterfacesInit ==
  /\ inner_interfaces = [v \in {} |-> <<>>]
  /\ age = 0
  /\ poisoned = FALSE

\* Whoever records with a dead dependency id panics, after all is done.
Record == poisoned' \in BOOLEAN

Position(s, id) ==
  CHOOSE i \in DOMAIN s : s[i].id = id /\ \A j \in 1 .. i - 1 : s[j].id # id

\* Mutant: the last instance moves into the gap.
SwapRemove(s, id) ==
  IF \E i \in DOMAIN s : s[i].id = id
  THEN [i \in 1 .. Len(s) - 1 |-> IF i = Position(s, id) THEN s[Len(s)] ELSE s[i]]
  ELSE s

\* The first instance of the id leaves the list, the others keep their order.
Without(s, id) ==
  IF \E i \in DOMAIN s : s[i].id = id
  THEN [i \in 1 .. Len(s) - 1 |-> IF i < Position(s, id) THEN s[i] ELSE s[i + 1]]
  ELSE s

\* Mutant: the requirement is made from the version that is added.
PushSwapped(w, instance) ==
  [v \in Keys \cup {w} |->
    LET s == IF v \in Keys THEN inner_interfaces[v] ELSE <<>> IN
    IF v = w \/ Caret(w, v) THEN Append(s, instance) ELSE s]

\* Mutant: the newest instance is listed first.
PushedFirst(w, instance) ==
  [v \in Keys \cup {w} |->
    LET s == IF v \in Keys THEN inner_interfaces[v] ELSE <<>> IN
    IF v = w \/ Caret(v, w) THEN <<instance>> \o s ELSE s]

\* The entry of the version itself, and every other one that it satisfies.
Pushed(w, instance) ==
  [v \in Keys \cup {w} |->
    LET s == IF v \in Keys THEN inner_interfaces[v] ELSE <<>> IN
    IF v = w \/ Caret(v, w) THEN Append(s, instance) ELSE s]

AddInterface(w, id) ==
  /\ ~poisoned
  /\ age < Ages
  /\ inner_interfaces' = Pushed(w, [id |-> id, of |-> w, age |-> age])
  /\ age' = age + 1
  /\ Record


RemoveInterface(from, id) ==
  /\ ~poisoned
  /\ inner_interfaces' = [v \in Keys |->
       IF Caret(from, v) THEN Without(inner_interfaces[v], id)
       ELSE inner_interfaces[v]]
  /\ Record
  /\ UNCHANGED age

ShutdownInterfaces ==
  /\ ~poisoned
  /\ inner_interfaces' = [v \in {} |-> <<>>]
  /\ UNCHANGED <<age, poisoned>>

InterfacesNext ==
  \/ \E v \in Versions, id \in Ids : AddInterface(v, id) \/ RemoveInterface(v, id)
  \/ ShutdownInterfaces
  \/ poisoned /\ UNCHANGED interfacesVars

InterfacesSpec == InterfacesInit /\ [][InterfacesNext]_interfacesVars

-----------------------------------------------------------------------------
(* Properties *)

\* The range of every variable.
InterfacesType ==
  /\ Keys \subseteq Versions
  /\ \A v \in Keys : inner_interfaces[v] \in Seq(Instances)
  /\ age \in Nat
  /\ poisoned \in BOOLEAN

\* Whatever is asked for, the answer implements a version that satisfies it:
\* through two requirements, of the entry and of the instance in its list.
AnswersServe ==
  \A v \in Versions : \A k \in Keys : \A n \in DOMAIN inner_interfaces[k] :
    Caret(v, k) => Caret(v, inner_interfaces[k][n].of)

\* Each list is in the order its instances were added in, whatever is removed
\* in between: the first one is the oldest.
OldestFirst ==
  \A k \in Keys : \A m, n \in DOMAIN inner_interfaces[k] :
    m < n => inner_interfaces[k][m].age < inner_interfaces[k][n].age
=============================================================================
