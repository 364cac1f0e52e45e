----------------------------- MODULE DynStatics -----------------------------
(***************************************************************************)
(* The statics that plugins share through their host (dyntls_host): who    *)
(* asks first for a static initialises it, and everyone must get the same. *)
(* The map behind it is the search tree of NatarajanMittalTree, of which   *)
(* dyntls_host has a copy; nothing is ever removed from it.                *)
(*                                                                         *)
(* tls does the same with a map to each thread, so that no two calls meet. *)
(***************************************************************************)
EXTENDS NatarajanMittalTree

VARIABLE
  got        (* the value that statics has answered to each thread        *)

\* The map starts empty: PLUGIN_STATIC is written once.
StaticsInit ==
  /\ heap = Empty
  /\ local = [t \in Threads |-> [pc |-> "idle", mine |-> None]]
  /\ call = [t \in Threads |-> None]
  /\ got = [t \in Threads |-> None]

Starts(t, op, id) ==
  /\ call' = [call EXCEPT ![t] = Map!Fresh(op, id)]
  /\ local' = [local EXCEPT ![t] = [pc |-> "start", mine |-> None]]
  /\ UNCHANGED <<heap, got>>

\* statics(id): first a get.
Ask(t) ==
  /\ call[t] = None
  /\ \E id \in Keys : Starts(t, "get", id)

Answered(t, op) ==
  call[t] # None /\ call[t].op = op /\ call[t].answer # Pending /\ got[t] = None

\* Mutant: the value that was just initialised is answered, inserted or not.
UseOwn(t) ==
  /\ Answered(t, "insert")
  /\ got' = [got EXCEPT ![t] = t]
  /\ UNCHANGED <<heap, local, call>>

\* The get found a value, which is the answer.
Use(t) ==
  /\ Answered(t, "get") /\ call[t].answer # None
  /\ got' = [got EXCEPT ![t] = call[t].answer]
  /\ UNCHANGED <<heap, local, call>>

\* The get found nothing: the own value is inserted, if no other is by now.
Initialize(t) ==
  /\ Answered(t, "get") /\ call[t].answer = None
  /\ Starts(t, "insert", call[t].key)

\* And whatever came of it, a second get.
AskAgain(t) ==
  /\ Answered(t, "insert")
  /\ Starts(t, "get", call[t].key)

statics(t) ==
  \/ Ask(t) \/ Use(t) \/ Initialize(t) \/ AskAgain(t)
  \/ Access(t) /\ UNCHANGED got

StaticsNext == \E t \in Threads : statics(t)

\* Threads that asked for the same static have the same value, and it is still
\* the one in the map.
OneValue ==
  \A t \in Threads : got[t] # None => Contents[call[t].key] = got[t]
=============================================================================
