--------------------------- MODULE ConcurrentMap ---------------------------
(***************************************************************************)
(* What trait ConcurrentMap of circ_ds promises (concurrent_map.rs): a     *)
(* linearizable map.  Every call takes effect at one moment between its    *)
(* beginning and its answer, and a call that changes nothing answers what  *)
(* was true at some such moment.                                           *)
(*                                                                         *)
(* Every thread makes one call.  The value a thread inserts is named by    *)
(* the thread, the value a key has at the start by the key.                *)
(***************************************************************************)
EXTENDS Naturals

CONSTANTS
  Threads,
  Keys,
  None,       (* no value, no call                                        *)
  Pending     (* no answer yet                                            *)

VARIABLES
  contents,   (* contents[k]: the value of key k, or None                 *)
  call        (* call[t]: the call of thread t, and what it has witnessed *)

Ops == {"get", "insert", "remove", "pop"}
Values == Keys \cup Threads

Calls ==
  [op: Ops, key: Keys, seen: SUBSET (Values \cup {None}), took: Values \cup {None},
   answer: Values \cup {None, Pending}]

\* What the contents m are to a call with operation op on key k.
Sight(op, k, m) ==
  IF op = "pop" THEN {v \in {None} : \A l \in Keys : m[l] = None} ELSE {m[k]}

\* A call that begins.  took is the value it inserts or removes, once it has.
Fresh(op, k) ==
  [op |-> op, key |-> k, seen |-> Sight(op, k, contents), took |-> None, answer |-> Pending]

Open(t) == call[t] # None /\ call[t].answer = Pending

\* Insert answers its own value for true, and None for false.
Permitted(c, a) ==
  IF c.op = "get" THEN a \in c.seen
  ELSE /\ a = c.took
       /\ a = None => \E v \in c.seen : (v = None) <=> (c.op # "insert")

\* The calls that may still take effect.
Untaken == {t \in Threads : Open(t) /\ call[t].took = None /\ call[t].op # "get"}

\* Some of them take effect now, and takes has the key that each one changes.
CanTake(takes) ==
  \A t \in DOMAIN takes :
    /\ call[t].op # "pop" => takes[t] = call[t].key
    /\ (contents[takes[t]] = None) <=> (call[t].op = "insert")
    /\ \A u \in DOMAIN takes : takes[u] = takes[t] => u = t

Changed(takes) ==
  [k \in Keys |->
    IF \E t \in DOMAIN takes : takes[t] = k
    THEN LET t == CHOOSE t \in DOMAIN takes : takes[t] = k
         IN IF call[t].op = "insert" THEN t ELSE None
    ELSE contents[k]]

\* The call of t after a step in which the given calls take effect.
Witnessed(t, takes) ==
  LET c == call[t] IN
  IF ~Open(t) \/ c.took # None THEN c
  ELSE IF t \in DOMAIN takes
  THEN [c EXCEPT !.took = IF c.op = "insert" THEN t ELSE contents[takes[t]]]
  ELSE [c EXCEPT !.seen = @ \cup Sight(c.op, c.key, contents')]

-----------------------------------------------------------------------------

Init ==
  /\ contents \in {m \in [Keys -> Keys \cup {None}] : \A k \in Keys : m[k] \in {k, None}}
  /\ call = [t \in Threads |-> None]

\* In one step calls take effect, and one thread may begin its call or answer.
Step(takes) ==
  /\ CanTake(takes)
  /\ contents' = Changed(takes)
  /\ \A t \in Threads :
       LET now == Witnessed(t, takes) IN
       \/ call'[t] = now
       \/ /\ call[t] = None
          /\ \E op \in Ops, k \in Keys : call'[t] = Fresh(op, k)
       \/ /\ Open(t)
          /\ \E a \in Values \cup {None} :
               Permitted(now, a) /\ call'[t] = [now EXCEPT !.answer = a]

Next == \E T \in SUBSET Untaken : \E takes \in [T -> Keys] : Step(takes)

Spec == Init /\ [][Next]_<<contents, call>>
=============================================================================
