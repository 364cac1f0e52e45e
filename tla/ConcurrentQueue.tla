-------------------------- MODULE ConcurrentQueue --------------------------
(***************************************************************************)
(* What a concurrent queue promises: first in, first out, each call at one *)
(* moment between its beginning and its answer.  A dequeue that answers    *)
(* nothing saw the queue empty at such a moment.                           *)
(*                                                                         *)
(* Every thread makes one call; the item that it enqueues has its name.    *)
(***************************************************************************)
EXTENDS Naturals, Sequences

CONSTANTS
  Threads,
  None,       (* no item, no call                                         *)
  Pending     (* no answer yet                                            *)

VARIABLES
  items,      (* the queue                                                *)
  call        (* call[t]: the call of thread t, and what it has witnessed *)

Ops == {"enqueue", "dequeue"}

Calls ==
  [op : Ops, empty : BOOLEAN, took : Threads \cup {None}, answer : Threads \cup {None, Pending}]

\* A call that begins.  took is its item, once it has taken effect.
Fresh(op) ==
  [op |-> op, empty |-> items = <<>>, took |-> None, answer |-> Pending]

Open(t) == call[t] # None /\ call[t].answer = Pending

\* The call of t after a step in which the calls of the given threads take
\* effect, each with an item.
Witnessed(t, takes) ==
  LET c == call[t] IN
  IF ~Open(t) \/ c.took # None THEN c
  ELSE IF t \in DOMAIN takes THEN [c EXCEPT !.took = takes[t]]
  ELSE [c EXCEPT !.empty = @ \/ items' = <<>>]

\* Enqueue answers when it has taken effect, dequeue with its item or none.
Permitted(c, a) == a = c.took /\ (a = None => c.op = "dequeue" /\ c.empty)

-----------------------------------------------------------------------------

Init == items = <<>> /\ call = [t \in Threads |-> None]

\* Nothing, one enqueue or one dequeue takes effect in a step.
Takes(T, takes) ==
  \/ T = {} /\ items' = items
  \/ \E t \in T :
       /\ T = {t} /\ Open(t) /\ call[t].took = None
       /\ IF call[t].op = "enqueue"
          THEN takes = [u \in T |-> u] /\ items' = Append(items, t)
          ELSE items # <<>> /\ takes = [u \in T |-> Head(items)] /\ items' = Tail(items)

\* Meanwhile one thread may begin its call or answer.
Step(T, takes) ==
  /\ Takes(T, takes)
  /\ \A t \in Threads :
       LET now == Witnessed(t, takes) IN
       \/ call'[t] = now
       \/ call[t] = None /\ \E op \in Ops : call'[t] = Fresh(op)
       \/ /\ Open(t)
          /\ \E a \in Threads \cup {None} :
               Permitted(now, a) /\ call'[t] = [now EXCEPT !.answer = a]

Next == \E T \in SUBSET Threads : \E takes \in [T -> Threads] : Step(T, takes)

Spec == Init /\ [][Next]_<<items, call>>
=============================================================================
