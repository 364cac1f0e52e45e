----------------------------- MODULE DoubleLink -----------------------------
(***************************************************************************)
(* The queue of circ_ds (double_link.rs).  An enqueue swings the tail to   *)
(* its node and links the node behind its predecessor afterwards; an       *)
(* enqueue that comes in between makes up for the missing link first.      *)
(*                                                                         *)
(* A node is named by the thread that enqueues it.  Nodes are counted and  *)
(* guarded; prev is weak, and fails once its node is gone.                 *)
(***************************************************************************)
EXTENDS Naturals, Sequences, FiniteSets

CONSTANTS Threads, None, Pending, Sentinel

VARIABLES
  heap,      (* head, tail, and the links of every node                   *)
  local,     (* where each thread is, and what it has loaded              *)
  call       (* the calls, with the witnesses of ConcurrentQueue          *)

vars == <<heap, local, call>>

Nodes == {Sentinel} \cup Threads

\* Lists of nodes, none twice.
Lists ==
  {s \in UNION {[1 .. n -> Threads] : n \in 0 .. Cardinality(Threads)} :
     \A i, j \in DOMAIN s : s[i] = s[j] => i = j}

\* The list s is behind the head: it is what the links lead to.
Behind(s) ==
  LET at(i) == IF i = 0 THEN heap.head ELSE s[i] IN
  \A i \in 0 .. Len(s) : heap.next[at(i)] = IF i = Len(s) THEN None ELSE s[i + 1]

\* What a dequeue can reach.
Items == CHOOSE s \in Lists : Behind(s)

Fifo == INSTANCE ConcurrentQueue WITH items <- Items

Init ==
  /\ heap = [head |-> Sentinel, tail |-> Sentinel, next |-> [n \in Nodes |-> None],
             prev |-> [n \in Nodes |-> None]]
  /\ local = [t \in Threads |-> [pc |-> "idle"]]
  /\ call = [t \in Threads |-> None]

-----------------------------------------------------------------------------
(* Helpers *)

Go(t, l) == local' = [local EXCEPT ![t] = l]

Answer(t, c, a) == call' = [c EXCEPT ![t].answer = a] /\ Go(t, [pc |-> "done"])

\* The node that now stands behind n, if it did not, has been enqueued.
After(n) ==
  LET m == heap'.next[n]
      new == IF heap.next[n] = None THEN {m} ELSE {}
  IN [u \in Threads |-> Fifo!Witnessed(u, [w \in new |-> w])]

Store(n, m) == heap' = [heap EXCEPT !.next[n] = m]

-----------------------------------------------------------------------------
(* Steps, with one access to shared memory each *)

Begin(t) ==
  /\ call[t] = None
  /\ \E op \in Fifo!Ops : call' = [call EXCEPT ![t] = Fifo!Fresh(op)]
  /\ Go(t, [pc |-> "start"])
  /\ UNCHANGED heap

\* enqueue: the tail becomes the predecessor of the own node.
LoadTail(t) ==
  /\ local[t].pc = "start" /\ call[t].op = "enqueue"
  /\ heap' = [heap EXCEPT !.prev[t] = heap.tail]
  /\ Go(t, [pc |-> "help", tail |-> heap.tail, prev |-> heap.prev[heap.tail]])
  /\ UNCHANGED call

\* Mutant: the predecessor is not helped.
HelpNot(t) ==
  /\ local[t].pc = "help"
  /\ Go(t, [local[t] EXCEPT !.pc = "swing"])
  /\ UNCHANGED <<heap, call>>

\* Is the tail linked behind its own predecessor?  A predecessor that is gone
\* has been dequeued past, and its link had been set.
Help(t) ==
  LET l == local[t] IN
  /\ l.pc = "help"
  /\ Go(t, [l EXCEPT !.pc = IF l.prev # None /\ heap.next[l.prev] = None THEN "mend" ELSE "swing"])
  /\ UNCHANGED <<heap, call>>

Mend(t) ==
  LET l == local[t] IN
  /\ l.pc = "mend"
  /\ Store(l.prev, l.tail)
  /\ call' = After(l.prev)
  /\ Go(t, [l EXCEPT !.pc = "swing"])

\* The compare and exchange of the tail.
Swing(t) ==
  LET l == local[t] IN
  /\ l.pc = "swing"
  /\ IF heap.tail = l.tail
     THEN heap' = [heap EXCEPT !.tail = t] /\ Go(t, [l EXCEPT !.pc = "link"])
     ELSE Go(t, [pc |-> "start"]) /\ UNCHANGED heap
  /\ UNCHANGED call

\* The node is linked, once more if someone has helped, and enqueue is done.
LinkTail(t) ==
  LET l == local[t] IN
  /\ l.pc = "link"
  /\ Store(l.tail, t)
  /\ Answer(t, After(l.tail), t)

\* dequeue
LoadHead(t) ==
  /\ local[t].pc = "start" /\ call[t].op = "dequeue"
  /\ Go(t, [pc |-> "next", head |-> heap.head])
  /\ UNCHANGED <<heap, call>>

LoadNext(t) ==
  LET l == local[t] next == heap.next[l.head] IN
  /\ l.pc = "next"
  /\ IF next = None THEN Answer(t, call, None)
     ELSE Go(t, [pc |-> "take", head |-> l.head, next |-> next]) /\ UNCHANGED call
  /\ UNCHANGED heap

\* The compare and exchange of the head.
Take(t) ==
  LET l == local[t] IN
  /\ l.pc = "take"
  /\ IF heap.head = l.head
     THEN /\ heap' = [heap EXCEPT !.head = l.next]
          /\ Answer(t, [u \in Threads |-> Fifo!Witnessed(u, [w \in {t} |-> l.next])], l.next)
     ELSE Go(t, [pc |-> "start"]) /\ UNCHANGED <<heap, call>>

-----------------------------------------------------------------------------
(* Specification *)

Access(t) ==
  \/ LoadTail(t) \/ Help(t) \/ Mend(t) \/ Swing(t) \/ LinkTail(t)
  \/ LoadHead(t) \/ LoadNext(t) \/ Take(t)

Next == \E t \in Threads : Begin(t) \/ Access(t)

Spec == Init /\ [][Next]_vars /\ \A t \in Threads : WF_vars(Access(t))

-----------------------------------------------------------------------------
(* Properties *)

\* The queue is first in, first out: see ConcurrentQueue.
IsFifo == Fifo!Spec
=============================================================================
