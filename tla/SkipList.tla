------------------------------ MODULE SkipList ------------------------------
(***************************************************************************)
(* The skip list of circ_ds (skip_list.rs): a marked list at level 0, and  *)
(* shortcuts above it that are built and marked one level at a time.       *)
(*                                                                         *)
(* A node is named by the thread that inserts it or, if it is there at the *)
(* start, by its key.  Heights are drawn at random in the code.            *)
(***************************************************************************)
EXTENDS Naturals, TLC

CONSTANTS
  Threads, Keys, None, Pending,
  Head,
  Top        (* the highest level; the code has 32 levels                 *)

VARIABLES
  heap,      (* the key and height of every node, its link at every level *)
  local,     (* where each thread is, and its cursor                      *)
  call       (* the calls, with the witnesses that ConcurrentMap names    *)

vars == <<heap, local, call>>

Levels == 0 .. Top
Nodes == {Head} \cup Keys \cup Threads

\* Tag 1 of the code is mark, tag 2, of a level not built yet, is unset.
Link(n) == [to |-> n, mark |-> FALSE, unset |-> FALSE]
Unset == [to |-> None, mark |-> FALSE, unset |-> TRUE]

RECURSIVE Chain(_)
Chain(n) == IF n = None THEN {} ELSE {n} \cup Chain(heap.link[n][0].to)

Contents ==
  [k \in Keys |->
    LET live == {n \in Chain(heap.link[Head][0].to) : heap.key[n] = k /\ ~heap.link[n][0].mark}
    IN IF live = {} THEN None ELSE CHOOSE n \in live : TRUE]

Map == INSTANCE ConcurrentMap WITH contents <- Contents

\* The first of the present keys behind n that is as high as level i.
Behind(n, i, height) ==
  LET ks == {k \in DOMAIN height : height[k] > i /\ (n \in Keys => k > n)}
  IN IF ks = {} THEN None ELSE CHOOSE k \in ks : \A l \in ks : k <= l

Init ==
  /\ \E present \in SUBSET Keys : \E height \in [present -> 1 .. Top + 1] :
       heap = [key |-> [n \in Keys \cup Threads |-> IF n \in Keys THEN n ELSE None],
               height |-> [n \in Keys \cup Threads |-> IF n \in present THEN height[n] ELSE 1],
               link |-> [n \in Nodes |-> [i \in Levels |->
                 IF n = Head \/ (n \in present /\ i < height[n])
                 THEN Link(Behind(n, i, height)) ELSE Unset]]]
  /\ local = [t \in Threads |-> [pc |-> "idle"]]
  /\ call = [t \in Threads |-> None]

-----------------------------------------------------------------------------
(* Helpers *)

Go(t, l) == local' = [local EXCEPT ![t] = l] /\ UNCHANGED call

Answer(t, a) ==
  /\ call' = [call EXCEPT ![t].answer = a]
  /\ local' = [local EXCEPT ![t] = [pc |-> "done"]]

\* The call of t takes effect.
Effect(t) == call' = [u \in Threads |-> Map!Witnessed(u, t :> call[t].key)]

Succeeds(n, i, old) == heap.link[n][i] = Link(old)
Store(n, i, new) == heap' = [heap EXCEPT !.link[n][i] = Link(new)]

\* Find again, for the purpose given, from the head.
Find(t, purpose, node, level) ==
  Go(t, [pc |-> "start", purpose |-> purpose, node |-> node, build |-> level])

\* The find of t has a cursor: preds and succs at every level, and a node.
Found(t, l) ==
  LET next(pc) == [pc |-> pc, node |-> l.node, build |-> l.build,
                   preds |-> l.preds, succs |-> l.succs]
  IN CASE l.purpose = "insert" ->
            IF l.found # None THEN Answer(t, None) ELSE Go(t, next("link"))
       [] l.purpose = "build" -> Go(t, next("set"))
       [] l.purpose = "remove" ->
            IF l.found = None THEN Answer(t, None)
            ELSE Go(t, [next("mark") EXCEPT !.node = l.found,
                                            !.build = heap.height[l.found] - 1])
       [] l.purpose = "clean" -> Answer(t, l.node)

\* The level of the find of t ends between pred and curr.
LevelEnds(t, l, hit) ==
  LET m == [l EXCEPT !.preds[l.level] = l.pred, !.succs[l.level] = l.curr,
                     !.found = IF hit THEN l.curr ELSE @]
  IN IF l.level = 0 THEN Found(t, m)
     ELSE Go(t, [m EXCEPT !.pc = "down", !.level = @ - 1, !.curr = None])

-----------------------------------------------------------------------------
(* Steps, with one access to shared memory each *)

Begin(t) ==
  /\ call[t] = None
  /\ \E op \in Map!Ops \ {"pop"}, k \in Keys :
       /\ call' = [call EXCEPT ![t] = Map!Fresh(op, k)]
       /\ local' = [local EXCEPT ![t] = [pc |-> "start", purpose |-> op, node |-> None, build |-> 0]]
  /\ UNCHANGED heap

\* A find starts at the highest level that has a node.
Start(t) ==
  LET used == {i \in Levels : i = 0 \/ heap.link[Head][i].to # None}
      none == [i \in Levels |-> None]
  IN /\ local[t].pc = "start"
     /\ Go(t, [pc |-> "down", purpose |-> local[t].purpose, node |-> local[t].node,
               build |-> local[t].build, level |-> CHOOSE i \in used : \A j \in used : j <= i,
               pred |-> Head, curr |-> None, found |-> None,
               preds |-> [i \in Levels |-> Head], succs |-> none])
     /\ UNCHANGED heap

\* The first node of a level; behind a removed one the find starts over.
Down(t) ==
  LET l == local[t] link == heap.link[l.pred][l.level] IN
  /\ l.pc = "down"
  /\ IF link.mark /\ call[t].op # "get" THEN Find(t, l.purpose, l.node, l.build)
     ELSE Go(t, [l EXCEPT !.pc = "walk", !.curr = link.to])
  /\ UNCHANGED heap

\* One node further at this level; a removed node is to be unlinked first.
Walk(t) ==
  LET l == local[t] link == heap.link[l.curr][l.level] IN
  /\ l.pc = "walk" /\ call[t].op # "get"
  /\ IF l.curr = None THEN LevelEnds(t, l, FALSE)
     ELSE IF link.mark THEN Go(t, [l EXCEPT !.pc = "help"])
     ELSE IF heap.key[l.curr] < call[t].key
     THEN Go(t, [l EXCEPT !.pred = l.curr, !.curr = link.to])
     ELSE LevelEnds(t, l, heap.key[l.curr] = call[t].key)
  /\ UNCHANGED heap

\* help_unlink.  The link of a removed node does not change any more.
Help(t) ==
  LET l == local[t] next == heap.link[l.curr][l.level].to IN
  /\ l.pc = "help"
  /\ IF Succeeds(l.pred, l.level, l.curr)
     THEN Store(l.pred, l.level, next) /\ Go(t, [l EXCEPT !.pc = "walk", !.curr = next])
     ELSE Find(t, l.purpose, l.node, l.build) /\ UNCHANGED heap

\* find_optimistic: removed nodes are passed over.
WalkOptimistic(t) ==
  LET l == local[t] link == heap.link[l.curr][l.level] IN
  /\ l.pc = "walk" /\ call[t].op = "get"
  /\ IF l.curr # None /\ link.mark THEN Go(t, [l EXCEPT !.curr = link.to])
     ELSE IF l.curr # None /\ heap.key[l.curr] < call[t].key
     THEN Go(t, [l EXCEPT !.pred = l.curr, !.curr = link.to])
     ELSE IF l.level > 0 THEN Go(t, [l EXCEPT !.pc = "down", !.level = @ - 1, !.curr = None])
     ELSE Answer(t, IF l.curr # None /\ heap.key[l.curr] = call[t].key THEN l.curr ELSE None)
  /\ UNCHANGED heap

\* The new node is installed at level 0.
Insert(t) ==
  LET l == local[t] IN
  /\ l.pc = "link"
  /\ IF Succeeds(l.preds[0], 0, l.succs[0])
     THEN \E h \in 1 .. Top + 1 :
            /\ heap' = [heap EXCEPT
                 !.key[t] = call[t].key, !.height[t] = h, !.link[l.preds[0]][0] = Link(t),
                 !.link[t] = [i \in Levels |-> IF i = 0 THEN Link(l.succs[0]) ELSE Unset]]
            /\ Effect(t)
            /\ local' = [local EXCEPT ![t] =
                 [l EXCEPT !.pc = IF h = 1 THEN "true" ELSE "set", !.build = 1]]
     ELSE Find(t, "insert", None, 0) /\ UNCHANGED heap

\* Mutant: the own link is set although the node is being removed.
SetOver(t) ==
  LET l == local[t] IN
  /\ l.pc = "set"
  /\ Store(t, l.build, l.succs[l.build])
  /\ Go(t, [l EXCEPT !.pc = "raise"])

\* The tower: the own link is set, unless the node is being removed.
Set(t) ==
  LET l == local[t] IN
  /\ l.pc = "set"
  /\ IF heap.link[t][l.build].mark THEN Answer(t, t) /\ UNCHANGED heap
     ELSE Store(t, l.build, l.succs[l.build]) /\ Go(t, [l EXCEPT !.pc = "raise"])

\* The node is installed at the level.
Raise(t) ==
  LET l == local[t] IN
  /\ l.pc = "raise"
  /\ IF Succeeds(l.preds[l.build], l.build, l.succs[l.build])
     THEN /\ Store(l.preds[l.build], l.build, t)
          /\ IF l.build + 1 = heap.height[t] THEN Answer(t, t)
             ELSE Go(t, [l EXCEPT !.pc = "set", !.build = @ + 1])
     ELSE Find(t, "build", None, l.build) /\ UNCHANGED heap

Return(t) ==
  /\ local[t].pc = "true"
  /\ Answer(t, t)
  /\ UNCHANGED heap

\* mark_tower, from the top level down.  Who marks level 0 removes the node.
Mark(t) ==
  LET l == local[t] marked == heap.link[l.node][l.build].mark IN
  /\ l.pc = "mark"
  /\ IF marked THEN UNCHANGED heap
     ELSE heap' = [heap EXCEPT !.link[l.node][l.build].mark = TRUE]
  /\ IF l.build > 0 THEN Go(t, [l EXCEPT !.build = @ - 1])
     ELSE IF marked THEN Find(t, "remove", None, 0)
     ELSE /\ Effect(t)
          /\ local' = [local EXCEPT ![t] =
               [l EXCEPT !.pc = "unlink", !.build = heap.height[l.node] - 1]]

\* Levels that were not built are passed over; when one fails a find cleans up.
Unlink(t) ==
  LET l == local[t]
      link == heap.link[l.node][l.build]
      done == IF l.build = 0 THEN Answer(t, l.node) ELSE Go(t, [l EXCEPT !.build = @ - 1])
  IN /\ l.pc = "unlink"
     /\ IF link.unset THEN done /\ UNCHANGED heap
        ELSE IF Succeeds(l.preds[l.build], l.build, l.node)
        THEN Store(l.preds[l.build], l.build, link.to) /\ done
        ELSE Find(t, "clean", l.node, 0) /\ UNCHANGED heap

-----------------------------------------------------------------------------
(* Specification *)

Access(t) ==
  \/ Start(t) \/ Down(t) \/ Walk(t) \/ Help(t) \/ WalkOptimistic(t) \/ Insert(t)
  \/ Set(t) \/ Raise(t) \/ Return(t) \/ Mark(t) \/ Unlink(t)

Next == \E t \in Threads : Begin(t) \/ Access(t)

Spec == Init /\ [][Next]_vars /\ \A t \in Threads : WF_vars(Access(t))

-----------------------------------------------------------------------------
(* Properties *)

\* Every level is in the order of keys, whatever is built and removed at once:
\* a shortcut never leads past a node that its level should find.
Sorted ==
  \A n \in Keys \cup Threads : \A i \in Levels :
    LET m == heap.link[n][i].to IN m # None => heap.key[n] < heap.key[m]

\* The skip list is a map: see ConcurrentMap.
IsMap == Map!Spec
=============================================================================
