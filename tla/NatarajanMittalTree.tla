------------------------ MODULE NatarajanMittalTree ------------------------
(***************************************************************************)
(* The external search tree of circ_ds (natarajan_mittal_tree.rs).  Keys   *)
(* are at the leaves; a removal flags the edge to its leaf, tags the edge  *)
(* to the sibling, and puts the sibling in the place of the parent, and    *)
(* whoever is in the way helps.  dyntls_host has a copy.                   *)
(*                                                                         *)
(* A leaf is named by the thread that inserts it or, if it is there at the *)
(* start, by its key, and the internal node that comes with it alike.      *)
(***************************************************************************)
EXTENDS Naturals, FiniteSets

CONSTANTS
  Threads, Keys, None, Pending,
  Inf        (* a number that is greater than every key                   *)

VARIABLES
  heap,      (* the key of every node and the edges of internal nodes     *)
  local,     (* where each thread is, and its seek record                 *)
  call       (* the calls, with the witnesses that ConcurrentMap names    *)

vars == <<heap, local, call>>

Leaf(v) == <<"leaf", v>>
Inner(v) == <<"inner", v>>
R == <<"root", 0>>
S == <<"root", 1>>

Edge(n) == [to |-> n, flag |-> FALSE, tag |-> FALSE]

\* The tree without keys: the root, its child, and three leaves.
Empty ==
  [key |-> [n \in {R, S} \cup {Leaf(Inf + i) : i \in 0 .. 2} |-> Inf],
   edge |-> [e \in {R, S} \X {"L", "R"} |->
     CASE e = <<R, "L">> -> Edge(S)         [] e = <<R, "R">> -> Edge(Leaf(Inf + 2))
       [] e = <<S, "L">> -> Edge(Leaf(Inf)) [] e = <<S, "R">> -> Edge(Leaf(Inf + 1))]]

Internal(h, n) == <<n, "L">> \in DOMAIN h.edge

\* Mutant: equal keys are on the left.
SideOfEqual(h, n, k) == IF h.key[n] >= k THEN "L" ELSE "R"

\* Greater keys are on the right, and equal ones.
Side(h, n, k) == IF h.key[n] > k THEN "L" ELSE "R"
Other(side) == IF side = "L" THEN "R" ELSE "L"

\* Tree h with a leaf of key k where edge e leads to leaf m: a new internal
\* node, with the greater of their keys, has both.
Grown(h, e, m, v, k) ==
  LET inner == Inner(v)
      less == h.key[m] < k
  IN [key |-> [n \in DOMAIN h.key \cup {Leaf(v), inner} |->
        CASE n = Leaf(v) -> k
          [] n = inner -> IF less THEN k ELSE h.key[m]
          [] OTHER -> h.key[n]],
      edge |-> [f \in DOMAIN h.edge \cup {<<inner, "L">>, <<inner, "R">>} |->
        CASE f = e -> Edge(inner)
          [] f = <<inner, "L">> -> Edge(IF less THEN m ELSE Leaf(v))
          [] f = <<inner, "R">> -> Edge(IF less THEN Leaf(v) ELSE m)
          [] OTHER -> h.edge[f]]]

\* The edge where a search for k ends, and the leaf that it leads to.
EdgeTo(h, k) ==
  LET edge[e \in DOMAIN h.edge] ==
        LET n == h.edge[e].to
        IN IF Internal(h, n) THEN edge[<<n, Side(h, n, k)>>] ELSE e
  IN edge[<<S, "L">>]

End(h, k) == h.edge[EdgeTo(h, k)].to

\* The keys order[1] ... order[size] have been inserted one after the other.
Filled(order, size) ==
  LET filled[i \in 0 .. size] ==
        IF i = 0 THEN Empty
        ELSE LET h == filled[i - 1]
                 k == order[i]
             IN Grown(h, EdgeTo(h, k), End(h, k), k, k)
  IN filled[size]

Contents ==
  [k \in Keys |->
    LET n == End(heap, k) IN IF heap.key[n] = k THEN n[2] ELSE None]

Map == INSTANCE ConcurrentMap WITH contents <- Contents

Init ==
  /\ \E size \in 0 .. Cardinality(Keys) : \E order \in [1 .. size -> Keys] :
       /\ \A i, j \in 1 .. size : order[i] = order[j] => i = j
       /\ heap = Filled(order, size)
  /\ local = [t \in Threads |-> [pc |-> "idle", mine |-> None]]
  /\ call = [t \in Threads |-> None]

-----------------------------------------------------------------------------
(* Helpers *)

Go(t, record) == local' = [local EXCEPT ![t] = record] /\ UNCHANGED call
Retry(t, mine) == Go(t, [pc |-> "start", mine |-> mine])

Answer(t, a) ==
  /\ call' = [call EXCEPT ![t].answer = a]
  /\ local' = [local EXCEPT ![t] = [pc |-> "done", mine |-> None]]

\* The seek of t has come to a leaf or goes on below an internal node.
Reached(t, record) ==
  LET hit == heap.key[record.leaf] = call[t].key
      op == call[t].op
  IN IF Internal(heap, record.leaf) THEN Go(t, record)
     ELSE IF record.mine # None
     THEN IF record.leaf # record.mine THEN Answer(t, record.mine[2])
          ELSE Go(t, [record EXCEPT !.pc = "look"])
     ELSE IF op = "get" THEN Answer(t, IF hit THEN record.leaf[2] ELSE None)
     ELSE IF hit <=> (op = "insert") THEN Answer(t, None)
     ELSE Go(t, [record EXCEPT !.pc = IF op = "insert" THEN "link" ELSE "flag"])

\* The edge does not lead to what was expected: help if it is only marked.
Conflict(t) ==
  LET l == local[t] IN
  IF heap.edge[l.edge].to = l.leaf THEN Go(t, [l EXCEPT !.pc = "look"])
  ELSE Retry(t, None)

-----------------------------------------------------------------------------
(* Steps, with one access to shared memory each *)

Begin(t) ==
  /\ call[t] = None
  /\ \E op \in Map!Ops \ {"pop"}, k \in Keys : call' = [call EXCEPT ![t] = Map!Fresh(op, k)]
  /\ local' = [local EXCEPT ![t] = [pc |-> "start", mine |-> None]]
  /\ UNCHANGED heap

\* The record at the root.  The edge from the root to its child never changes.
Start(t) ==
  /\ local[t].pc = "start"
  /\ Reached(t, [pc |-> "seek", mine |-> local[t].mine,
                 above |-> <<R, "L">>, successor |-> S,
                 edge |-> <<S, "L">>, leaf |-> heap.edge[<<S, "L">>].to, tagged |-> FALSE])
  /\ UNCHANGED heap

\* One edge further down.  The ancestor stays above the first tagged edge.
Seek(t) ==
  LET l == local[t]
      e == <<l.leaf, IF l.edge = <<S, "L">> THEN "L" ELSE Side(heap, l.leaf, call[t].key)>>
  IN /\ l.pc = "seek"
     /\ Reached(t, [l EXCEPT
          !.above = IF l.tagged \/ call[t].op = "get" THEN @ ELSE l.edge,
          !.successor = IF l.tagged \/ call[t].op = "get" THEN @ ELSE l.leaf,
          !.edge = e, !.leaf = heap.edge[e].to, !.tagged = heap.edge[e].tag])
     /\ UNCHANGED heap

Insert(t) ==
  LET l == local[t] IN
  /\ l.pc = "link"
  /\ IF heap.edge[l.edge] = Edge(l.leaf)
     THEN /\ heap' = Grown(heap, l.edge, l.leaf, t, call[t].key)
          /\ call' = [u \in Threads |-> Map!Witnessed(u, [w \in {t} |-> call[t].key])]
          /\ local' = [local EXCEPT ![t] = [pc |-> "true", mine |-> None]]
     ELSE Conflict(t) /\ UNCHANGED heap

Return(t) ==
  /\ local[t].pc = "true"
  /\ Answer(t, t)
  /\ UNCHANGED heap

\* The injection of a removal.
Flag(t) ==
  LET l == local[t] IN
  /\ l.pc = "flag"
  /\ IF heap.edge[l.edge] = Edge(l.leaf)
     THEN /\ heap' = [heap EXCEPT !.edge[l.edge].flag = TRUE]
          /\ Go(t, [l EXCEPT !.pc = "look", !.mine = l.leaf])
     ELSE Conflict(t) /\ UNCHANGED heap

\* cleanup: the edge that stays is the one to the sibling of a flagged leaf.
Look(t) ==
  LET l == local[t] IN
  /\ l.pc = "look"
  /\ Go(t, [pc |-> "tag", mine |-> l.mine, above |-> l.above, successor |-> l.successor,
            edge |-> IF heap.edge[l.edge].flag THEN <<l.edge[1], Other(l.edge[2])>> ELSE l.edge])
  /\ UNCHANGED heap

\* Mutant: the edge that stays is not tagged.
TagNot(t) ==
  /\ local[t].pc = "tag"
  /\ Go(t, [local[t] EXCEPT !.pc = "splice"])
  /\ UNCHANGED heap

Tag(t) ==
  LET l == local[t] IN
  /\ l.pc = "tag"
  /\ heap' = [heap EXCEPT !.edge[l.edge].tag = TRUE]
  /\ Go(t, [l EXCEPT !.pc = "splice"])

\* The removals whose leaves are cut off from the root by this step.
Removed ==
  [u \in {u \in Threads : /\ call[u] # None /\ call[u].took = None
                          /\ local[u].mine # None
                          /\ End(heap', call[u].key) # local[u].mine} |->
    call[u].key]

\* The sibling, with its flag, takes the place of the successor.
Splice(t) ==
  LET l == local[t] sibling == heap.edge[l.edge] IN
  /\ l.pc = "splice"
  /\ IF heap.edge[l.above] = Edge(l.successor)
     THEN /\ heap' = [heap EXCEPT !.edge[l.above] = [Edge(sibling.to) EXCEPT !.flag = sibling.flag]]
          /\ call' = [u \in Threads |->
               LET now == Map!Witnessed(u, Removed)
               IN IF u = t /\ l.mine # None THEN [now EXCEPT !.answer = l.mine[2]] ELSE now]
          /\ local' = [local EXCEPT ![t] =
               [pc |-> IF l.mine # None THEN "done" ELSE "start", mine |-> None]]
     ELSE Retry(t, l.mine) /\ UNCHANGED heap

-----------------------------------------------------------------------------
(* Specification *)

Access(t) ==
  \/ Start(t) \/ Seek(t) \/ Insert(t) \/ Return(t)
  \/ Flag(t) \/ Look(t) \/ Tag(t) \/ Splice(t)

Next == \E t \in Threads : Begin(t) \/ Access(t)

Spec == Init /\ [][Next]_vars /\ \A t \in Threads : WF_vars(Access(t))

-----------------------------------------------------------------------------
(* Properties *)

\* The leaves below the root.
Leaves ==
  LET leaves[n \in DOMAIN heap.key] ==
        IF Internal(heap, n)
        THEN leaves[heap.edge[<<n, "L">>].to] \cup leaves[heap.edge[<<n, "R">>].to]
        ELSE {n}
  IN leaves[R]

\* The reachable part is a search tree, with the removals under way: every leaf
\* with a key is where a search for its key ends.
Searchable ==
  \A n \in Leaves : heap.key[n] \in Keys => End(heap, heap.key[n]) = n

\* The tree is a map: see ConcurrentMap.
IsMap == Map!Spec
=============================================================================
