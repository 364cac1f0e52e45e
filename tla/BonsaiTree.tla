----------------------------- MODULE BonsaiTree -----------------------------
(***************************************************************************)
(* The copy-on-write search tree of circ_ds (bonsai_tree.rs).  An insertion*)
(* or removal builds a new tree from the root it has loaded and installs   *)
(* it with one compare and exchange of the root; check_root lets it give   *)
(* up early when another thread was faster.                                *)
(*                                                                         *)
(* Nodes never change, so a node is its value here.  Roots are compared by *)
(* address, and a root is named by the thread that allocated it.  The value*)
(* of a key is named by the thread that inserts it or by the key.          *)
(***************************************************************************)
EXTENDS Naturals, FiniteSets, TLC

CONSTANTS
  Threads, Keys, None, Pending,
  Weight     (* a subtree is at most so many times as large as its sibling *)

VARIABLES
  heap,      (* the root, its allocation and the tree below it            *)
  local,     (* where each thread is                                      *)
  call       (* the calls, with the witnesses that ConcurrentMap names    *)

vars == <<heap, local, call>>

-----------------------------------------------------------------------------
(* Trees *)

Size(n) == IF n = None THEN 0 ELSE n.size

mk_node(left, right, key, value) ==
  [key |-> key, value |-> value, size |-> Size(left) + Size(right) + 1,
   left |-> left, right |-> right]

single_left(left, right, cur) ==
  mk_node(mk_node(left, right.left, cur.key, cur.value), right.right, right.key, right.value)

double_left(left, right, cur) ==
  LET m == right.left IN
  mk_node(mk_node(left, m.left, cur.key, cur.value),
          mk_node(m.right, right.right, right.key, right.value), m.key, m.value)

single_right(left, right, cur) ==
  mk_node(left.left, mk_node(left.right, right, cur.key, cur.value), left.key, left.value)

double_right(left, right, cur) ==
  LET m == left.right IN
  mk_node(mk_node(left.left, m.left, left.key, left.value),
          mk_node(m.right, right, cur.key, cur.value), m.key, m.value)

\* n is too large beside m.
Heavy(n, m) == Size(n) > Weight * (IF m = None THEN 1 ELSE m.size)

mk_balanced_left(left, right, cur) ==
  IF Size(right.left) < Size(right.right)
  THEN single_left(left, right, cur) ELSE double_left(left, right, cur)

mk_balanced_right(left, right, cur) ==
  IF Size(left.right) < Size(left.left)
  THEN single_right(left, right, cur) ELSE double_right(left, right, cur)

\* A tree of cur's key and value above subtrees one of which is new.
mk_balanced(cur, left, right) ==
  IF Heavy(right, left) THEN mk_balanced_left(left, right, cur)
  ELSE IF Heavy(left, right) THEN mk_balanced_right(left, right, cur)
  ELSE mk_node(left, right, cur.key, cur.value)

RECURSIVE do_insert(_, _, _)
do_insert(n, key, value) ==
  IF n = None THEN mk_node(None, None, key, value)
  ELSE IF n.key = key THEN n
  ELSE IF n.key < key THEN mk_balanced(n, n.left, do_insert(n.right, key, value))
  ELSE mk_balanced(n, do_insert(n.left, key, value), n.right)

\* The tree without its least or greatest node, and a node like that one.
RECURSIVE pull_leftmost(_)
pull_leftmost(n) ==
  IF n.left = None THEN [rest |-> n.right, succ |-> mk_node(None, None, n.key, n.value)]
  ELSE LET p == pull_leftmost(n.left)
       IN [p EXCEPT !.rest = mk_balanced(n, p.rest, n.right)]

RECURSIVE pull_rightmost(_)
pull_rightmost(n) ==
  IF n.right = None THEN [rest |-> n.left, succ |-> mk_node(None, None, n.key, n.value)]
  ELSE LET p == pull_rightmost(n.right)
       IN [p EXCEPT !.rest = mk_balanced(n, n.left, p.rest)]

RECURSIVE do_remove(_, _)
do_remove(n, key) ==
  IF n = None THEN None
  ELSE IF n.key < key THEN mk_balanced(n, n.left, do_remove(n.right, key))
  ELSE IF n.key > key THEN mk_balanced(n, do_remove(n.left, key), n.right)
  ELSE IF n.size = 1 THEN None
  ELSE IF n.left # None
  THEN LET p == pull_rightmost(n.left) IN mk_balanced(p.succ, p.rest, n.right)
  ELSE LET p == pull_leftmost(n.right) IN mk_balanced(p.succ, n.left, p.rest)

\* The value of the key in the tree, which inserted and found report.
RECURSIVE Lookup(_, _)
Lookup(n, key) ==
  IF n = None THEN None
  ELSE IF n.key = key THEN n.value
  ELSE Lookup(IF key < n.key THEN n.left ELSE n.right, key)

Contents == [k \in Keys |-> Lookup(heap.tree, k)]

Map == INSTANCE ConcurrentMap WITH contents <- Contents

-----------------------------------------------------------------------------

\* The keys order[i], order[i + 1] ... have been inserted one after the other.
RECURSIVE Filled(_, _, _)
Filled(tree, order, i) ==
  IF i \notin DOMAIN order THEN tree
  ELSE Filled(do_insert(tree, order[i], order[i]), order, i + 1)

Init ==
  /\ \E size \in 0 .. Cardinality(Keys) : \E order \in [1 .. size -> Keys] :
       /\ \A i, j \in 1 .. size : order[i] = order[j] => i = j
       /\ heap = [root |-> None, tree |-> Filled(None, order, 1)]
  /\ local = [t \in Threads |-> [pc |-> "idle"]]
  /\ call = [t \in Threads |-> None]

Go(t, l) == local' = [local EXCEPT ![t] = l]

Begin(t) ==
  /\ call[t] = None
  /\ \E op \in Map!Ops \ {"pop"}, k \in Keys : call' = [call EXCEPT ![t] = Map!Fresh(op, k)]
  /\ Go(t, [pc |-> "start"])
  /\ UNCHANGED heap

Load(t) ==
  /\ local[t].pc = "start"
  /\ Go(t, [pc |-> IF call[t].op = "get" THEN "walk" ELSE "build",
            root |-> heap.root, tree |-> heap.tree])
  /\ UNCHANGED <<heap, call>>

\* get goes down in the tree it has loaded.
Walk(t) ==
  LET n == local[t].tree k == call[t].key IN
  /\ local[t].pc = "walk"
  /\ IF n # None /\ n.key # k
     THEN /\ Go(t, [local[t] EXCEPT !.tree = IF k < n.key THEN n.left ELSE n.right])
          /\ UNCHANGED call
     ELSE /\ call' = [call EXCEPT ![t].answer = IF n = None THEN None ELSE n.value]
          /\ Go(t, [pc |-> "done"])
  /\ UNCHANGED heap

\* Null roots are equal whoever has installed them.
Same(l) == heap.root = l.root /\ (heap.tree = None <=> l.tree = None)

\* The new tree is built.  check_root gives up if the root is another by then,
\* or has missed the change.
Build(t) ==
  LET l == local[t] c == call[t]
      new == IF c.op = "insert" THEN do_insert(l.tree, c.key, t) ELSE do_remove(l.tree, c.key)
  IN /\ l.pc = "build"
     /\ \/ Go(t, [l EXCEPT !.pc = "install"] @@ [new |-> new])
        \/ ~Same(l) /\ l.tree # None /\ Go(t, [pc |-> "start"])
     /\ UNCHANGED <<heap, call>>

\* The name of the new root: the old one if the key was at the old root.
NameOf(t) ==
  IF local[t].new = None THEN None
  ELSE IF local[t].new = local[t].tree /\ call[t].op = "insert"
          /\ local[t].tree.key = call[t].key
  THEN local[t].root ELSE t

\* Mutant: the root is stored without a comparison.
InstallAnyway(t) ==
  LET l == local[t]
      old == Lookup(l.tree, call[t].key)
      takes == IF (old = None) <=> (call[t].op = "insert") THEN t :> call[t].key ELSE <<>>
  IN /\ l.pc = "install"
     /\ heap' = [root |-> NameOf(t), tree |-> l.new]
     /\ call' = [u \in Threads |->
          LET now == Map!Witnessed(u, takes)
          IN IF u = t THEN [now EXCEPT !.answer = now.took] ELSE now]
     /\ Go(t, [pc |-> "done"])

\* The compare and exchange of the root; the call answers what its tree had.
Install(t) ==
  LET l == local[t]
      old == Lookup(l.tree, call[t].key)
      takes == IF (old = None) <=> (call[t].op = "insert") THEN t :> call[t].key ELSE <<>>
  IN /\ l.pc = "install"
     /\ IF Same(l)
        THEN /\ heap' = [root |-> NameOf(t), tree |-> l.new]
             /\ call' = [u \in Threads |->
                  LET now == Map!Witnessed(u, takes)
                  IN IF u = t THEN [now EXCEPT !.answer = now.took] ELSE now]
             /\ Go(t, [pc |-> "done"])
        ELSE Go(t, [pc |-> "start"]) /\ UNCHANGED <<heap, call>>

Access(t) == Load(t) \/ Walk(t) \/ Build(t) \/ Install(t)

Next == \E t \in Threads : Begin(t) \/ Access(t)

Spec == Init /\ [][Next]_vars /\ \A t \in Threads : WF_vars(Access(t))

-----------------------------------------------------------------------------
(* Properties *)

RECURSIVE KeysOf(_)
KeysOf(n) == IF n = None THEN {} ELSE KeysOf(n.left) \cup {n.key} \cup KeysOf(n.right)

RECURSIVE Ordered(_)
Ordered(n) ==
  n # None => /\ \A k \in KeysOf(n.left) : k < n.key
              /\ \A k \in KeysOf(n.right) : n.key < k
              /\ n.size = Cardinality(KeysOf(n))
              /\ Ordered(n.left) /\ Ordered(n.right)

\* The installed tree is a search tree whatever was rotated, and the sizes that
\* the next rotations rely on are true.
Searchable == Ordered(heap.tree)

\* The tree is a map: see ConcurrentMap.
IsMap == Map!Spec
=============================================================================
