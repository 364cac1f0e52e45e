----------------------------- MODULE HarrisList -----------------------------
(***************************************************************************)
(* The sorted lists of circ_ds (list.rs): HList, HMList and HHSList, which *)
(* differ in how they find, and the hash map with one HHSList to a bucket  *)
(* (michael_hash_map.rs).  dyntls_host has copies of both.                 *)
(*                                                                         *)
(* A node is named by the thread that inserts it or, if it is there at the *)
(* start, by its key.  Nodes are counted references and guarded by epochs: *)
(* none is reused while a thread can reach it.                             *)
(***************************************************************************)
EXTENDS Naturals

CONSTANTS
  Threads, Keys, None, Pending,
  Heads,     (* the dummy first nodes, one to a bucket                    *)
  Kinds      (* of "harris", "michael", "shavit" and "hash"               *)

VARIABLES
  heap,      (* the links, with kind and hash function of the map         *)
  local,     (* where each thread is, and its cursor                      *)
  call       (* the calls, with the witnesses that ConcurrentMap names    *)

vars == <<heap, local, call>>

\* Keys are ordered; heads, nodes and the sentinels are told apart.
ASSUME HarrisListAssumption ==
  /\ Keys \subseteq Nat
  /\ Keys \cap Threads = {} /\ Heads \cap (Keys \cup Threads) = {}
  /\ {None, Pending} \cap (Heads \cup Keys \cup Threads) = {} /\ None # Pending

\* The list is made of these, and of the heads.
Nodes == Keys \cup Threads

Link(n, m) == [next |-> n, mark |-> m]

KeyOf(n) == heap.key[n]

\* Nodes that have been made.
Made == {n \in Nodes : KeyOf(n) # None}

\* A walk along the links from n on meets m: whichever nodes no link leads out
\* of have m among them, if they have n.
Meets(n, m) ==
  \A S \in SUBSET (Made \ {m}) :
    n \in S \cup {None} => \E x \in S : heap.link[x].next \notin S \cup {None}

\* Node n is in the bucket of key k, has the key, and is not logically removed.
Live(k, n) ==
  KeyOf(n) = k /\ ~heap.link[n].mark /\ Meets(heap.link[heap.hash[k]].next, n)

AnyOf(S) == IF S = {} THEN None ELSE CHOOSE n \in S : TRUE

Contents == [k \in Keys |-> AnyOf({n \in Nodes : Live(k, n)})]

Map == INSTANCE ConcurrentMap WITH contents <- Contents

ASSUME NoCallAssumption == None \notin Map!Calls

\* Present keys in the order of their buckets.
Linked(present, hash) ==
  [n \in Heads \cup Nodes |->
    LET behind == {k \in present : IF n \in Heads THEN hash[k] = n
                                   ELSE n \in present /\ hash[k] = hash[n] /\ k > n}
    IN Link(IF behind = {} THEN None ELSE CHOOSE k \in behind : \A l \in behind : k <= l,
            FALSE)]

Init ==
  /\ \E kind \in Kinds, hash \in [Keys -> Heads], present \in SUBSET Keys :
       /\ kind # "hash" => \E h \in Heads : \A k \in Keys : hash[k] = h
       /\ heap = [kind |-> kind, hash |-> hash, link |-> Linked(present, hash),
                  key |-> [n \in Nodes |-> IF n \in Keys THEN n ELSE None]]
  /\ local = [t \in Threads |-> [pc |-> "idle"]]
  /\ call = [t \in Threads |-> None]

-----------------------------------------------------------------------------
(* Helpers *)

\* The find that the call of t uses.
Finds(t) ==
  IF heap.kind = "michael" THEN "michael"
  ELSE IF heap.kind # "harris" /\ call[t].op = "get" THEN "shavit"
  ELSE "harris"

Go(t, pc, prev, curr, next) ==
  local' = [local EXCEPT ![t] = [pc |-> pc, prev |-> prev, curr |-> curr, next |-> next]]
Retry(t) == local' = [local EXCEPT ![t] = [pc |-> "start"]]

Answer(t, a) ==
  /\ call' = [call EXCEPT ![t].answer = a]
  /\ local' = [local EXCEPT ![t] = [pc |-> "done"]]

\* The call of t takes effect on key k.
Effect(t, k) == call' = [u \in Threads |-> Map!Witnessed(u, [w \in {t} |-> k])]

\* Mutant: the mark of the link is not compared.
SucceedsUnmarked(n, old) == heap.link[n].next = old.next

\* A compare and exchange of the link of n, pointer and mark, would succeed.
Succeeds(n, old) == heap.link[n] = old

Store(n, new) == heap' = [heap EXCEPT !.link[n] = new]

Hit(t, curr) == curr # None /\ KeyOf(curr) = call[t].key

\* The find of t ends at curr, and the operation goes on from there.
Decide(t, prev, curr) ==
  IF call[t].op = "get" THEN Answer(t, IF Hit(t, curr) THEN curr ELSE None)
  ELSE IF Hit(t, curr) <=> (call[t].op = "insert") THEN Answer(t, None)
  ELSE /\ Go(t, IF call[t].op = "insert" THEN "link" ELSE "load", prev, curr, None)
       /\ UNCHANGED call

-----------------------------------------------------------------------------
(* Steps, with one access to shared memory each *)

Begin(t) ==
  /\ call[t] = None
  /\ \E op \in Map!Ops, k \in Keys :
       /\ op = "pop" => heap.kind = "shavit" /\ \A l \in Keys : k <= l
       /\ call' = [call EXCEPT ![t] = Map!Fresh(op, k)]
  /\ Retry(t)
  /\ UNCHANGED heap

\* The cursor is set to the head and the first node.
Start(t) ==
  /\ local[t].pc = "start"
  /\ LET head == heap.hash[call[t].key]
         curr == heap.link[head].next
     IN IF call[t].op # "pop"
        THEN Go(t, "find", head, curr, curr) /\ UNCHANGED call
        ELSE IF curr = None THEN Answer(t, None)
        ELSE Go(t, "load", head, curr, None) /\ UNCHANGED call
  /\ UNCHANGED heap

\* find_harris: marked nodes are passed over, and prev.next is remembered.
FindHarris(t) ==
  LET l == local[t] link == heap.link[l.curr] IN
  /\ l.pc = "find" /\ Finds(t) = "harris"
  /\ IF l.curr # None /\ link.mark
     THEN Go(t, "find", l.prev, link.next, l.next) /\ UNCHANGED call
     ELSE IF l.curr # None /\ KeyOf(l.curr) < call[t].key
     THEN Go(t, "find", l.curr, link.next, link.next) /\ UNCHANGED call
     ELSE IF l.next # l.curr
     THEN Go(t, "clean", l.prev, l.curr, l.next) /\ UNCHANGED call
     ELSE Decide(t, l.prev, l.curr)
  /\ UNCHANGED heap

\* The marked nodes between prev and curr are unlinked at once.
Clean(t) ==
  LET l == local[t] IN
  /\ l.pc = "clean"
  /\ IF Succeeds(l.prev, Link(l.next, FALSE))
     THEN Store(l.prev, Link(l.curr, FALSE)) /\ Decide(t, l.prev, l.curr)
     ELSE Retry(t) /\ UNCHANGED <<heap, call>>

\* find_harris_michael: a marked node is unlinked before the find goes on.
FindMichael(t) ==
  LET l == local[t] link == heap.link[l.curr] IN
  /\ l.pc = "find" /\ Finds(t) = "michael"
  /\ IF l.curr # None /\ link.mark
     THEN Go(t, "help", l.prev, l.curr, link.next) /\ UNCHANGED call
     ELSE IF l.curr # None /\ KeyOf(l.curr) < call[t].key
     THEN Go(t, "find", l.curr, link.next, None) /\ UNCHANGED call
     ELSE Decide(t, l.prev, l.curr)
  /\ UNCHANGED heap

Help(t) ==
  LET l == local[t] IN
  /\ l.pc = "help"
  /\ IF Succeeds(l.prev, Link(l.curr, FALSE))
     THEN Store(l.prev, Link(l.next, FALSE)) /\ Go(t, "find", l.prev, l.next, None)
     ELSE Retry(t) /\ UNCHANGED heap
  /\ UNCHANGED call

\* find_harris_herlihy_shavit: marks matter at the end only.
FindShavit(t) ==
  LET l == local[t] link == heap.link[l.curr] IN
  /\ l.pc = "find" /\ Finds(t) = "shavit"
  /\ IF l.curr # None /\ KeyOf(l.curr) < call[t].key
     THEN Go(t, "find", None, link.next, None) /\ UNCHANGED call
     ELSE Answer(t, IF Hit(t, l.curr) /\ ~link.mark THEN l.curr ELSE None)
  /\ UNCHANGED heap

\* Cursor::insert: the new node is linked between prev and curr.
Insert(t) ==
  LET l == local[t] IN
  /\ l.pc = "link"
  /\ IF Succeeds(l.prev, Link(l.curr, FALSE))
     THEN /\ heap' = [heap EXCEPT !.key[t] = call[t].key, !.link[t] = Link(l.curr, FALSE),
                                  !.link[l.prev] = Link(t, FALSE)]
          /\ Effect(t, call[t].key)
          /\ local' = [local EXCEPT ![t] = [pc |-> "true"]]
     ELSE Retry(t) /\ UNCHANGED <<heap, call>>

\* Cursor::remove, for remove and pop: the link is read, marked, unlinked.
Load(t) ==
  LET l == local[t] IN
  /\ l.pc = "load"
  /\ Go(t, "mark", l.prev, l.curr, heap.link[l.curr].next)
  /\ UNCHANGED <<heap, call>>

Mark(t) ==
  LET l == local[t] IN
  /\ l.pc = "mark"
  /\ IF Succeeds(l.curr, Link(l.next, FALSE))
     THEN /\ Store(l.curr, Link(l.next, TRUE))
          /\ Effect(t, KeyOf(l.curr))
          /\ Go(t, "unlink", l.prev, l.curr, l.next)
     ELSE Retry(t) /\ UNCHANGED <<heap, call>>

Unlink(t) ==
  LET l == local[t] IN
  /\ l.pc = "unlink"
  /\ IF Succeeds(l.prev, Link(l.curr, FALSE))
     THEN Store(l.prev, Link(l.next, FALSE)) ELSE UNCHANGED heap
  /\ Answer(t, l.curr)

Return(t) ==
  /\ local[t].pc = "true"
  /\ Answer(t, t)
  /\ UNCHANGED heap

-----------------------------------------------------------------------------
(* Specification *)

Access(t) ==
  \/ Start(t) \/ FindHarris(t) \/ Clean(t) \/ FindMichael(t) \/ Help(t) \/ FindShavit(t)
  \/ Insert(t) \/ Load(t) \/ Mark(t) \/ Unlink(t) \/ Return(t)

Next == \E t \in Threads : Begin(t) \/ Access(t)

Spec == Init /\ [][Next]_vars /\ \A t \in Threads : WF_vars(Access(t))

-----------------------------------------------------------------------------
(* Properties *)

\* Keys increase along every link, those of removed nodes included: nodes stand
\* in every bucket in the order of their keys, and a walk meets no key twice.
Sorted ==
  \A n \in DOMAIN heap.link : LET m == heap.link[n].next IN
    /\ n \notin Heads /\ m # None => KeyOf(n) < KeyOf(m)

\* The list is a map: see ConcurrentMap.
IsMap == Map!Spec
=============================================================================
