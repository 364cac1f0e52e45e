-------------------------- MODULE HarrisListProofs --------------------------
(***************************************************************************)
(* Proofs about HarrisList, for every set of threads, keys and buckets:    *)
(* the nodes of a bucket stay in the order of their keys, and the lists    *)
(* and the hash map implement the abstract map of ConcurrentMap.           *)
(***************************************************************************)
EXTENDS HarrisList, TLAPS, WellFoundedInduction

-----------------------------------------------------------------------------
(* Heaps.  The lemmas of this part are about any heap H. *)

Heaps ==
  [kind : Kinds, hash : [Keys -> Heads],
   link : [Heads \cup Nodes -> [next : Nodes \cup {None}, mark : BOOLEAN]],
   key : [Nodes -> Keys \cup {None}]]

MadeIn(H) == {n \in Nodes : H.key[n] # None}

\* No link leads out of S.
Closed(H, S) == \A x \in S : H.link[x].next \in S \cup {None}

\* The nodes that a walk from n on meets.
Chain(H, n) ==
  {m \in MadeIn(H) : \A S \in SUBSET (MadeIn(H) \ {m}) : n \in S \cup {None} => ~Closed(H, S)}

First(H, h) == H.link[h].next

\* A node that is in its bucket, or has been removed.
Good(H, n) ==
  /\ n \in Nodes /\ H.key[n] \in Keys
  /\ H.link[n].mark \/ n \in Chain(H, First(H, H.hash[H.key[n]]))

\* What a link from n may lead to.
MayLink(H, n, m) ==
  m # None =>
    /\ Good(H, m)
    /\ n \in Heads => H.hash[H.key[m]] = n
    /\ n \in Nodes => /\ H.key[n] \in Keys /\ H.key[n] < H.key[m]
                      /\ H.hash[H.key[n]] = H.hash[H.key[m]]

HeapInv(H) ==
  /\ H \in Heaps
  /\ \A k \in Keys : H.key[k] = k
  /\ \A n \in Heads \cup Nodes : MayLink(H, n, H.link[n].next)

LEMMA LinkType ==
  ASSUME NEW H \in Heaps, NEW n \in Heads \cup Nodes
  PROVE  /\ H.link[n].next \in Nodes \cup {None}
         /\ H.link[n].mark \in BOOLEAN
         /\ H.link[n] = [next |-> H.link[n].next, mark |-> H.link[n].mark]
BY DEF Heaps

LEMMA KeyType ==
  ASSUME NEW H \in Heaps
  PROVE  /\ \A n \in Nodes : H.key[n] \in Keys \cup {None}
         /\ \A n \in MadeIn(H) : H.key[n] \in Keys /\ H.key[n] \in Nat
         /\ \A k \in Keys : H.hash[k] \in Heads
         /\ None \notin Nodes /\ None \notin Keys
BY HarrisListAssumption DEF Heaps, MadeIn, Nodes

\* Links lead to nodes that have been made.
MadeLinks(H) == \A n \in Heads \cup Nodes : First(H, n) \in MadeIn(H) \cup {None}

LEMMA LinksMade ==
  ASSUME NEW H, HeapInv(H)
  PROVE  MadeLinks(H) /\ \A n \in Heads \cup Nodes : First(H, n) \in MadeIn(H) \cup {None}
BY KeyType DEF HeapInv, MayLink, Good, MadeIn, First, MadeLinks

LEMMA ChainIsClosed ==
  ASSUME NEW H, MadeLinks(H), NEW n \in MadeIn(H) \cup {None}
  PROVE  /\ n \in Chain(H, n) \cup {None}
         /\ Closed(H, Chain(H, n))
<1>1. n \in Chain(H, n) \cup {None}
  BY DEF Chain
<1>2. ASSUME NEW x \in Chain(H, n), First(H, x) # None
      PROVE  First(H, x) \in Chain(H, n)
  <2>1. x \in Nodes /\ First(H, x) \in MadeIn(H)
    BY <1>2 DEF Chain, MadeIn, MadeLinks
  <2> SUFFICES ASSUME NEW S \in SUBSET (MadeIn(H) \ {First(H, x)}), n \in S \cup {None}, Closed(H, S)
               PROVE  FALSE
    BY <2>1 DEF Chain
  <2>2. x \in S
    BY DEF Chain
  <2> QED
    BY <1>2, <2>2 DEF Closed, First
<1> QED
  BY <1>1, <1>2 DEF Closed, First

LEMMA ChainClosed ==
  ASSUME NEW H, HeapInv(H), NEW n \in MadeIn(H) \cup {None}
  PROVE  /\ n \in Chain(H, n) \cup {None}
         /\ Closed(H, Chain(H, n))
BY ChainIsClosed, LinksMade

LEMMA ChainLeast ==
  ASSUME NEW H, NEW n, NEW S \in SUBSET MadeIn(H), n \in S \cup {None}, Closed(H, S)
  PROVE  Chain(H, n) \subseteq S
BY DEF Chain

LEMMA ChainMade ==
  ASSUME NEW H, NEW n
  PROVE  Chain(H, n) \subseteq MadeIn(H) /\ Chain(H, n) \subseteq Nodes
BY DEF Chain, MadeIn

\* A walk meets its first node, and then what a walk from the next one meets.
LEMMA ChainSplit ==
  ASSUME NEW H, HeapInv(H), NEW n \in MadeIn(H)
  PROVE  /\ n \in Chain(H, n)
         /\ Chain(H, First(H, n)) \subseteq Chain(H, n)
         /\ Chain(H, n) \subseteq {n} \cup Chain(H, First(H, n))
<1>0. n \in Nodes /\ n # None /\ First(H, n) \in MadeIn(H) \cup {None}
  BY LinksMade, HarrisListAssumption DEF MadeIn, Nodes
<1>1. n \in Chain(H, n) /\ Closed(H, Chain(H, n))
  BY <1>0, ChainClosed
<1>2. First(H, n) \in Chain(H, n) \cup {None}
  BY <1>1 DEF Closed, First
<1>3. Chain(H, First(H, n)) \subseteq Chain(H, n)
  BY <1>1, <1>2, ChainLeast, ChainMade
<1>4. /\ First(H, n) \in Chain(H, First(H, n)) \cup {None}
      /\ Closed(H, Chain(H, First(H, n)))
  BY <1>0, ChainClosed
<1>5. Closed(H, {n} \cup Chain(H, First(H, n)))
  BY <1>4 DEF Closed, First
<1>6. {n} \cup Chain(H, First(H, n)) \in SUBSET MadeIn(H)
  BY ChainMade
<1> QED
  BY <1>1, <1>3, <1>5, <1>6, ChainLeast

LEMMA ChainTrans ==
  ASSUME NEW H, HeapInv(H), NEW n \in MadeIn(H) \cup {None}, NEW x \in Chain(H, n)
  PROVE  Chain(H, x) \subseteq Chain(H, n)
BY ChainClosed, ChainLeast, ChainMade

\* Keys ascend along a walk, which stays in its bucket.
LEMMA ChainAscends ==
  ASSUME NEW H, HeapInv(H), NEW n \in MadeIn(H), NEW x \in Chain(H, n)
  PROVE  /\ x = n \/ H.key[n] < H.key[x]
         /\ H.hash[H.key[x]] = H.hash[H.key[n]]
<1> DEFINE S == {y \in MadeIn(H) : /\ y = n \/ H.key[n] < H.key[y]
                                   /\ H.hash[H.key[y]] = H.hash[H.key[n]]}
<1>1. ASSUME NEW y \in S, First(H, y) # None
      PROVE  First(H, y) \in S
  <2>1. y \in Nodes /\ First(H, y) \in MadeIn(H)
    BY <1>1, LinksMade DEF MadeIn
  <2>2. /\ H.key[y] \in Keys /\ H.key[y] < H.key[First(H, y)]
        /\ H.hash[H.key[y]] = H.hash[H.key[First(H, y)]]
    BY <1>1, <2>1 DEF HeapInv, MayLink, First
  <2>3. H.key[n] \in Nat /\ H.key[y] \in Nat /\ H.key[First(H, y)] \in Nat
    BY <2>1, KeyType DEF HeapInv
  <2> QED
    BY <2>1, <2>2, <2>3
<1>2. Closed(H, S)
  BY <1>1 DEF Closed, First
<1>3. x \in S
  BY <1>2, ChainLeast
<1> QED
  BY <1>3

\* Of two nodes that a walk meets, it meets one after the other.
LEMMA ChainLinear ==
  ASSUME NEW H, HeapInv(H), NEW n \in MadeIn(H) \cup {None},
         NEW x \in Chain(H, n), NEW y \in Chain(H, n)
  PROVE  x \in Chain(H, y) \/ y \in Chain(H, x)
<1> DEFINE S == {z \in MadeIn(H) : y \in Chain(H, z) \/ z \in Chain(H, y)}
<1>0. y \in MadeIn(H) /\ y \in Nodes
  BY ChainMade
<1>1. ASSUME NEW z \in S, First(H, z) # None
      PROVE  First(H, z) \in S
  <2>1. First(H, z) \in MadeIn(H) /\ z \in MadeIn(H)
    BY <1>1, LinksMade DEF MadeIn
  <2>2. CASE z \in Chain(H, y)
    BY <1>0, <1>1, <2>1, <2>2, ChainClosed DEF Closed, First
  <2>3. CASE y \in Chain(H, z) /\ y # z
    BY <2>1, <2>3, ChainSplit
  <2>4. CASE y = z
    BY <1>0, <2>1, <2>2, <2>4, ChainSplit
  <2> QED
    BY <2>2, <2>3, <2>4
<1>2. Closed(H, S)
  BY <1>1 DEF Closed, First
<1>3. n \in S \cup {None}
  OBVIOUS
<1>4. x \in S
  BY <1>2, <1>3, ChainLeast
<1> QED
  BY <1>4

\* No key is met twice.
LEMMA ChainUnique ==
  ASSUME NEW H, HeapInv(H), NEW n \in MadeIn(H) \cup {None},
         NEW x \in Chain(H, n), NEW y \in Chain(H, n), H.key[x] = H.key[y]
  PROVE  x = y
<1>1. x \in MadeIn(H) /\ y \in MadeIn(H)
  BY ChainMade
<1>2. H.key[x] \in Nat /\ H.key[y] \in Nat
  BY <1>1, KeyType DEF HeapInv
<1>3. x \in Chain(H, y) => x = y \/ H.key[y] < H.key[x]
  BY <1>1, ChainAscends
<1>4. y \in Chain(H, x) => x = y \/ H.key[x] < H.key[y]
  BY <1>1, ChainAscends
<1> QED
  BY <1>2, <1>3, <1>4, ChainLinear

-----------------------------------------------------------------------------
(* What a heap holds.  LiveIn and Holding are Live and Contents of heap H. *)

LiveIn(H, k, n) ==
  H.key[n] = k /\ ~H.link[n].mark /\ n \in Chain(H, First(H, H.hash[k]))

Holding(H) == [k \in Keys |-> AnyOf({n \in Nodes : LiveIn(H, k, n)})]

\* H2 holds v for key k, and otherwise what H holds.
HoldsBut(H, H2, k, v) ==
  \A j \in Keys : Holding(H2)[j] = IF j = k THEN v ELSE Holding(H)[j]

LEMMA FirstMade ==
  ASSUME NEW H, HeapInv(H), NEW k \in Keys
  PROVE  /\ H.hash[k] \in Heads
         /\ First(H, H.hash[k]) \in MadeIn(H) \cup {None}
BY KeyType, LinksMade DEF HeapInv

\* A key has one live node at most.
LEMMA HoldingLive ==
  ASSUME NEW H, HeapInv(H), NEW k \in Keys
  PROVE  /\ Holding(H)[k] \in Nodes \cup {None}
         /\ Holding(H)[k] # None => LiveIn(H, k, Holding(H)[k])
         /\ \A n : LiveIn(H, k, n) => n \in Nodes /\ n # None /\ Holding(H)[k] = n
<1> DEFINE live == {n \in Nodes : LiveIn(H, k, n)}
<1>1. \A n : LiveIn(H, k, n) => n \in live
  BY ChainMade DEF LiveIn
<1>2. \A n \in live : n # None
  BY KeyType DEF HeapInv
<1>3. ASSUME NEW m \in live, NEW n \in live PROVE m = n
  <2>1. m \in Chain(H, First(H, H.hash[k])) /\ n \in Chain(H, First(H, H.hash[k]))
    BY DEF LiveIn
  <2>2. H.key[m] = H.key[n]
    BY DEF LiveIn
  <2> QED
    BY <2>1, <2>2, FirstMade, ChainUnique
<1>4. Holding(H)[k] = IF live = {} THEN None ELSE CHOOSE n \in live : TRUE
  BY DEF Holding, AnyOf
<1>5. live # {} => Holding(H)[k] \in live
  BY <1>4
<1> HIDE DEF live
<1>6. live = {} => Holding(H)[k] = None
  BY <1>4
<1>7. \A n \in live : n \in Nodes /\ LiveIn(H, k, n)
  BY DEF live
<1> QED
  BY <1>1, <1>2, <1>3, <1>5, <1>6, <1>7

LEMMA HoldingNone ==
  ASSUME NEW H, HeapInv(H), NEW k \in Keys, \A n : ~LiveIn(H, k, n)
  PROVE  Holding(H)[k] = None
BY HoldingLive

LEMMA HoldingSame ==
  ASSUME NEW H, HeapInv(H), NEW H2, HeapInv(H2), NEW k \in Keys,
         \A n : LiveIn(H2, k, n) <=> LiveIn(H, k, n)
  PROVE  Holding(H2)[k] = Holding(H)[k]
<1>1. CASE Holding(H)[k] = None
  BY <1>1, HoldingLive, HoldingNone
<1>2. CASE Holding(H)[k] # None
  BY <1>2, HoldingLive
<1> QED
  BY <1>1, <1>2

\* A node that is unmarked and good is live.
LEMMA GoodLive ==
  ASSUME NEW H, HeapInv(H), NEW n, Good(H, n), ~H.link[n].mark
  PROVE  LiveIn(H, H.key[n], n) /\ Holding(H)[H.key[n]] = n
BY HoldingLive DEF Good, LiveIn

\* What a walk from the head of a bucket meets is good and of that bucket.
LEMMA MetIsGood ==
  ASSUME NEW H, HeapInv(H), NEW h \in Heads, NEW n \in Chain(H, First(H, h))
  PROVE  Good(H, n) /\ H.hash[H.key[n]] = h
<1> DEFINE S == {x \in MadeIn(H) : Good(H, x) /\ H.hash[H.key[x]] = h}
<1>1. ASSUME NEW x \in S, First(H, x) # None PROVE First(H, x) \in S
  BY SMTT(20), <1>1, LinksMade DEF HeapInv, MayLink, First, MadeIn
<1>2. Closed(H, S)
  BY <1>1 DEF Closed, First
<1>3. First(H, h) \in S \cup {None}
  BY LinksMade DEF HeapInv, MayLink, First
<1> QED
  BY <1>2, <1>3, ChainLeast


-----------------------------------------------------------------------------
(* What can happen to a heap.  H becomes H2. *)

\* What whoever holds a pointer relies on: buckets and keys stay, a node is
\* there until it is marked, marked links are frozen, a walk still meets what
\* is not marked, and a key loses its value before it has another.
Keeps(H, H2) ==
  /\ H2.kind = H.kind /\ H2.hash = H.hash
  /\ \A n \in MadeIn(H) : H2.key[n] = H.key[n]
  /\ \A n : Good(H, n) => Good(H2, n)

Frame(H, H2) ==
  /\ HeapInv(H2) /\ Keeps(H, H2)
  /\ \A n \in MadeIn(H) : H.link[n].mark => H2.link[n] = H.link[n]
  /\ \A n \in MadeIn(H) \cup {None} : \A m \in Chain(H, n) :
       H2.link[m].mark \/ m \in Chain(H2, n)
  /\ \A k \in Keys : Holding(H)[k] = None \/ Holding(H2)[k] \in {Holding(H)[k], None}

LEMMA GoodNode ==
  ASSUME NEW H, HeapInv(H), NEW n, Good(H, n)
  PROVE  /\ n \in Nodes /\ n \in MadeIn(H) /\ n # None /\ n \notin Heads
         /\ H.key[n] \in Keys /\ H.key[n] \in Nat /\ H.hash[H.key[n]] \in Heads
BY KeyType, HarrisListAssumption DEF Good, HeapInv, MadeIn, Nodes

\* Links stay good when nodes do.
LEMMA LinkStays ==
  ASSUME NEW H, NEW H2, HeapInv(H), Keeps(H, H2),
         NEW n \in Heads \cup Nodes, NEW m, MayLink(H, n, m)
  PROVE  MayLink(H2, n, m)
<1> SUFFICES ASSUME m # None PROVE MayLink(H2, n, m)
  BY DEF MayLink
<1>1. Good(H, m) /\ Good(H2, m) /\ H2.key[m] = H.key[m]
  BY GoodNode DEF MayLink, Keeps
<1>2. n \in Nodes => n \in MadeIn(H) /\ H2.key[n] = H.key[n]
  BY KeyType DEF MayLink, MadeIn, HeapInv, Keeps
<1> QED
  BY <1>1, <1>2 DEF MayLink, Keeps

\* H2 is H with the link l at n.
Relinked(H, H2, n, l) ==
  /\ H2 \in Heaps /\ H2.kind = H.kind /\ H2.hash = H.hash /\ H2.key = H.key
  /\ H2.link[n] = l /\ \A m \in (Heads \cup Nodes) \ {n} : H2.link[m] = H.link[m]

LEMMA Relinking ==
  ASSUME NEW H \in Heaps, NEW n \in Heads \cup Nodes, NEW m \in Nodes \cup {None},
         NEW b \in BOOLEAN
  PROVE  Relinked(H, [H EXCEPT !.link[n] = Link(m, b)], n, Link(m, b))
BY DEF Heaps, Relinked, Link

LEMMA MarkStep ==
  ASSUME NEW H, HeapInv(H), NEW x, Good(H, x), NEW c, H.link[x] = Link(c, FALSE),
         NEW H2, Relinked(H, H2, x, Link(c, TRUE))
  PROVE  /\ Frame(H, H2)
         /\ HoldsBut(H, H2, H.key[x], None)
<1>0. x \in Nodes /\ x \in MadeIn(H) /\ c \in Nodes \cup {None}
  BY GoodNode, LinkType DEF Link, HeapInv
<1>1. /\ H2 \in Heaps /\ H2.kind = H.kind /\ H2.hash = H.hash /\ H2.key = H.key
      /\ H2.link[x] = Link(c, TRUE) /\ \A n \in (Heads \cup Nodes) \ {x} : H2.link[n] = H.link[n]
  BY <1>0 DEF Relinked
<1>2. MadeIn(H2) = MadeIn(H) /\ \A n \in Heads \cup Nodes : First(H2, n) = First(H, n)
  BY <1>0, <1>1 DEF MadeIn, First, Link
<1>3. ASSUME NEW n PROVE Chain(H2, n) = Chain(H, n)
  <2>1. ASSUME NEW S \in SUBSET MadeIn(H) PROVE Closed(H2, S) <=> Closed(H, S)
    BY <1>2 DEF Closed, First, MadeIn
  <2> QED
    BY <1>2, <2>1 DEF Chain
<1>4. \A n : Good(H, n) => Good(H2, n)
  <2> SUFFICES ASSUME NEW n, Good(H, n) PROVE Good(H2, n)
    OBVIOUS
  <2>1. n \in Nodes /\ H.hash[H.key[n]] \in Heads
    BY GoodNode
  <2>2. H.link[n].mark => H2.link[n].mark
    BY <1>1, <2>1 DEF Link
  <2>3. First(H2, H2.hash[H2.key[n]]) = First(H, H.hash[H.key[n]])
    BY <1>1, <1>2, <2>1
  <2> QED
    BY <1>1, <1>3, <2>1, <2>2, <2>3 DEF Good
<1>5. HeapInv(H2) /\ Keeps(H, H2)
  <2>1. Keeps(H, H2)
    BY <1>1, <1>4 DEF Keeps
  <2>2. ASSUME NEW n \in Heads \cup Nodes PROVE MayLink(H2, n, H2.link[n].next)
    <3>1. MayLink(H, n, H.link[n].next)
      BY DEF HeapInv
    <3>2. MayLink(H2, n, H.link[n].next)
      BY <2>1, <3>1, LinkStays
    <3> QED
      BY <1>2, <3>2 DEF First
  <2> QED
    BY <1>1, <2>1, <2>2 DEF HeapInv
<1>6. ASSUME NEW k \in Keys, NEW n PROVE LiveIn(H2, k, n) <=> LiveIn(H, k, n) /\ n # x
  <2>1. First(H2, H2.hash[k]) = First(H, H.hash[k])
    BY <1>1, <1>2, FirstMade
  <2>2. ASSUME n \in Nodes PROVE ~H2.link[n].mark <=> ~H.link[n].mark /\ n # x
    BY <1>1, <2>2 DEF Link
  <2> QED
    BY <1>1, <1>3, <2>1, <2>2, ChainMade DEF LiveIn
<1>7. LiveIn(H, H.key[x], x)
  BY GoodLive DEF Link
<1>8. ASSUME NEW k \in Keys
      PROVE  Holding(H2)[k] = IF k = H.key[x] THEN None ELSE Holding(H)[k]
  <2>1. CASE k = H.key[x]
    <3>1. \A n : ~LiveIn(H2, k, n)
      <4> SUFFICES ASSUME NEW n, LiveIn(H2, k, n) PROVE FALSE
        OBVIOUS
      <4>1. LiveIn(H, k, n) /\ n # x
        BY <1>6
      <4>2. Holding(H)[k] = n
        BY <4>1, HoldingLive
      <4>3. Holding(H)[k] = x
        BY <1>7, <2>1, HoldingLive
      <4> QED
        BY <4>1, <4>2, <4>3
    <3> QED
      BY <1>5, <2>1, <3>1, HoldingNone
  <2>2. CASE k # H.key[x]
    <3>1. \A n : LiveIn(H2, k, n) <=> LiveIn(H, k, n)
      BY <1>6, <2>2 DEF LiveIn
    <3> QED
      BY <1>5, <2>2, <3>1, HoldingSame
  <2> QED
    BY <2>1, <2>2
<1>9. HoldsBut(H, H2, H.key[x], None)
  BY <1>8 DEF HoldsBut
<1>10. \A n \in MadeIn(H) : H.link[n].mark => H2.link[n] = H.link[n]
  BY <1>1 DEF Link, MadeIn
<1> QED
  BY <1>1, <1>3, <1>4, <1>5, <1>8, <1>9, <1>10 DEF Frame

\* A path of marked nodes leads from n to m.
Bridge(H, n, m) ==
  \E P \in SUBSET Nodes :
    /\ n \in P \cup {m}
    /\ \A x \in P : Good(H, x) /\ H.link[x].mark /\ First(H, x) \in P \cup {m}

LEMMA SkipStep ==
  ASSUME NEW H, HeapInv(H), NEW p \in Heads \cup Nodes, NEW n, H.link[p] = Link(n, FALSE),
         NEW c, Bridge(H, n, c), MayLink(H, p, c),
         NEW H2, Relinked(H, H2, p, Link(c, FALSE))
  PROVE  Frame(H, H2) /\ Holding(H2) = Holding(H)
<1>0. PICK P \in SUBSET Nodes :
        /\ n \in P \cup {c}
        /\ \A x \in P : Good(H, x) /\ H.link[x].mark /\ First(H, x) \in P \cup {c}
  BY DEF Bridge
<1>1. P \subseteq MadeIn(H) /\ c \in MadeIn(H) \cup {None} /\ c \in Nodes \cup {None} /\ p \notin P
  BY <1>0, GoodNode DEF MayLink, Link
<1>2. /\ H2 \in Heaps /\ H2.kind = H.kind /\ H2.hash = H.hash /\ H2.key = H.key
      /\ H2.link[p] = Link(c, FALSE) /\ \A x \in (Heads \cup Nodes) \ {p} : H2.link[x] = H.link[x]
  BY DEF Relinked
<1>3. /\ MadeIn(H2) = MadeIn(H) /\ First(H, p) = n /\ First(H2, p) = c
      /\ \A x \in (Heads \cup Nodes) \ {p} : First(H2, x) = First(H, x)
      /\ \A x \in Heads \cup Nodes : (H2.link[x].mark <=> H.link[x].mark)
  <2>1. MadeIn(H2) = MadeIn(H)
    BY <1>2 DEF MadeIn
  <2>2. First(H, p) = n /\ First(H2, p) = c /\ (H2.link[p].mark <=> H.link[p].mark)
    BY <1>2 DEF First, Link
  <2>3. ASSUME NEW x \in (Heads \cup Nodes) \ {p} PROVE First(H2, x) = First(H, x)
    BY <1>2 DEF First
  <2>4. ASSUME NEW x \in Heads \cup Nodes PROVE (H2.link[x].mark <=> H.link[x].mark)
    BY <1>2, <2>2
  <2> QED
    BY <2>1, <2>2, <2>3, <2>4
<1>4. MadeLinks(H2)
  <2>1. ASSUME NEW x \in Heads \cup Nodes PROVE First(H2, x) \in MadeIn(H2) \cup {None}
    <3>1. First(H, x) \in MadeIn(H) \cup {None}
      BY LinksMade
    <3> QED
      BY <1>1, <1>3, <3>1
  <2> QED
    BY <2>1 DEF MadeLinks
<1>5. ASSUME NEW x \in MadeIn(H) \cup {None}, NEW m \in Chain(H, x), ~H.link[m].mark
      PROVE  m \in Chain(H2, x)
  <2> DEFINE C == Chain(H2, x)
  <2>1. C \subseteq MadeIn(H) /\ C \subseteq Nodes /\ x \in C \cup {None} /\ Closed(H2, C)
    BY <1>3, <1>4, <1>5, ChainIsClosed, ChainMade
  <2> HIDE DEF C
  <2>2. CASE p \notin C
    <3>1. Closed(H, C)
      BY <1>3, <2>1, <2>2 DEF Closed, First
    <3>2. m \in C
      BY <2>1, <3>1, <1>5, ChainLeast
    <3> QED
      BY <3>2 DEF C
  <2>3. CASE p \in C
    <3>1. c \in C \cup {None}
      BY <1>3, <2>1, <2>3 DEF Closed, First
    <3>2. ASSUME NEW y \in C \cup P PROVE First(H, y) \in C \cup P \cup {None}
      <4>1. y \in C \ {p} => First(H, y) \in C \cup {None}
        BY <1>3, <2>1 DEF Closed, First
      <4> QED
        BY <1>0, <1>3, <3>1, <4>1
    <3>3. Closed(H, C \cup P)
      BY <3>2 DEF Closed, First
    <3>4. m \in C \cup P
      BY <1>1, <1>5, <2>1, <3>3, ChainLeast
    <3> QED
      BY <1>0, <1>5, <3>4 DEF C
  <2> QED
    BY <2>2, <2>3
<1>6. ASSUME NEW h \in Heads, NEW m \in Chain(H, First(H, h)), ~H.link[m].mark
      PROVE  m \in Chain(H2, First(H2, h))
  <2>0. First(H, h) \in MadeIn(H) \cup {None}
    BY LinksMade
  <2>1. CASE h # p
    BY <1>3, <1>5, <1>6, <2>0, <2>1
  <2>2. CASE h = p
    <3> DEFINE C == Chain(H2, c)
    <3>1. C \subseteq MadeIn(H) /\ C \subseteq Nodes /\ c \in C \cup {None} /\ Closed(H2, C)
      BY <1>1, <1>3, <1>4, ChainIsClosed, ChainMade
    <3> HIDE DEF C
    <3>2. p \notin C
      BY <2>2, <3>1, HarrisListAssumption DEF Nodes
    <3>3. ASSUME NEW y \in C \cup P PROVE First(H, y) \in C \cup P \cup {None}
      <4>1. y \in C => First(H, y) \in C \cup {None}
        BY <1>3, <3>1, <3>2 DEF Closed, First
      <4> QED
        BY <1>0, <3>1, <4>1
    <3>4. Closed(H, C \cup P)
      BY <3>3 DEF Closed, First
    <3>5. m \in C \cup P
      BY <1>0, <1>1, <1>3, <1>6, <2>2, <3>1, <3>4, ChainLeast
    <3> QED
      BY <1>0, <1>3, <1>6, <2>2, <3>5 DEF C
  <2> QED
    BY <2>1, <2>2
<1>7. \A x : Good(H, x) => Good(H2, x)
  <2> SUFFICES ASSUME NEW x, Good(H, x) PROVE Good(H2, x)
    OBVIOUS
  <2>1. x \in Nodes /\ H.hash[H.key[x]] \in Heads /\ (H2.link[x].mark <=> H.link[x].mark)
    BY <1>3, GoodNode
  <2> QED
    BY <1>2, <1>6, <2>1 DEF Good
<1>8. Keeps(H, H2)
  BY <1>2, <1>7 DEF Keeps
<1>9. HeapInv(H2)
  <2>1. ASSUME NEW x \in Heads \cup Nodes PROVE MayLink(H2, x, H2.link[x].next)
    <3>1. MayLink(H, x, H2.link[x].next)
      BY <1>2 DEF HeapInv, Link
    <3> QED
      BY <1>8, <3>1, LinkStays
  <2> QED
    BY <1>2, <2>1 DEF HeapInv
<1>10. ASSUME NEW k \in Keys, NEW m PROVE LiveIn(H2, k, m) <=> LiveIn(H, k, m)
  <2>1. ASSUME LiveIn(H, k, m) PROVE LiveIn(H2, k, m)
    <3>1. m \in Nodes /\ H.hash[k] \in Heads
      BY <2>1, FirstMade, ChainMade DEF LiveIn
    <3> QED
      BY <1>2, <1>3, <1>6, <2>1, <3>1 DEF LiveIn
  <2>2. ASSUME LiveIn(H2, k, m) PROVE LiveIn(H, k, m)
    <3> DEFINE h == H.hash[k]
               S == {x \in MadeIn(H) : Good(H, x) /\ H.hash[H.key[x]] = h}
    <3>1. h \in Heads /\ m \in Chain(H2, First(H2, h)) /\ H.key[m] = k /\ ~H.link[m].mark
      BY <1>2, <1>3, <2>2, FirstMade, ChainMade DEF LiveIn
    <3>2. ASSUME NEW x \in Heads \cup Nodes PROVE MayLink(H, x, First(H2, x))
      BY <1>3, <3>2 DEF HeapInv, First
    <3>3. ASSUME NEW x \in S, First(H2, x) # None PROVE First(H2, x) \in S
      BY <3>2, <3>3, GoodNode DEF MayLink
    <3>4. Closed(H2, S)
      BY <3>3 DEF Closed, First
    <3>5. First(H2, h) \in S \cup {None}
      BY <3>1, <3>2, GoodNode DEF MayLink
    <3>6. m \in S
      BY <1>3, <3>1, <3>4, <3>5, ChainLeast
    <3> QED
      BY <3>1, <3>6, GoodLive
  <2> QED
    BY <2>1, <2>2
<1>11. ASSUME NEW k \in Keys PROVE Holding(H2)[k] = Holding(H)[k]
  BY <1>9, <1>10, HoldingSame
<1>12. Holding(H2) = Holding(H)
  BY <1>11 DEF Holding
<1>13. \A x \in MadeIn(H) : H.link[x].mark => H2.link[x] = H.link[x]
  BY <1>2 DEF Link, MadeIn
<1>14. \A x \in MadeIn(H) \cup {None} : \A m \in Chain(H, x) :
         H2.link[m].mark \/ m \in Chain(H2, x)
  BY <1>3, <1>5, ChainMade
<1> QED
  BY <1>8, <1>9, <1>11, <1>12, <1>13, <1>14 DEF Frame

\* Node p is where key k may be looked for from.
Before(H, p, k) ==
  \/ p = H.hash[k]
  \/ Good(H, p) /\ H.hash[H.key[p]] = H.hash[k] /\ H.key[p] < k

\* H2 is H with the new node t of key k between p and c.
Inserted(H, H2, t, k, p, c) ==
  /\ H2 \in Heaps /\ H2.kind = H.kind /\ H2.hash = H.hash
  /\ H2.key[t] = k /\ \A n \in Nodes \ {t} : H2.key[n] = H.key[n]
  /\ H2.link[t] = Link(c, FALSE) /\ H2.link[p] = Link(t, FALSE)
  /\ \A n \in (Heads \cup Nodes) \ {p, t} : H2.link[n] = H.link[n]

LEMMA BeforeNode ==
  ASSUME NEW H, HeapInv(H), NEW k \in Keys, NEW p, Before(H, p, k)
  PROVE  /\ p \in Heads \cup Nodes
         /\ p \in Heads => p = H.hash[k] /\ p \notin Nodes
         /\ p \in Nodes => /\ Good(H, p) /\ p \in MadeIn(H) /\ p \notin Heads
                           /\ H.hash[H.key[p]] = H.hash[k] /\ H.key[p] < k
BY KeyType, GoodNode, HarrisListAssumption DEF Before, HeapInv, Nodes

\* Nothing with key k is live if an unmarked link leads past k.
LEMMA GapIsEmpty ==
  ASSUME NEW H, HeapInv(H), NEW k \in Keys, NEW p, Before(H, p, k), ~H.link[p].mark,
         First(H, p) # None => k < H.key[First(H, p)],
         NEW m, LiveIn(H, k, m)
  PROVE  FALSE
<1> DEFINE c == First(H, p)
<1>1. /\ p \in Heads \cup Nodes /\ c \in MadeIn(H) \cup {None}
      /\ H.key[m] = k /\ m \in MadeIn(H) /\ m \in Chain(H, First(H, H.hash[k]))
      /\ k \in Nat
  BY BeforeNode, LinksMade, ChainMade, HarrisListAssumption DEF LiveIn
<1>2. m \notin Chain(H, c)
  <2> SUFFICES ASSUME m \in Chain(H, c) PROVE FALSE
    OBVIOUS
  <2>1. c # None
    <3> SUFFICES ASSUME c = None PROVE FALSE
      OBVIOUS
    <3>1. Closed(H, {})
      BY DEF Closed
    <3> QED
      BY <3>1, ChainLeast
  <2>2. c \in MadeIn(H) /\ k < H.key[c] /\ H.key[c] \in Nat
    BY <1>1, <2>1, KeyType DEF HeapInv
  <2>3. m = c \/ H.key[c] < H.key[m]
    BY <2>2, ChainAscends
  <2> QED
    BY <1>1, <2>2, <2>3
<1>3. CASE p \in Heads
  BY <1>1, <1>2, <1>3, BeforeNode
<1>4. CASE p \in Nodes
  <2>1. /\ p \in MadeIn(H) /\ p \in Chain(H, First(H, H.hash[k])) /\ H.key[p] < k
        /\ H.key[p] \in Nat
    BY <1>4, BeforeNode, GoodNode DEF Good
  <2>2. p \notin Chain(H, m)
    <3>1. p \in Chain(H, m) => p = m \/ H.key[m] < H.key[p]
      BY <1>1, ChainAscends
    <3> QED
      BY <1>1, <2>1, <3>1
  <2>3. m \in Chain(H, p)
    BY <1>1, <2>1, <2>2, FirstMade, ChainLinear
  <2>4. m = p
    BY <1>2, <2>1, <2>3, ChainSplit
  <2> QED
    BY <1>1, <2>1, <2>4
<1> QED
  BY <1>1, <1>3, <1>4

LEMMA InsertStep ==
  ASSUME NEW H, HeapInv(H), NEW t \in Threads, H.key[t] = None, NEW k \in Keys,
         NEW p, Before(H, p, k), NEW c, H.link[p] = Link(c, FALSE),
         c # None => k < H.key[c],
         NEW H2, Inserted(H, H2, t, k, p, c)
  PROVE  /\ Frame(H, H2)
         /\ Holding(H)[k] = None
         /\ HoldsBut(H, H2, k, t)
<1>0. /\ t \in Nodes /\ t \notin MadeIn(H) /\ t # None /\ t \notin Heads /\ t \notin Keys
      /\ k \in Nat /\ k # None
  BY HarrisListAssumption DEF MadeIn, Nodes
<1>1. p \in Heads \cup Nodes /\ p # t /\ First(H, p) = c /\ ~H.link[p].mark
  BY <1>0, BeforeNode DEF First, Link
<1>2. /\ c \in MadeIn(H) \cup {None}
      /\ c # None => Good(H, c) /\ H.hash[H.key[c]] = H.hash[k]
  <2>1. c \in MadeIn(H) \cup {None} /\ MayLink(H, p, c)
    BY <1>1, LinksMade DEF HeapInv, First
  <2> QED
    BY <1>1, <2>1, BeforeNode DEF MayLink
<1>3. /\ H2 \in Heaps /\ H2.kind = H.kind /\ H2.hash = H.hash
      /\ H2.key[t] = k /\ \A n \in Nodes \ {t} : H2.key[n] = H.key[n]
      /\ \A n \in (Heads \cup Nodes) \ {p, t} : H2.link[n] = H.link[n]
  BY DEF Inserted
<1>4. First(H2, t) = c /\ First(H2, p) = t /\ ~H2.link[t].mark /\ ~H2.link[p].mark
  BY DEF Inserted, First, Link
<1>5. MadeIn(H2) = MadeIn(H) \cup {t}
  BY <1>0, <1>3 DEF MadeIn
<1>6. /\ \A x \in (Heads \cup Nodes) \ {p, t} : First(H2, x) = First(H, x)
      /\ \A x \in (Heads \cup Nodes) \ {t} : H2.link[x].mark <=> H.link[x].mark
  BY <1>1, <1>3, <1>4 DEF First
<1>7. MadeLinks(H2)
  <2>1. ASSUME NEW x \in Heads \cup Nodes PROVE First(H2, x) \in MadeIn(H2) \cup {None}
    <3>1. First(H, x) \in MadeIn(H) \cup {None}
      BY LinksMade
    <3> QED
      BY <1>2, <1>4, <1>5, <1>6, <3>1
  <2> QED
    BY <2>1 DEF MadeLinks
\* Closed in H2, without t: closed in H.
<1>8. ASSUME NEW C \in SUBSET MadeIn(H2), Closed(H2, C)
      PROVE  Closed(H, C \ {t}) /\ C \ {t} \in SUBSET MadeIn(H)
  <2>1. ASSUME NEW y \in C \ {t} PROVE First(H, y) \in (C \ {t}) \cup {None}
    <3>1. y \in Nodes /\ First(H, y) # t /\ First(H2, y) \in C \cup {None}
      BY <1>0, <1>5, <1>8, LinksMade DEF MadeIn, Closed, First
    <3>2. CASE y # p
      BY <1>6, <3>1, <3>2
    <3>3. CASE y = p
      <4>1. t \in C
        BY <1>0, <1>4, <3>1, <3>3
      <4>2. c \in C \cup {None}
        BY <1>4, <1>8, <4>1 DEF Closed, First
      <4> QED
        BY <1>1, <3>1, <3>3, <4>2
    <3> QED
      BY <3>2, <3>3
  <2> QED
    BY <1>5, <2>1 DEF Closed, First
<1>9. ASSUME NEW x \in MadeIn(H) \cup {None}, NEW m \in Chain(H, x)
      PROVE  m \in Chain(H2, x)
  <2> DEFINE C == Chain(H2, x)
  <2>1. C \in SUBSET MadeIn(H2) /\ x \in C \cup {None} /\ Closed(H2, C)
    BY <1>5, <1>7, ChainIsClosed, ChainMade
  <2> HIDE DEF C
  <2>2. x \in (C \ {t}) \cup {None}
    BY <1>0, <2>1
  <2>3. Closed(H, C \ {t}) /\ C \ {t} \in SUBSET MadeIn(H)
    BY <1>8, <2>1
  <2>4. m \in C \ {t}
    BY <2>2, <2>3, ChainLeast
  <2> QED
    BY <2>4 DEF C
<1>10. ASSUME NEW h \in Heads, NEW m \in Chain(H, First(H, h))
       PROVE  m \in Chain(H2, First(H2, h))
  <2>0. First(H, h) \in MadeIn(H) \cup {None}
    BY LinksMade
  <2>1. CASE h # p
    BY <1>0, <1>6, <1>9, <2>0, <2>1
  <2>2. CASE h = p
    <3> DEFINE C == Chain(H2, t)
    <3>1. C \in SUBSET MadeIn(H2) /\ t \in C /\ Closed(H2, C)
      BY <1>0, <1>5, <1>7, ChainIsClosed, ChainMade
    <3> HIDE DEF C
    <3>2. c \in C \cup {None}
      BY <1>4, <3>1 DEF Closed, First
    <3>3. c \in (C \ {t}) \cup {None}
      BY <1>0, <1>2, <3>2
    <3>4. m \in C
      BY <1>1, <1>8, <2>2, <3>1, <3>3, ChainLeast
    <3> QED
      BY <1>4, <2>2, <3>4 DEF C
  <2> QED
    BY <2>1, <2>2
<1>11. t \in Chain(H2, First(H2, H.hash[k]))
  <2>0. /\ First(H2, H.hash[k]) \in MadeIn(H2) \cup {None} /\ H.hash[k] \in Heads
        /\ Closed(H2, Chain(H2, First(H2, H.hash[k])))
    BY <1>7, FirstMade, ChainIsClosed DEF MadeLinks
  <2>1. CASE p = H.hash[k]
    BY <1>0, <1>4, <1>5, <1>7, <2>1, ChainIsClosed
  <2>2. CASE p # H.hash[k]
    <3>1. p \in Chain(H, First(H, H.hash[k]))
      BY <1>1, <2>2 DEF Before, Good
    <3>2. p \in Chain(H2, First(H2, H.hash[k]))
      BY <1>10, <2>0, <3>1
    <3> QED
      BY <1>0, <1>4, <2>0, <3>2 DEF Closed, First
  <2> QED
    BY <2>1, <2>2
<1>12. \A x : Good(H, x) => Good(H2, x)
  <2> SUFFICES ASSUME NEW x, Good(H, x) PROVE Good(H2, x)
    OBVIOUS
  <2>1. x \in Nodes /\ H.hash[H.key[x]] \in Heads /\ x # t
    BY <1>0, GoodNode
  <2>2. H2.key[x] = H.key[x] /\ (H2.link[x].mark <=> H.link[x].mark)
    BY <1>3, <1>6, <2>1
  <2> QED
    BY <1>3, <1>10, <2>1, <2>2 DEF Good
<1>13. Keeps(H, H2)
  <2>1. \A n \in MadeIn(H) : H2.key[n] = H.key[n]
    BY <1>0, <1>3 DEF MadeIn
  <2> QED
    BY <1>3, <1>12, <2>1 DEF Keeps
<1>14. Good(H2, t)
  BY <1>0, <1>3, <1>11 DEF Good
<1>15. HeapInv(H2)
  <2>1. ASSUME NEW x \in Heads \cup Nodes PROVE MayLink(H2, x, First(H2, x))
    <3>1. CASE x = p
      <4>1. x \in Heads => x = H.hash[k]
        BY <3>1, BeforeNode
      <4>2. x \in Nodes => H.key[x] \in Keys /\ H.key[x] < k /\ H.hash[H.key[x]] = H.hash[k]
                           /\ H2.key[x] = H.key[x]
        BY <1>1, <1>3, <3>1, BeforeNode, GoodNode
      <4> QED
        BY <1>3, <1>4, <1>14, <3>1, <4>1, <4>2 DEF MayLink
    <3>2. CASE x = t
      <4>1. c # None => Good(H2, c) /\ H2.key[c] = H.key[c]
        BY <1>2, <1>13 DEF Keeps
      <4> QED
        BY <1>0, <1>2, <1>3, <1>4, <3>2, <4>1 DEF MayLink
    <3>3. CASE x \notin {p, t}
      <4>1. MayLink(H, x, First(H, x))
        BY DEF HeapInv, First
      <4> QED
        BY <1>6, <1>13, <3>3, <4>1, LinkStays
    <3> QED
      BY <3>1, <3>2, <3>3
  <2>2. \A j \in Keys : H2.key[j] = j
    BY <1>0, <1>3 DEF HeapInv, Nodes
  <2> QED
    BY <1>3, <2>1, <2>2 DEF HeapInv, First
<1>16. \A m : ~LiveIn(H, k, m)
  BY <1>1, GapIsEmpty
<1>17. LiveIn(H2, k, t)
  BY <1>3, <1>4, <1>11 DEF LiveIn
<1>18. ASSUME NEW j \in Keys, j # k, NEW m PROVE LiveIn(H2, j, m) <=> LiveIn(H, j, m)
  <2>1. ASSUME LiveIn(H, j, m) PROVE LiveIn(H2, j, m)
    <3>1. m \in MadeIn(H) /\ m \in Nodes /\ m # t /\ H.hash[j] \in Heads
      BY <1>0, <2>1, FirstMade, ChainMade DEF LiveIn
    <3>2. H2.key[m] = H.key[m] /\ (H2.link[m].mark <=> H.link[m].mark)
      BY <1>3, <1>6, <3>1
    <3> QED
      BY <1>3, <1>10, <2>1, <3>1, <3>2 DEF LiveIn
  <2>2. ASSUME LiveIn(H2, j, m) PROVE LiveIn(H, j, m)
    <3> DEFINE S == {x \in MadeIn(H2) : x = t \/ Good(H, x)}
    <3>1. /\ H.hash[j] \in Heads /\ m \in Chain(H2, First(H2, H.hash[j])) /\ m \in Nodes
          /\ m # t /\ H.key[m] = j /\ ~H.link[m].mark
      <4>1. /\ H.hash[j] \in Heads /\ m \in Chain(H2, First(H2, H.hash[j])) /\ m \in Nodes
            /\ m # t
        BY <1>3, <1>18, <2>2, FirstMade, ChainMade DEF LiveIn
      <4> QED
        BY <1>3, <1>6, <2>2, <4>1 DEF LiveIn
    <3>2. ASSUME NEW x \in Heads \cup Nodes, x # p, x # t
          PROVE  First(H2, x) = None \/ Good(H, First(H2, x))
      BY <1>6, <3>2 DEF HeapInv, MayLink, First
    <3>3. ASSUME NEW x \in Heads \cup Nodes PROVE First(H2, x) \in S \cup {None}
      <4>1. First(H2, x) \in MadeIn(H2) \cup {None}
        BY <1>7 DEF MadeLinks
      <4>2. First(H2, x) = None \/ First(H2, x) = t \/ Good(H, First(H2, x))
        BY <1>2, <1>4, <3>2
      <4> QED
        BY <4>1, <4>2
    <3>4. Closed(H2, S)
      BY <3>3 DEF Closed, First, MadeIn
    <3>5. m \in S
      BY <3>1, <3>3, <3>4, ChainLeast
    <3> QED
      BY <3>1, <3>5, GoodLive
  <2> QED
    BY <2>1, <2>2
<1>19. ASSUME NEW j \in Keys
       PROVE  Holding(H2)[j] = IF j = k THEN t ELSE Holding(H)[j]
  <2>1. CASE j = k
    BY <1>15, <1>17, <2>1, HoldingLive
  <2>2. CASE j # k
    BY <1>15, <1>18, <2>2, HoldingSame
  <2> QED
    BY <2>1, <2>2
<1>20. Holding(H)[k] = None
  BY <1>16, HoldingNone
<1>21. HoldsBut(H, H2, k, t)
  BY <1>19 DEF HoldsBut
<1>22. \A x \in MadeIn(H) : H.link[x].mark => H2.link[x] = H.link[x]
  <2> SUFFICES ASSUME NEW x \in MadeIn(H), H.link[x].mark PROVE H2.link[x] = H.link[x]
    OBVIOUS
  <2>1. x # p /\ x # t /\ x \in Nodes
    BY <1>0, <1>1 DEF MadeIn
  <2> QED
    BY <1>3, <2>1
<1>23. \A x \in MadeIn(H) \cup {None} : \A m \in Chain(H, x) :
         H2.link[m].mark \/ m \in Chain(H2, x)
  BY <1>9
<1>24. \A j \in Keys : Holding(H)[j] = None \/ Holding(H2)[j] \in {Holding(H)[j], None}
  BY <1>19, <1>20
<1> QED
  BY <1>13, <1>15, <1>20, <1>21, <1>22, <1>23, <1>24 DEF Frame


-----------------------------------------------------------------------------
(* What a thread relies on while others change the heap. *)

\* Node n is in the bucket of key k, or was.
Behind(H, n, k) == n # None => Good(H, n) /\ H.hash[H.key[n]] = H.hash[k]

\* The key of call c is still to be met from n on, or was absent meanwhile.
Ahead(H, n, c) == None \in c.seen \/ \E m \in Chain(H, n) : LiveIn(H, c.key, m)

\* A find ended at n: the call has seen what it found.
Ended(H, n, c) ==
  /\ n # None => ~(H.key[n] < c.key)
  /\ IF n # None /\ H.key[n] = c.key THEN n \in c.seen ELSE None \in c.seen

\* The find that call c uses: see Finds.
FindOf(H, c) ==
  IF H.kind = "michael" THEN "michael"
  ELSE IF H.kind # "harris" /\ c.op = "get" THEN "shavit" ELSE "harris"

\* Call c after others have made the heap H.
Watch(c, H) ==
  IF c = None \/ c.answer # Pending \/ c.took # None THEN c
  ELSE [c EXCEPT !.seen = @ \cup Map!Sight(c.op, c.key, Holding(H))]

LEMMA BeforeKeeps ==
  ASSUME NEW H, HeapInv(H), NEW H2, Frame(H, H2), NEW k \in Keys, NEW p, Before(H, p, k)
  PROVE  Before(H2, p, k)
<1>1. H2.hash = H.hash
  BY DEF Frame, Keeps
<1>2. Good(H, p) => Good(H2, p) /\ H2.key[p] = H.key[p]
  BY GoodNode DEF Frame, Keeps
<1> QED
  BY <1>1, <1>2 DEF Before

LEMMA BehindKeeps ==
  ASSUME NEW H, HeapInv(H), NEW H2, Frame(H, H2), NEW k \in Keys, NEW n, Behind(H, n, k)
  PROVE  /\ Behind(H2, n, k) /\ n \in MadeIn(H) \cup {None}
         /\ n # None => H2.key[n] = H.key[n]
BY GoodNode DEF Behind, Frame, Keeps

LEMMA BridgeKeeps ==
  ASSUME NEW H, HeapInv(H), NEW H2, Frame(H, H2), NEW n, NEW m, Bridge(H, n, m)
  PROVE  Bridge(H2, n, m)
<1>1. PICK P \in SUBSET Nodes :
        /\ n \in P \cup {m}
        /\ \A x \in P : Good(H, x) /\ H.link[x].mark /\ First(H, x) \in P \cup {m}
  BY DEF Bridge
<1>2. ASSUME NEW x \in P
      PROVE  Good(H2, x) /\ H2.link[x].mark /\ First(H2, x) \in P \cup {m}
  <2>1. Good(H2, x) /\ H2.link[x] = H.link[x]
    BY <1>1, GoodNode DEF Frame, Keeps
  <2> QED
    BY <1>1, <2>1 DEF First
<1> QED
  BY <1>1, <1>2 DEF Bridge

LEMMA AheadKeeps ==
  ASSUME NEW H, HeapInv(H), NEW H2, Frame(H, H2), NEW n \in MadeIn(H) \cup {None},
         NEW c, c.key \in Keys, Ahead(H, n, c), NEW d, d.key = c.key,
         c.seen \cup {Holding(H2)[c.key]} \subseteq d.seen
  PROVE  Ahead(H2, n, d)
<1>1. CASE None \in c.seen
  BY <1>1 DEF Ahead
<1>2. ASSUME NEW m \in Chain(H, n), LiveIn(H, c.key, m)
      PROVE  Ahead(H2, n, d)
  <2>1. HeapInv(H2) /\ m # None /\ Holding(H)[c.key] = m
    BY <1>2, HoldingLive DEF Frame
  <2>2. Good(H, m) /\ H.key[m] = c.key /\ m \in MadeIn(H)
    BY <1>2, FirstMade, MetIsGood, ChainMade DEF LiveIn
  <2>3. Good(H2, m) /\ H2.key[m] = c.key
    BY <2>2 DEF Frame, Keeps
  <2>4. CASE H2.link[m].mark
    <3>1. Holding(H2)[c.key] # m
      <4> SUFFICES ASSUME Holding(H2)[c.key] = m PROVE FALSE
        OBVIOUS
      <4>1. LiveIn(H2, c.key, m)
        BY <2>1, HoldingLive
      <4> QED
        BY <2>4, <4>1 DEF LiveIn
    <3>2. Holding(H2)[c.key] = None
      BY <2>1, <3>1 DEF Frame
    <3> QED
      BY <3>2 DEF Ahead
  <2>5. CASE ~H2.link[m].mark
    <3>1. m \in Chain(H2, n)
      BY <2>5 DEF Frame
    <3>2. LiveIn(H2, c.key, m)
      BY <2>1, <2>3, <2>5, GoodLive
    <3> QED
      BY <3>1, <3>2 DEF Ahead
  <2> QED
    BY <2>4, <2>5
<1> QED
  BY <1>1, <1>2 DEF Ahead

\* Calls that have not been answered.
Active(c) == c \in Map!Calls /\ c.answer = Pending

\* A call that has not taken effect and has seen what there is to see.
Watching(H, t, c) ==
  /\ Active(c) /\ c.took = None /\ H.key[t] = None
  /\ Map!Sight(c.op, c.key, Holding(H)) \subseteq c.seen
  /\ c.op = "pop" => \A k \in Keys : H.hash[k] = H.hash[c.key]

\* Where the cursor of l is, at each pc of a call that may still take effect.
AtFind(H, l, c) ==
  /\ l.pc = "find" /\ c.op # "pop" /\ Behind(H, l.curr, c.key) /\ Ahead(H, l.curr, c)
  /\ FindOf(H, c) # "shavit" => Before(H, l.prev, c.key)
  /\ FindOf(H, c) = "harris" => Bridge(H, l.next, l.curr)

AtClean(H, l, c) ==
  /\ l.pc = "clean" /\ c.op # "pop" /\ Before(H, l.prev, c.key)
  /\ Behind(H, l.curr, c.key) /\ Bridge(H, l.next, l.curr) /\ Ended(H, l.curr, c)

AtHelp(H, l, c) ==
  /\ l.pc = "help" /\ c.op # "pop" /\ FindOf(H, c) = "michael"
  /\ Before(H, l.prev, c.key) /\ l.curr # None /\ Behind(H, l.curr, c.key)
  /\ Ahead(H, l.curr, c) /\ H.link[l.curr].mark /\ First(H, l.curr) = l.next

AtLink(H, l, c) ==
  /\ l.pc = "link" /\ c.op = "insert" /\ Before(H, l.prev, c.key)
  /\ Behind(H, l.curr, c.key)
  /\ l.curr # None => c.key < H.key[l.curr]

AtRemove(H, l, c) ==
  /\ l.pc \in {"load", "mark"} /\ c.op \in {"remove", "pop"}
  /\ l.prev \in Heads \cup Nodes /\ Good(H, l.curr)
  /\ c.op = "remove" => H.key[l.curr] = c.key

\* A removal that has taken effect.
AtUnlink(H, l, c) ==
  /\ l.pc = "unlink" /\ Active(c) /\ c.op \in {"remove", "pop"} /\ c.took = l.curr
  /\ l.prev \in Heads \cup Nodes /\ Good(H, l.curr)
  /\ H.link[l.curr].mark /\ First(H, l.curr) = l.next

Searching(H, t, l, c) ==
  /\ Watching(H, t, c)
  /\ \/ l.pc = "start"
     \/ AtFind(H, l, c) \/ AtClean(H, l, c) \/ AtHelp(H, l, c)
     \/ AtLink(H, l, c) \/ AtRemove(H, l, c)

\* Thread t is at l with call c.
ThreadOK(H, t, l, c) ==
  \/ l.pc = "idle" /\ c = None /\ H.key[t] = None
  \/ l.pc = "done" /\ c \in Map!Calls /\ c.answer # Pending
  \/ l.pc = "true" /\ Active(c) /\ c.op = "insert" /\ c.took = t
  \/ AtUnlink(H, l, c)
  \/ Searching(H, t, l, c)

LEMMA ThreadKeeps ==
  ASSUME NEW H, HeapInv(H), NEW H2, Frame(H, H2), NEW t \in Threads,
         H.key[t] = None => H2.key[t] = None,
         NEW l, NEW c, ThreadOK(H, t, l, c)
  PROVE  ThreadOK(H2, t, l, Watch(c, H2))
<1>1. CASE l.pc = "idle" /\ c = None /\ H.key[t] = None
  BY <1>1 DEF ThreadOK, Watch
<1>2. CASE l.pc = "done" /\ c \in Map!Calls /\ c.answer # Pending
  BY <1>2 DEF ThreadOK, Watch
<1>3. CASE l.pc = "true" /\ Active(c) /\ c.op = "insert" /\ c.took = t
  <2>1. Watch(c, H2) = c
    BY <1>3, HarrisListAssumption DEF Watch
  <2> QED
    BY <1>3, <2>1 DEF ThreadOK
<1>4. CASE AtUnlink(H, l, c)
  <2>1. Watch(c, H2) = c
    BY <1>4, GoodNode DEF Watch, AtUnlink
  <2>2. Good(H2, l.curr) /\ H2.link[l.curr] = H.link[l.curr]
    BY <1>4, GoodNode DEF AtUnlink, Frame, Keeps
  <2>3. AtUnlink(H2, l, c)
    BY <1>4, <2>2 DEF AtUnlink, First
  <2> QED
    BY <2>1, <2>3 DEF ThreadOK
<1>5. CASE Searching(H, t, l, c)
  <2> DEFINE d == Watch(c, H2)
  <2>0. Watching(H, t, c) /\ c \in Map!Calls /\ c.answer = Pending /\ c.took = None /\ c # None
    BY <1>5, NoCallAssumption DEF Searching, Watching, Active
  <2>1. d = [c EXCEPT !.seen = @ \cup Map!Sight(c.op, c.key, Holding(H2))]
    BY <2>0 DEF Watch
  <2>2. Map!Sight(c.op, c.key, Holding(H2)) \subseteq Map!Values \cup {None}
    BY <2>0, HoldingLive DEF Map!Sight, Map!Values, Map!Calls, Nodes, Frame
  <2>3. /\ d \in Map!Calls /\ d.op = c.op /\ d.key = c.key /\ d.took = c.took
        /\ d.answer = c.answer /\ c.key \in Keys
        /\ d.seen = c.seen \cup Map!Sight(c.op, c.key, Holding(H2))
    BY <2>0, <2>1, <2>2 DEF Map!Calls
  <2> HIDE DEF d
  <2>4. H2.hash = H.hash /\ FindOf(H2, d) = FindOf(H, c)
    BY <2>3 DEF Frame, Keeps, FindOf
  <2>5. Watching(H2, t, d)
    BY <2>0, <2>3, <2>4 DEF Watching, Active
  <2>6. c.op # "pop" => Map!Sight(c.op, c.key, Holding(H2)) = {Holding(H2)[c.key]}
    BY DEF Map!Sight
  <2>7. CASE l.pc = "start"
    BY <2>5, <2>7 DEF ThreadOK, Searching, d
  <2>8. CASE AtFind(H, l, c)
    <3>1. Behind(H2, l.curr, d.key) /\ l.curr \in MadeIn(H) \cup {None}
      BY <2>3, <2>8, BehindKeeps DEF AtFind
    <3>2. Ahead(H2, l.curr, d)
      BY <2>3, <2>6, <2>8, <3>1, AheadKeeps DEF AtFind
    <3>3. AtFind(H2, l, d)
      BY <2>3, <2>4, <2>8, <3>1, <3>2, BeforeKeeps, BridgeKeeps DEF AtFind
    <3> QED
      BY <2>5, <3>3 DEF ThreadOK, Searching, d
  <2>9. CASE AtClean(H, l, c)
    <3>1. Behind(H2, l.curr, d.key) /\ (l.curr # None => H2.key[l.curr] = H.key[l.curr])
      BY <2>3, <2>9, BehindKeeps DEF AtClean
    <3>2. Ended(H2, l.curr, d)
      BY <2>3, <2>9, <3>1 DEF AtClean, Ended
    <3>3. AtClean(H2, l, d)
      BY <2>3, <2>9, <3>1, <3>2, BeforeKeeps, BridgeKeeps DEF AtClean
    <3> QED
      BY <2>5, <3>3 DEF ThreadOK, Searching, d
  <2>10. CASE AtHelp(H, l, c)
    <3>1. Behind(H2, l.curr, d.key) /\ l.curr \in MadeIn(H)
      BY <2>3, <2>10, BehindKeeps DEF AtHelp
    <3>2. Ahead(H2, l.curr, d)
      BY <2>3, <2>6, <2>10, <3>1, AheadKeeps DEF AtHelp
    <3>3. H2.link[l.curr] = H.link[l.curr]
      BY <2>10, <3>1 DEF AtHelp, Frame
    <3>4. AtHelp(H2, l, d)
      BY <2>3, <2>4, <2>10, <3>1, <3>2, <3>3, BeforeKeeps DEF AtHelp, First
    <3> QED
      BY <2>5, <3>4 DEF ThreadOK, Searching, d
  <2>11. CASE AtLink(H, l, c)
    <3>1. Behind(H2, l.curr, d.key) /\ (l.curr # None => H2.key[l.curr] = H.key[l.curr])
      BY <2>3, <2>11, BehindKeeps DEF AtLink
    <3>2. AtLink(H2, l, d)
      BY <2>3, <2>11, <3>1, BeforeKeeps DEF AtLink
    <3> QED
      BY <2>5, <3>2 DEF ThreadOK, Searching, d
  <2>12. CASE AtRemove(H, l, c)
    <3>1. Good(H2, l.curr) /\ H2.key[l.curr] = H.key[l.curr]
      BY <2>12, GoodNode DEF AtRemove, Frame, Keeps
    <3>2. AtRemove(H2, l, d)
      BY <2>3, <2>12, <3>1 DEF AtRemove
    <3> QED
      BY <2>5, <3>2 DEF ThreadOK, Searching, d
  <2> QED
    BY <1>5, <2>7, <2>8, <2>9, <2>10, <2>11, <2>12 DEF Searching
<1> QED
  BY <1>1, <1>2, <1>3, <1>4, <1>5 DEF ThreadOK


-----------------------------------------------------------------------------
(* The inductive invariant *)

OneBucket == heap.kind # "hash" => \A k, l \in Keys : heap.hash[k] = heap.hash[l]

ListInv ==
  /\ HeapInv(heap) /\ OneBucket
  /\ local = [t \in Threads |-> local[t]] /\ call = [t \in Threads |-> call[t]]
  /\ \A t \in Threads : ThreadOK(heap, t, local[t], call[t])

LEMMA ContentsHeld ==
  ASSUME HeapInv(heap)
  PROVE  Contents = Holding(heap)
<1>1. ASSUME NEW k \in Keys, NEW n \in Nodes
      PROVE  Live(k, n) <=> LiveIn(heap, k, n)
  <2>1. Made = MadeIn(heap)
    BY DEF Made, MadeIn, KeyOf
  <2>2. ASSUME heap.key[n] = k
        PROVE  Meets(heap.link[heap.hash[k]].next, n)
                 <=> n \in Chain(heap, First(heap, heap.hash[k]))
    <3>1. n \in MadeIn(heap)
      BY <2>2, KeyType DEF MadeIn, HeapInv
    <3> QED
      BY <2>1, <3>1 DEF Meets, Chain, Closed, First
  <2> QED
    BY <2>2 DEF Live, LiveIn, KeyOf
<1>2. \A k \in Keys : {n \in Nodes : Live(k, n)} = {n \in Nodes : LiveIn(heap, k, n)}
  BY <1>1
<1> QED
  BY <1>2 DEF Contents, Holding

LEMMA ContentsHeldNext ==
  HeapInv(heap') => Contents' = Holding(heap')
<1>1. HeapInv(heap) => Contents = Holding(heap)
  BY ContentsHeld
<1>2. (HeapInv(heap) => Contents = Holding(heap))'
  BY <1>1, PTL
<1> QED
  BY <1>2

LEMMA FrameSame ==
  ASSUME NEW H, HeapInv(H)
  PROVE  Frame(H, H)
BY DEF Frame, Keeps

\* A call has seen what there is to see, unless that does not matter any more.
LEMMA WatchSame ==
  ASSUME NEW H, HeapInv(H), NEW H2, Holding(H2) = Holding(H), NEW t \in Threads,
         NEW l, NEW c, ThreadOK(H, t, l, c)
  PROVE  Watch(c, H2) = c
<1>1. CASE c = None \/ c.answer # Pending \/ c.took # None
  BY <1>1 DEF Watch
<1>2. CASE c # None /\ c.answer = Pending /\ c.took = None
  <2>1. Watching(H, t, c)
    BY <1>2, GoodNode, HarrisListAssumption DEF ThreadOK, AtUnlink, Searching
  <2>2. c \in Map!Calls /\ Map!Sight(c.op, c.key, Holding(H2)) \subseteq c.seen
    BY <2>1 DEF Watching, Active
  <2>3. c = [c EXCEPT !.seen = @ \cup Map!Sight(c.op, c.key, Holding(H2))]
    BY <2>2 DEF Map!Calls
  <2> QED
    BY <1>2, <2>3 DEF Watch
<1> QED
  BY <1>1, <1>2


-----------------------------------------------------------------------------
(* Steps in which no call takes effect *)

\* Thread t goes to l, with call c.
Turn(t, l, c) == local' = [local EXCEPT ![t] = l] /\ call' = [call EXCEPT ![t] = c]

\* Call c goes on as d, or is answered.
Goes(c, d) ==
  \/ d = c
  \/ /\ Active(c)
     /\ \E a \in Map!Values \cup {None} : Map!Permitted(c, a) /\ d = [c EXCEPT !.answer = a]

\* The heap is another that holds the same.
Tidied ==
  /\ Frame(heap, heap') /\ Holding(heap') = Holding(heap)
  /\ \A u \in Threads : heap'.key[u] = heap.key[u]

LEMMA TidySame ==
  ASSUME ListInv, UNCHANGED heap
  PROVE  Tidied
<1>1. Frame(heap, heap)
  BY FrameSame DEF ListInv
<1> QED
  BY <1>1 DEF Tidied

LEMMA TurnKeeps ==
  ASSUME ListInv, Tidied, NEW t \in Threads, NEW l, NEW c, Turn(t, l, c),
         ThreadOK(heap, t, l, c)
  PROVE  ListInv'
<1>1. HeapInv(heap) /\ HeapInv(heap') /\ OneBucket'
  BY DEF ListInv, Tidied, Frame, Keeps, OneBucket
<1>2. ASSUME NEW u \in Threads
      PROVE  ThreadOK(heap', u, local'[u], call'[u])
  <2>1. ThreadOK(heap, u, local'[u], call'[u])
    BY DEF ListInv, Turn
  <2>2. ThreadOK(heap', u, local'[u], Watch(call'[u], heap'))
    BY <1>1, <2>1, ThreadKeeps DEF Tidied
  <2>3. Watch(call'[u], heap') = call'[u]
    BY <1>1, <2>1, WatchSame DEF Tidied
  <2> QED
    BY <2>2, <2>3
<1>3. local' = [u \in Threads |-> local'[u]] /\ call' = [u \in Threads |-> call'[u]]
  BY DEF ListInv, Turn
<1> QED
  BY <1>1, <1>2, <1>3 DEF ListInv

LEMMA ContentsKept ==
  ASSUME ListInv, Tidied
  PROVE  Contents' = Contents
<1>1. HeapInv(heap) /\ HeapInv(heap')
  BY DEF ListInv, Tidied, Frame
<1>2. Contents = Holding(heap) /\ Contents' = Holding(heap')
  BY <1>1, ContentsHeld, ContentsHeldNext
<1> QED
  BY <1>2 DEF Tidied

\* The step of the map: no call takes effect, and one goes on.
LEMMA TurnIsStep ==
  ASSUME ListInv, Tidied, NEW t \in Threads, NEW l, NEW c, Turn(t, l, c),
         \/ Goes(call[t], c)
         \/ call[t] = None /\ \E op \in Map!Ops, k \in Keys : c = Map!Fresh(op, k)
  PROVE  Map!Next
<1>1. HeapInv(heap) /\ Contents = Holding(heap) /\ Contents' = Contents
      /\ Contents = [k \in Keys |-> Contents[k]]
  BY ContentsKept, ContentsHeld DEF ListInv, Contents
<1> DEFINE takes == [u \in {} |-> u]
<1>2. takes \in [{} -> Keys] /\ {} \in SUBSET Map!Untaken /\ DOMAIN takes = {}
  OBVIOUS
<1>3. Map!CanTake(takes) /\ Contents' = Map!Changed(takes)
  BY <1>1 DEF Map!CanTake, Map!Changed
<1>4. ASSUME NEW u \in Threads PROVE Map!Witnessed(u, takes) = call[u]
  <2>1. ThreadOK(heap, u, local[u], call[u])
    BY DEF ListInv
  <2>2. Watch(call[u], heap') = call[u]
    BY ZenonT(30), <1>1, <2>1, WatchSame DEF Tidied
  <2>3. Map!Witnessed(u, takes) = Watch(call[u], heap')
    BY <1>1, <1>2 DEF Map!Witnessed, Map!Open, Watch, Tidied
  <2> QED
    BY <2>2, <2>3
<1> HIDE DEF takes
<1>5. ASSUME NEW u \in Threads
      PROVE  LET now == Map!Witnessed(u, takes) IN
             \/ call'[u] = now
             \/ /\ call[u] = None
                /\ \E op \in Map!Ops, k \in Keys : call'[u] = Map!Fresh(op, k)
             \/ /\ Map!Open(u)
                /\ \E a \in Map!Values \cup {None} :
                     Map!Permitted(now, a) /\ call'[u] = [now EXCEPT !.answer = a]
  <2>1. CASE u # t
    BY <1>4, <2>1 DEF Turn, ListInv
  <2>2. CASE u = t
    <3>1. call'[u] = c
      BY <2>2 DEF Turn, ListInv
    <3>2. Active(call[u]) => Map!Open(u)
      BY NoCallAssumption DEF Active, Map!Open
    <3> QED
      BY <1>4, <2>2, <3>1, <3>2 DEF Goes
  <2> QED
    BY <2>1, <2>2
<1>6. Map!Step(takes)
  BY <1>3, <1>5 DEF Map!Step
<1> QED
  BY <1>2, <1>6 DEF Map!Next


-----------------------------------------------------------------------------
(* How a cursor moves *)

LEMMA BehindMoves ==
  ASSUME NEW H, HeapInv(H), NEW k \in Keys, NEW n, n # None, Behind(H, n, k)
  PROVE  /\ Behind(H, First(H, n), k) /\ n \in MadeIn(H) /\ n \in Nodes
         /\ H.key[n] \in Nat /\ Good(H, n)
<1>1. Good(H, n) /\ H.hash[H.key[n]] = H.hash[k] /\ n \in Nodes /\ n \in MadeIn(H)
      /\ H.key[n] \in Nat
  BY GoodNode DEF Behind
<1>2. MayLink(H, n, First(H, n))
  BY <1>1 DEF HeapInv, First
<1> QED
  BY <1>1, <1>2 DEF MayLink, Behind

LEMMA AheadMoves ==
  ASSUME NEW H, HeapInv(H), NEW c, c.key \in Keys, NEW n, n # None, Behind(H, n, c.key),
         Ahead(H, n, c), H.link[n].mark \/ H.key[n] # c.key
  PROVE  Ahead(H, First(H, n), c)
<1> SUFFICES ASSUME NEW m \in Chain(H, n), LiveIn(H, c.key, m)
             PROVE  m \in Chain(H, First(H, n))
  BY DEF Ahead
<1>1. n \in MadeIn(H) /\ m # n
  BY BehindMoves DEF LiveIn
<1> QED
  BY <1>1, ChainSplit

\* Past its key, or at a marked node with it, a call has seen the key absent.
LEMMA AheadEnds ==
  ASSUME NEW H, HeapInv(H), NEW c, c.key \in Keys, NEW n, Ahead(H, n, c),
         n # None => /\ Behind(H, n, c.key) /\ ~(H.key[n] < c.key)
                     /\ H.link[n].mark \/ H.key[n] # c.key
  PROVE  None \in c.seen
<1> SUFFICES ASSUME NEW m \in Chain(H, n), LiveIn(H, c.key, m)
             PROVE  FALSE
  BY DEF Ahead
<1>1. CASE n = None
  <2>1. Closed(H, {})
    BY DEF Closed
  <2>2. Chain(H, None) = {}
    BY <2>1, ChainLeast
  <2> QED
    BY <1>1, <2>2
<1>2. CASE n # None
  <2>1. n \in MadeIn(H) /\ H.key[n] \in Nat /\ c.key \in Nat /\ m # n /\ H.key[m] = c.key
    BY <1>2, BehindMoves, HarrisListAssumption DEF LiveIn
  <2>2. H.key[n] < H.key[m]
    BY <2>1, ChainAscends
  <2> QED
    BY <1>2, <2>1, <2>2
<1> QED
  BY <1>1, <1>2

LEMMA BridgeMoves ==
  ASSUME NEW H, HeapInv(H), NEW n, NEW m, Bridge(H, n, m), Good(H, m), H.link[m].mark
  PROVE  Bridge(H, n, First(H, m))
<1>1. PICK P \in SUBSET Nodes :
        /\ n \in P \cup {m}
        /\ \A x \in P : Good(H, x) /\ H.link[x].mark /\ First(H, x) \in P \cup {m}
  BY DEF Bridge
<1> DEFINE Q == P \cup {m}
<1>2. Q \in SUBSET Nodes
  BY GoodNode
<1>3. n \in Q \cup {First(H, m)}
  BY <1>1
<1>4. \A x \in Q : Good(H, x) /\ H.link[x].mark /\ First(H, x) \in Q \cup {First(H, m)}
  BY <1>1
<1> HIDE DEF Q
<1> QED
  BY <1>2, <1>3, <1>4 DEF Bridge

LEMMA BridgeSelf ==
  ASSUME NEW H, NEW n
  PROVE  Bridge(H, n, n)
<1>1. {} \in SUBSET Nodes
  OBVIOUS
<1> QED
  BY <1>1 DEF Bridge

\* A call has seen what is live.
LEMMA LiveSeen ==
  ASSUME NEW H, HeapInv(H), NEW t, NEW c, Watching(H, t, c), c.op # "pop",
         NEW n, Good(H, n), ~H.link[n].mark, H.key[n] = c.key
  PROVE  n \in c.seen
BY GoodLive DEF Watching, Map!Sight

LEMMA AheadStarts ==
  ASSUME NEW H, HeapInv(H), NEW t, NEW c, Watching(H, t, c), c.op # "pop"
  PROVE  /\ Behind(H, First(H, H.hash[c.key]), c.key)
         /\ Ahead(H, First(H, H.hash[c.key]), c)
<1>1. c.key \in Keys /\ Holding(H)[c.key] \in c.seen
  BY DEF Watching, Map!Sight, Active, Map!Calls
<1>2. H.hash[c.key] \in Heads
  BY <1>1, FirstMade
<1>3. MayLink(H, H.hash[c.key], First(H, H.hash[c.key]))
  BY <1>2 DEF HeapInv, First
<1>4. Behind(H, First(H, H.hash[c.key]), c.key)
  BY <1>2, <1>3 DEF MayLink, Behind
<1>5. Holding(H)[c.key] # None
        => \E m \in Chain(H, First(H, H.hash[c.key])) : LiveIn(H, c.key, m)
  BY <1>1, HoldingLive DEF LiveIn
<1> QED
  BY <1>1, <1>4, <1>5 DEF Ahead


-----------------------------------------------------------------------------
(* Actions that take no effect *)

\* Thread t goes on as it may, with the heap as it was.
TurnOK(t) ==
  \E l, c : Turn(t, l, c) /\ ThreadOK(heap, t, l, c) /\ Goes(call[t], c)

LEMMA StayTurn ==
  ASSUME ListInv, NEW t \in Threads, NEW l, local' = [local EXCEPT ![t] = l],
         UNCHANGED call, ThreadOK(heap, t, l, call[t])
  PROVE  TurnOK(t)
<1>1. call' = [call EXCEPT ![t] = call[t]]
  BY DEF ListInv
<1> QED
  BY <1>1 DEF TurnOK, Turn, Goes

LEMMA RetryTurn ==
  ASSUME ListInv, NEW t \in Threads, Retry(t), UNCHANGED call, Watching(heap, t, call[t])
  PROVE  TurnOK(t)
<1> DEFINE l == [pc |-> "start"]
<1>1. ThreadOK(heap, t, l, call[t])
  BY DEF ThreadOK, Searching
<1> HIDE DEF l
<1> QED
  BY <1>1, StayTurn DEF Retry, l

LEMMA AnswerTurn ==
  ASSUME ListInv, NEW t \in Threads, NEW a \in Nodes \cup {None}, Answer(t, a),
         Active(call[t]), Map!Permitted(call[t], a)
  PROVE  TurnOK(t)
<1> DEFINE c == [call[t] EXCEPT !.answer = a]
           l == [pc |-> "done"]
<1>1. a \in Map!Values \cup {None} /\ a # Pending
  BY HarrisListAssumption DEF Map!Values, Nodes
<1>2. c \in Map!Calls /\ c.answer # Pending
  BY <1>1 DEF Active, Map!Calls
<1>3. Goes(call[t], c)
  BY <1>1 DEF Goes
<1>4. Turn(t, l, c)
  BY DEF Answer, Turn
<1> HIDE DEF c
<1>5. ThreadOK(heap, t, l, c)
  BY <1>2 DEF ThreadOK
<1> HIDE DEF l
<1> QED
  BY <1>3, <1>4, <1>5 DEF TurnOK

LEMMA GoTurn ==
  ASSUME ListInv, NEW t \in Threads, NEW pc, NEW prev, NEW curr, NEW next,
         Go(t, pc, prev, curr, next), UNCHANGED call,
         Searching(heap, t, [pc |-> pc, prev |-> prev, curr |-> curr, next |-> next], call[t])
  PROVE  TurnOK(t)
<1> DEFINE l == [pc |-> pc, prev |-> prev, curr |-> curr, next |-> next]
<1>1. ThreadOK(heap, t, l, call[t])
  BY DEF ThreadOK
<1>2. local' = [local EXCEPT ![t] = l]
  BY DEF Go
<1> HIDE DEF l
<1> QED
  BY <1>1, <1>2, StayTurn

\* What the pc says of a thread.
LEMMA PcSays ==
  ASSUME ListInv, NEW t \in Threads
  PROVE  LET l == local[t] c == call[t] IN
         /\ l.pc \in {"start", "find", "clean", "help", "link", "load", "mark"}
              => Watching(heap, t, c) /\ c \in Map!Calls /\ c.key \in Keys /\ Active(c)
         /\ l.pc = "find" => AtFind(heap, l, c)
         /\ l.pc = "clean" => AtClean(heap, l, c)
         /\ l.pc = "help" => AtHelp(heap, l, c)
         /\ l.pc = "link" => AtLink(heap, l, c)
         /\ l.pc \in {"load", "mark"} => AtRemove(heap, l, c)
         /\ l.pc = "unlink" => AtUnlink(heap, l, c)
         /\ l.pc = "true" => Active(c) /\ c.op = "insert" /\ c.took = t
<1> DEFINE l == local[t] c == call[t]
<1>1. ThreadOK(heap, t, l, c)
  BY DEF ListInv
<1> HIDE DEF l, c
<1>2. l.pc \in {"start", "find", "clean", "help", "link", "load", "mark"}
        => Searching(heap, t, l, c)
  BY <1>1 DEF ThreadOK, AtUnlink
<1>3. Watching(heap, t, c) => c \in Map!Calls /\ c.key \in Keys /\ Active(c)
  BY DEF Watching, Active, Map!Calls
<1>4. Searching(heap, t, l, c)
        => /\ Watching(heap, t, c)
           /\ l.pc = "find" => AtFind(heap, l, c)
           /\ l.pc = "clean" => AtClean(heap, l, c)
           /\ l.pc = "help" => AtHelp(heap, l, c)
           /\ l.pc = "link" => AtLink(heap, l, c)
           /\ l.pc \in {"load", "mark"} => AtRemove(heap, l, c)
           /\ l.pc \notin {"unlink", "true"}
  BY DEF Searching, AtFind, AtClean, AtHelp, AtLink, AtRemove
<1>5. /\ l.pc = "unlink" => AtUnlink(heap, l, c)
      /\ l.pc = "true" => Active(c) /\ c.op = "insert" /\ c.took = t
  BY <1>1, <1>4 DEF ThreadOK, AtUnlink
<1> QED
  BY <1>2, <1>3, <1>4, <1>5 DEF l, c

LEMMA DecideTurn ==
  ASSUME ListInv, NEW t \in Threads, NEW prev, NEW curr, Decide(t, prev, curr),
         Watching(heap, t, call[t]), call[t].op # "pop", Before(heap, prev, call[t].key),
         Behind(heap, curr, call[t].key), Ended(heap, curr, call[t])
  PROVE  TurnOK(t)
<1> DEFINE c == call[t]
<1>0. /\ HeapInv(heap) /\ Active(c) /\ c.op \in {"get", "insert", "remove"} /\ c.key \in Keys
      /\ c.took = None /\ curr \in Nodes \cup {None}
  BY GoodNode DEF ListInv, Watching, Active, Map!Calls, Map!Ops, Behind
<1>1. /\ Hit(t, curr) => curr \in c.seen /\ curr # None
      /\ ~Hit(t, curr) => None \in c.seen
  BY DEF Hit, KeyOf, Ended
<1>2. CASE c.op = "get"
  <2> DEFINE a == IF Hit(t, curr) THEN curr ELSE None
  <2>1. Answer(t, a) /\ a \in Nodes \cup {None} /\ a \in c.seen
    BY <1>0, <1>1, <1>2 DEF Decide
  <2>2. Map!Permitted(c, a)
    BY <1>2, <2>1 DEF Map!Permitted
  <2> HIDE DEF a
  <2> QED
    BY <1>0, <2>1, <2>2, AnswerTurn
<1>3. CASE c.op # "get" /\ (Hit(t, curr) <=> c.op = "insert")
  <2>1. Answer(t, None)
    BY <1>3 DEF Decide
  <2>2. Map!Permitted(c, None)
    BY <1>0, <1>1, <1>3 DEF Map!Permitted
  <2> QED
    BY <1>0, <2>1, <2>2, AnswerTurn
<1>4. CASE c.op = "insert" /\ ~Hit(t, curr)
  <2> DEFINE l == [pc |-> "link", prev |-> prev, curr |-> curr, next |-> None]
  <2>1. Go(t, "link", prev, curr, None) /\ UNCHANGED call
    BY <1>4 DEF Decide
  <2>2. curr # None => c.key < heap.key[curr]
    <3>1. curr # None => heap.key[curr] \in Nat /\ c.key \in Nat
      BY <1>0, BehindMoves, HarrisListAssumption
    <3> QED
      BY <1>4, <3>1 DEF Hit, KeyOf, Ended
  <2>3. AtLink(heap, l, c)
    BY <1>4, <2>2 DEF AtLink
  <2>4. Searching(heap, t, l, c)
    BY <2>3 DEF Searching
  <2> QED
    BY <2>1, <2>4, GoTurn
<1>5. CASE c.op = "remove" /\ Hit(t, curr)
  <2> DEFINE l == [pc |-> "load", prev |-> prev, curr |-> curr, next |-> None]
  <2>1. Go(t, "load", prev, curr, None) /\ UNCHANGED call
    BY <1>5 DEF Decide
  <2>2. Good(heap, curr) /\ heap.key[curr] = c.key /\ prev \in Heads \cup Nodes
    BY <1>0, <1>5, BeforeNode DEF Hit, KeyOf, Behind
  <2>3. AtRemove(heap, l, c)
    BY <1>5, <2>2 DEF AtRemove
  <2>4. Searching(heap, t, l, c)
    BY <2>3 DEF Searching
  <2> QED
    BY <2>1, <2>4, GoTurn
<1> QED
  BY <1>0, <1>2, <1>3, <1>4, <1>5

LEMMA StartTurn ==
  ASSUME ListInv, NEW t \in Threads, Start(t)
  PROVE  TurnOK(t)
<1> DEFINE c == call[t]
           head == heap.hash[c.key]
           curr == heap.link[head].next
<1>0. /\ HeapInv(heap) /\ Watching(heap, t, c) /\ Active(c) /\ c.key \in Keys /\ c.took = None
      /\ head \in Heads
  BY PcSays, FirstMade DEF ListInv, Start, Watching
<1>1. CASE c.op # "pop"
  <2> DEFINE l == [pc |-> "find", prev |-> head, curr |-> curr, next |-> curr]
  <2>1. Go(t, "find", head, curr, curr) /\ UNCHANGED call
    BY <1>1 DEF Start
  <2>2. Behind(heap, curr, c.key) /\ Ahead(heap, curr, c) /\ Before(heap, head, c.key)
        /\ Bridge(heap, curr, curr)
    BY <1>0, <1>1, AheadStarts, BridgeSelf DEF First, Before
  <2>3. AtFind(heap, l, c)
    BY <1>1, <2>2 DEF AtFind
  <2>4. Searching(heap, t, l, c)
    BY <1>0, <2>3 DEF Searching
  <2> QED
    BY <2>1, <2>4, GoTurn
<1>2. CASE c.op = "pop" /\ curr = None
  <2>1. Answer(t, None)
    BY <1>2 DEF Start
  <2>2. \A k \in Keys : Holding(heap)[k] = None
    <3> SUFFICES ASSUME NEW k \in Keys, NEW n, LiveIn(heap, k, n) PROVE FALSE
      BY <1>0, HoldingNone
    <3>1. heap.hash[k] = head
      BY <1>0, <1>2 DEF Watching
    <3>2. Closed(heap, {})
      BY DEF Closed
    <3>3. Chain(heap, None) = {}
      BY <3>2, ChainLeast
    <3> QED
      BY <1>2, <3>1, <3>3 DEF LiveIn, First
  <2>3. None \in c.seen
    BY <1>0, <1>2, <2>2 DEF Watching, Map!Sight
  <2>4. Map!Permitted(c, None)
    BY <1>0, <1>2, <2>3 DEF Map!Permitted
  <2> QED
    BY <1>0, <2>1, <2>4, AnswerTurn
<1>3. CASE c.op = "pop" /\ curr # None
  <2> DEFINE l == [pc |-> "load", prev |-> head, curr |-> curr, next |-> None]
  <2>1. Go(t, "load", head, curr, None) /\ UNCHANGED call
    BY <1>3 DEF Start
  <2>2. Good(heap, curr)
    BY <1>0, <1>3 DEF HeapInv, MayLink
  <2>3. AtRemove(heap, l, c)
    BY <1>0, <1>3, <2>2 DEF AtRemove
  <2>4. Searching(heap, t, l, c)
    BY <1>0, <2>3 DEF Searching
  <2> QED
    BY <2>1, <2>4, GoTurn
<1> QED
  BY <1>1, <1>2, <1>3

LEMMA FindHarrisTurn ==
  ASSUME ListInv, NEW t \in Threads, FindHarris(t)
  PROVE  TurnOK(t)
<1> DEFINE c == call[t]
           l == local[t]
           link == heap.link[l.curr]
<1>0. /\ HeapInv(heap) /\ Watching(heap, t, c) /\ Active(c) /\ c.key \in Keys
      /\ c.op # "pop" /\ Behind(heap, l.curr, c.key) /\ Ahead(heap, l.curr, c)
      /\ FindOf(heap, c) = "harris"
      /\ Before(heap, l.prev, c.key) /\ Bridge(heap, l.next, l.curr)
  BY PcSays DEF ListInv, FindHarris, AtFind, Finds, FindOf
<1>1. CASE l.curr # None /\ link.mark
  <2> DEFINE m == [pc |-> "find", prev |-> l.prev, curr |-> link.next, next |-> l.next]
  <2>1. Go(t, "find", l.prev, link.next, l.next) /\ UNCHANGED call
    BY <1>1 DEF FindHarris
  <2>2. link.next = First(heap, l.curr) /\ Good(heap, l.curr)
    BY <1>0, <1>1 DEF First, Behind
  <2>3. /\ Behind(heap, link.next, c.key) /\ Ahead(heap, link.next, c)
        /\ Bridge(heap, l.next, link.next)
    BY <1>0, <1>1, <2>2, BehindMoves, AheadMoves, BridgeMoves
  <2>4. AtFind(heap, m, c)
    BY <1>0, <2>3 DEF AtFind
  <2>5. Searching(heap, t, m, c)
    BY <1>0, <2>4 DEF Searching
  <2> QED
    BY <2>1, <2>5, GoTurn
<1>2. CASE ~(l.curr # None /\ link.mark) /\ l.curr # None /\ KeyOf(l.curr) < c.key
  <2> DEFINE m == [pc |-> "find", prev |-> l.curr, curr |-> link.next, next |-> link.next]
  <2>1. Go(t, "find", l.curr, link.next, link.next) /\ UNCHANGED call
    BY <1>2 DEF FindHarris
  <2>2. /\ link.next = First(heap, l.curr) /\ heap.key[l.curr] # c.key
        /\ heap.key[l.curr] < c.key
    <3>1. heap.key[l.curr] \in Nat /\ c.key \in Nat
      BY <1>0, <1>2, BehindMoves, HarrisListAssumption
    <3> QED
      BY <1>2, <3>1 DEF First, KeyOf
  <2>3. /\ Behind(heap, link.next, c.key) /\ Ahead(heap, link.next, c)
        /\ Bridge(heap, link.next, link.next)
    BY <1>0, <1>2, <2>2, BehindMoves, AheadMoves, BridgeSelf
  <2>4. Before(heap, l.curr, c.key)
    BY <1>0, <1>2, <2>2 DEF Before, Behind
  <2>5. AtFind(heap, m, c)
    BY <1>0, <2>3, <2>4 DEF AtFind
  <2>6. Searching(heap, t, m, c)
    BY <1>0, <2>5 DEF Searching
  <2> QED
    BY <2>1, <2>6, GoTurn
<1>3. CASE /\ ~(l.curr # None /\ link.mark)
           /\ ~(l.curr # None /\ KeyOf(l.curr) < c.key)
  <2>1. Ended(heap, l.curr, c)
    <3>1. CASE l.curr # None /\ heap.key[l.curr] = c.key
      <4>1. l.curr \in c.seen
        BY <1>0, <1>3, <3>1, LiveSeen DEF Behind
      <4> QED
        BY <1>3, <3>1, <4>1 DEF Ended, KeyOf
    <3>2. CASE ~(l.curr # None /\ heap.key[l.curr] = c.key)
      <4>1. None \in c.seen
        BY <1>0, <1>3, <3>2, AheadEnds DEF KeyOf
      <4> QED
        BY <1>3, <3>2, <4>1 DEF Ended, KeyOf
    <3> QED
      BY <3>1, <3>2
  <2>2. CASE l.next # l.curr
    <3> DEFINE m == [pc |-> "clean", prev |-> l.prev, curr |-> l.curr, next |-> l.next]
    <3>1. Go(t, "clean", l.prev, l.curr, l.next) /\ UNCHANGED call
      BY <1>3, <2>2 DEF FindHarris
    <3>2. AtClean(heap, m, c)
      BY <1>0, <2>1 DEF AtClean
    <3>3. Searching(heap, t, m, c)
      BY <1>0, <3>2 DEF Searching
    <3> QED
      BY <3>1, <3>3, GoTurn
  <2>3. CASE l.next = l.curr
    <3>1. Decide(t, l.prev, l.curr)
      BY <1>3, <2>3 DEF FindHarris
    <3> QED
      BY <1>0, <2>1, <3>1, DecideTurn
  <2> QED
    BY <2>2, <2>3
<1> QED
  BY <1>1, <1>2, <1>3

LEMMA FindMichaelTurn ==
  ASSUME ListInv, NEW t \in Threads, FindMichael(t)
  PROVE  TurnOK(t)
<1> DEFINE c == call[t]
           l == local[t]
           link == heap.link[l.curr]
<1>0. /\ HeapInv(heap) /\ Watching(heap, t, c) /\ Active(c) /\ c.key \in Keys
      /\ c.op # "pop" /\ Behind(heap, l.curr, c.key) /\ Ahead(heap, l.curr, c)
      /\ FindOf(heap, c) = "michael" /\ Before(heap, l.prev, c.key)
  BY PcSays DEF ListInv, FindMichael, AtFind, Finds, FindOf
<1>1. CASE l.curr # None /\ link.mark
  <2> DEFINE m == [pc |-> "help", prev |-> l.prev, curr |-> l.curr, next |-> link.next]
  <2>1. Go(t, "help", l.prev, l.curr, link.next) /\ UNCHANGED call
    BY <1>1 DEF FindMichael
  <2>2. AtHelp(heap, m, c)
    BY <1>0, <1>1 DEF AtHelp, First
  <2>3. Searching(heap, t, m, c)
    BY <1>0, <2>2 DEF Searching
  <2> QED
    BY <2>1, <2>3, GoTurn
<1>2. CASE ~(l.curr # None /\ link.mark) /\ l.curr # None /\ KeyOf(l.curr) < c.key
  <2> DEFINE m == [pc |-> "find", prev |-> l.curr, curr |-> link.next, next |-> None]
  <2>1. Go(t, "find", l.curr, link.next, None) /\ UNCHANGED call
    BY <1>2 DEF FindMichael
  <2>2. /\ link.next = First(heap, l.curr) /\ heap.key[l.curr] # c.key
        /\ heap.key[l.curr] < c.key
    <3>1. heap.key[l.curr] \in Nat /\ c.key \in Nat
      BY <1>0, <1>2, BehindMoves, HarrisListAssumption
    <3> QED
      BY <1>2, <3>1 DEF First, KeyOf
  <2>3. Behind(heap, link.next, c.key) /\ Ahead(heap, link.next, c)
    BY <1>0, <1>2, <2>2, BehindMoves, AheadMoves
  <2>4. Before(heap, l.curr, c.key)
    BY <1>0, <1>2, <2>2 DEF Before, Behind
  <2>5. AtFind(heap, m, c)
    BY <1>0, <2>3, <2>4 DEF AtFind
  <2>6. Searching(heap, t, m, c)
    BY <1>0, <2>5 DEF Searching
  <2> QED
    BY <2>1, <2>6, GoTurn
<1>3. CASE /\ ~(l.curr # None /\ link.mark)
           /\ ~(l.curr # None /\ KeyOf(l.curr) < c.key)
  <2>1. Ended(heap, l.curr, c)
    <3>1. CASE l.curr # None /\ heap.key[l.curr] = c.key
      <4>1. l.curr \in c.seen
        BY <1>0, <1>3, <3>1, LiveSeen DEF Behind
      <4> QED
        BY <1>3, <3>1, <4>1 DEF Ended, KeyOf
    <3>2. CASE ~(l.curr # None /\ heap.key[l.curr] = c.key)
      <4>1. None \in c.seen
        BY <1>0, <1>3, <3>2, AheadEnds DEF KeyOf
      <4> QED
        BY <1>3, <3>2, <4>1 DEF Ended, KeyOf
    <3> QED
      BY <3>1, <3>2
  <2>2. Decide(t, l.prev, l.curr)
    BY <1>3 DEF FindMichael
  <2> QED
    BY <1>0, <2>1, <2>2, DecideTurn
<1> QED
  BY <1>1, <1>2, <1>3

LEMMA FindShavitTurn ==
  ASSUME ListInv, NEW t \in Threads, FindShavit(t)
  PROVE  TurnOK(t)
<1> DEFINE c == call[t]
           l == local[t]
           link == heap.link[l.curr]
<1>0. /\ HeapInv(heap) /\ Watching(heap, t, c) /\ Active(c) /\ c.key \in Keys
      /\ c.op = "get" /\ Behind(heap, l.curr, c.key) /\ Ahead(heap, l.curr, c)
      /\ FindOf(heap, c) = "shavit" /\ l.curr \in Nodes \cup {None}
  BY PcSays, GoodNode DEF ListInv, FindShavit, AtFind, Finds, FindOf, Behind
<1>1. CASE l.curr # None /\ KeyOf(l.curr) < c.key
  <2> DEFINE m == [pc |-> "find", prev |-> None, curr |-> link.next, next |-> None]
  <2>1. Go(t, "find", None, link.next, None) /\ UNCHANGED call
    BY <1>1 DEF FindShavit
  <2>2. link.next = First(heap, l.curr) /\ heap.key[l.curr] # c.key
    <3>1. heap.key[l.curr] \in Nat /\ c.key \in Nat
      BY <1>0, <1>1, BehindMoves, HarrisListAssumption
    <3> QED
      BY <1>1, <3>1 DEF First, KeyOf
  <2>3. Behind(heap, link.next, c.key) /\ Ahead(heap, link.next, c)
    BY <1>0, <1>1, <2>2, BehindMoves, AheadMoves
  <2>4. AtFind(heap, m, c)
    BY <1>0, <2>3 DEF AtFind
  <2>5. Searching(heap, t, m, c)
    BY <1>0, <2>4 DEF Searching
  <2> QED
    BY <2>1, <2>5, GoTurn
<1>2. CASE ~(l.curr # None /\ KeyOf(l.curr) < c.key)
  <2> DEFINE a == IF Hit(t, l.curr) /\ ~link.mark THEN l.curr ELSE None
  <2>1. Answer(t, a) /\ a \in Nodes \cup {None}
    BY <1>0, <1>2 DEF FindShavit
  <2>2. a \in c.seen
    <3>1. CASE Hit(t, l.curr) /\ ~link.mark
      BY <1>0, <3>1, LiveSeen DEF Behind, Hit, KeyOf
    <3>2. CASE ~(Hit(t, l.curr) /\ ~link.mark)
      BY <1>0, <1>2, <3>2, AheadEnds DEF Hit, KeyOf
    <3> QED
      BY <3>1, <3>2
  <2>3. Map!Permitted(c, a)
    BY <1>0, <2>2 DEF Map!Permitted
  <2> HIDE DEF a
  <2> QED
    BY <1>0, <2>1, <2>3, AnswerTurn
<1> QED
  BY <1>1, <1>2

LEMMA LoadTurn ==
  ASSUME ListInv, NEW t \in Threads, Load(t)
  PROVE  TurnOK(t)
<1> DEFINE c == call[t]
           l == local[t]
           m == [pc |-> "mark", prev |-> l.prev, curr |-> l.curr,
                 next |-> heap.link[l.curr].next]
<1>1. Watching(heap, t, c) /\ AtRemove(heap, l, c)
  BY PcSays DEF Load
<1>2. Go(t, "mark", l.prev, l.curr, heap.link[l.curr].next) /\ UNCHANGED call
  BY DEF Load
<1>3. AtRemove(heap, m, c)
  BY <1>1 DEF AtRemove
<1>4. Searching(heap, t, m, c)
  BY <1>1, <1>3 DEF Searching
<1> QED
  BY <1>2, <1>4, GoTurn

LEMMA ReturnTurn ==
  ASSUME ListInv, NEW t \in Threads, Return(t)
  PROVE  TurnOK(t)
<1>1. Active(call[t]) /\ call[t].op = "insert" /\ call[t].took = t
  BY PcSays DEF Return
<1>2. t \in Nodes \cup {None} /\ t # None
  BY HarrisListAssumption DEF Nodes
<1>3. Map!Permitted(call[t], t)
  BY <1>1, <1>2 DEF Map!Permitted
<1> QED
  BY <1>1, <1>2, <1>3, AnswerTurn DEF Return

\* A successful compare and exchange of a link that is not marked.
LEMMA Stored ==
  ASSUME ListInv, NEW n \in Heads \cup Nodes, NEW m, Succeeds(n, Link(m, FALSE)),
         NEW next \in Nodes \cup {None}, NEW mark \in BOOLEAN, Store(n, Link(next, mark))
  PROVE  /\ Relinked(heap, heap', n, Link(next, mark))
         /\ heap.link[n] = Link(m, FALSE) /\ First(heap, n) = m /\ ~heap.link[n].mark
<1>1. heap \in Heaps
  BY DEF ListInv, HeapInv
<1>2. heap' = [heap EXCEPT !.link[n] = Link(next, mark)]
  BY DEF Store
<1>3. heap.link[n] = Link(m, FALSE)
  BY DEF Succeeds
<1> QED
  BY <1>1, <1>2, <1>3, Relinking DEF First, Link

\* Marked nodes are unlinked.
LEMMA Skipped ==
  ASSUME ListInv, NEW p \in Heads \cup Nodes, NEW n, Succeeds(p, Link(n, FALSE)),
         NEW c, Bridge(heap, n, c), MayLink(heap, p, c), Store(p, Link(c, FALSE))
  PROVE  Tidied
<1>1. HeapInv(heap) /\ c \in Nodes \cup {None}
  BY GoodNode DEF ListInv, MayLink
<1>2. Relinked(heap, heap', p, Link(c, FALSE)) /\ heap.link[p] = Link(n, FALSE)
  BY <1>1, Stored
<1>3. Frame(heap, heap') /\ Holding(heap') = Holding(heap)
  BY <1>1, <1>2, SkipStep
<1>4. heap'.key = heap.key
  BY <1>2 DEF Relinked
<1> QED
  BY <1>3, <1>4 DEF Tidied

LEMMA CleanTurn ==
  ASSUME ListInv, NEW t \in Threads, Clean(t)
  PROVE  Tidied /\ TurnOK(t)
<1> DEFINE c == call[t]
           l == local[t]
<1>0. /\ HeapInv(heap) /\ Watching(heap, t, c) /\ c.key \in Keys
      /\ c.op # "pop" /\ Before(heap, l.prev, c.key) /\ Behind(heap, l.curr, c.key)
      /\ Bridge(heap, l.next, l.curr) /\ Ended(heap, l.curr, c)
  BY PcSays DEF ListInv, Clean, AtClean
<1>1. CASE Succeeds(l.prev, Link(l.next, FALSE))
  <2>1. Store(l.prev, Link(l.curr, FALSE)) /\ Decide(t, l.prev, l.curr)
    BY <1>1 DEF Clean
  <2>2. l.prev \in Heads \cup Nodes /\ MayLink(heap, l.prev, l.curr)
    <3> SUFFICES ASSUME l.curr # None PROVE MayLink(heap, l.prev, l.curr)
      BY <1>0, BeforeNode DEF MayLink
    <3>1. Good(heap, l.curr) /\ heap.hash[heap.key[l.curr]] = heap.hash[c.key]
          /\ heap.key[l.curr] \in Nat /\ c.key \in Nat /\ ~(heap.key[l.curr] < c.key)
      BY <1>0, BehindMoves, HarrisListAssumption DEF Behind, Ended
    <3>2. l.prev \in Heads => l.prev = heap.hash[c.key]
      BY <1>0, BeforeNode
    <3>3. l.prev \in Nodes
            => /\ heap.key[l.prev] \in Keys /\ heap.key[l.prev] < heap.key[l.curr]
               /\ heap.hash[heap.key[l.prev]] = heap.hash[heap.key[l.curr]]
      <4>1. l.prev \in Nodes
              => /\ heap.key[l.prev] \in Keys /\ heap.key[l.prev] \in Nat
                 /\ heap.key[l.prev] < c.key
                 /\ heap.hash[heap.key[l.prev]] = heap.hash[c.key]
        BY <1>0, BeforeNode, GoodNode
      <4> QED
        BY <3>1, <4>1
    <3> QED
      BY <3>1, <3>2, <3>3 DEF MayLink
  <2>3. Tidied
    BY <1>0, <1>1, <2>1, <2>2, Skipped
  <2> QED
    BY <1>0, <2>1, <2>3, DecideTurn
<1>2. CASE ~Succeeds(l.prev, Link(l.next, FALSE))
  BY <1>0, <1>2, RetryTurn, TidySame DEF Clean
<1> QED
  BY <1>1, <1>2

\* A link that leads to a marked node may lead to the one after it.
LEMMA LinkPast ==
  ASSUME NEW H, HeapInv(H), NEW p \in Heads \cup Nodes, NEW n, n # None, First(H, p) = n,
         H.link[n].mark
  PROVE  /\ MayLink(H, p, First(H, n))
         /\ Bridge(H, n, First(H, n))
<1>1. MayLink(H, p, n) /\ Good(H, n) /\ n \in Nodes
  BY GoodNode DEF HeapInv, First, MayLink
<1>2. MayLink(H, n, First(H, n))
  BY <1>1 DEF HeapInv, First
<1>3. Bridge(H, n, First(H, n))
  BY <1>1, BridgeSelf, BridgeMoves
<1>4. MayLink(H, p, First(H, n))
  <2> SUFFICES ASSUME First(H, n) # None PROVE MayLink(H, p, First(H, n))
    BY DEF MayLink
  <2>1. /\ Good(H, First(H, n)) /\ H.key[n] < H.key[First(H, n)]
        /\ H.hash[H.key[n]] = H.hash[H.key[First(H, n)]] /\ H.key[n] \in Nat
        /\ H.key[First(H, n)] \in Nat
    BY <1>1, <1>2, GoodNode DEF MayLink
  <2>2. p \in Nodes => H.key[p] \in Keys /\ H.key[p] \in Nat /\ H.key[p] < H.key[n]
                       /\ H.hash[H.key[p]] = H.hash[H.key[n]]
    BY <1>1, GoodNode, HarrisListAssumption DEF MayLink
  <2>3. p \in Heads => H.hash[H.key[n]] = p
    BY <1>1, GoodNode DEF MayLink
  <2>4. p \in Nodes => H.key[p] < H.key[First(H, n)]
    BY <2>1, <2>2
  <2> QED
    BY <2>1, <2>2, <2>3, <2>4 DEF MayLink
<1> QED
  BY <1>3, <1>4

LEMMA HelpTurn ==
  ASSUME ListInv, NEW t \in Threads, Help(t)
  PROVE  Tidied /\ TurnOK(t)
<1> DEFINE c == call[t]
           l == local[t]
<1>0. /\ HeapInv(heap) /\ Watching(heap, t, c) /\ c.key \in Keys
      /\ c.op # "pop" /\ FindOf(heap, c) = "michael" /\ Before(heap, l.prev, c.key)
      /\ l.curr # None /\ Behind(heap, l.curr, c.key) /\ Ahead(heap, l.curr, c)
      /\ heap.link[l.curr].mark /\ First(heap, l.curr) = l.next
  BY PcSays DEF ListInv, Help, AtHelp
<1>1. CASE Succeeds(l.prev, Link(l.curr, FALSE))
  <2> DEFINE m == [pc |-> "find", prev |-> l.prev, curr |-> l.next, next |-> None]
  <2>1. /\ Store(l.prev, Link(l.next, FALSE)) /\ Go(t, "find", l.prev, l.next, None)
        /\ UNCHANGED call
    BY <1>1 DEF Help
  <2>2. l.prev \in Heads \cup Nodes /\ First(heap, l.prev) = l.curr
    BY <1>0, <1>1, BeforeNode DEF Succeeds, First, Link
  <2>3. MayLink(heap, l.prev, l.next) /\ Bridge(heap, l.curr, l.next)
    BY <1>0, <2>2, LinkPast
  <2>4. Tidied
    BY <1>1, <2>1, <2>2, <2>3, Skipped
  <2>5. Behind(heap, l.next, c.key) /\ Ahead(heap, l.next, c)
    BY <1>0, BehindMoves, AheadMoves
  <2>6. AtFind(heap, m, c)
    BY <1>0, <2>5 DEF AtFind
  <2>7. Searching(heap, t, m, c)
    BY <1>0, <2>6 DEF Searching
  <2> QED
    BY <2>1, <2>4, <2>7, GoTurn
<1>2. CASE ~Succeeds(l.prev, Link(l.curr, FALSE))
  BY <1>0, <1>2, RetryTurn, TidySame DEF Help
<1> QED
  BY <1>1, <1>2

LEMMA UnlinkTurn ==
  ASSUME ListInv, NEW t \in Threads, Unlink(t)
  PROVE  Tidied /\ TurnOK(t)
<1> DEFINE c == call[t]
           l == local[t]
<1>0. /\ HeapInv(heap) /\ Active(c) /\ c.op \in {"remove", "pop"} /\ c.took = l.curr
      /\ l.prev \in Heads \cup Nodes /\ Good(heap, l.curr) /\ l.curr # None /\ l.curr \in Nodes
      /\ heap.link[l.curr].mark /\ First(heap, l.curr) = l.next
  BY PcSays, GoodNode DEF ListInv, Unlink, AtUnlink
<1>1. Answer(t, l.curr)
  BY DEF Unlink
<1>2. Map!Permitted(c, l.curr)
  BY <1>0 DEF Map!Permitted
<1>3. TurnOK(t)
  BY <1>0, <1>1, <1>2, AnswerTurn
<1>4. CASE Succeeds(l.prev, Link(l.curr, FALSE))
  <2>1. Store(l.prev, Link(l.next, FALSE))
    BY <1>4 DEF Unlink
  <2>2. First(heap, l.prev) = l.curr
    BY <1>4 DEF Succeeds, First, Link
  <2>3. MayLink(heap, l.prev, l.next) /\ Bridge(heap, l.curr, l.next)
    BY <1>0, <2>2, LinkPast
  <2>4. Tidied
    BY <1>0, <1>4, <2>1, <2>3, Skipped
  <2> QED
    BY <1>3, <2>4
<1>5. CASE ~Succeeds(l.prev, Link(l.curr, FALSE))
  BY <1>3, <1>5, TidySame DEF Unlink
<1> QED
  BY <1>4, <1>5


LEMMA BeginTurn ==
  ASSUME ListInv, NEW t \in Threads, Begin(t)
  PROVE  /\ Tidied
         /\ \E l, c : /\ Turn(t, l, c) /\ ThreadOK(heap, t, l, c)
                      /\ call[t] = None /\ \E op \in Map!Ops, k \in Keys : c = Map!Fresh(op, k)
<1>1. HeapInv(heap) /\ Contents = Holding(heap) /\ heap.key[t] = None /\ OneBucket
  <2>1. ThreadOK(heap, t, local[t], call[t]) /\ call[t] = None
    BY DEF ListInv, Begin
  <2> QED
    BY <2>1, ContentsHeld, NoCallAssumption
    DEF ListInv, ThreadOK, AtUnlink, Searching, Watching, Active
<1>2. PICK op \in Map!Ops, k \in Keys :
        /\ op = "pop" => heap.kind = "shavit" /\ \A l \in Keys : k <= l
        /\ call' = [call EXCEPT ![t] = Map!Fresh(op, k)]
  BY DEF Begin
<1> DEFINE c == Map!Fresh(op, k)
           l == [pc |-> "start"]
<1>3. Turn(t, l, c)
  BY <1>2 DEF Begin, Retry, Turn
<1>4. Map!Sight(op, k, Holding(heap)) \in SUBSET (Map!Values \cup {None})
  BY <1>1, HoldingLive DEF Map!Sight, Map!Values, Nodes
<1>5. c = [op |-> op, key |-> k, seen |-> Map!Sight(op, k, Holding(heap)), took |-> None,
           answer |-> Pending]
  BY <1>1 DEF Map!Fresh
<1>6. c \in Map!Calls
  BY <1>4, <1>5 DEF Map!Calls
<1> HIDE DEF c
<1>7. op = "pop" => \A j \in Keys : heap.hash[j] = heap.hash[k]
  BY <1>1, <1>2 DEF OneBucket
<1>8. Watching(heap, t, c)
  BY <1>1, <1>5, <1>6, <1>7 DEF Watching, Active
<1>9. ThreadOK(heap, t, l, c)
  BY <1>8 DEF ThreadOK, Searching
<1>10. Tidied
  BY TidySame DEF Begin
<1>11. call[t] = None /\ c = Map!Fresh(op, k)
  BY DEF Begin, c
<1> HIDE DEF l
<1> QED
  BY <1>3, <1>9, <1>10, <1>11

-----------------------------------------------------------------------------
(* Steps in which a call takes effect *)

\* The call of t takes effect on key k, and t goes to l.
LEMMA EffectIsStep ==
  ASSUME ListInv, NEW t \in Threads, NEW k \in Keys, NEW l,
         LET c == call[t] IN
         /\ Watching(heap, t, c) /\ c.op # "get" /\ (c.op # "pop" => k = c.key)
         /\ (Holding(heap)[k] = None) <=> (c.op = "insert")
         /\ HoldsBut(heap, heap', k, IF c.op = "insert" THEN t ELSE None)
         /\ ThreadOK(heap', t, l, [c EXCEPT !.took = IF c.op = "insert" THEN t
                                                     ELSE Holding(heap)[k]]),
         Frame(heap, heap'), \A u \in Threads \ {t} : heap'.key[u] = heap.key[u],
         local' = [local EXCEPT ![t] = l], Effect(t, k)
  PROVE  ListInv' /\ Map!Next
<1> DEFINE takes == [w \in {t} |-> k]
           c == call[t]
           d == [c EXCEPT !.took = IF c.op = "insert" THEN t ELSE Holding(heap)[k]]
<1>1. HeapInv(heap) /\ HeapInv(heap') /\ OneBucket'
  BY DEF ListInv, Frame, Keeps, OneBucket
<1>2. Contents = Holding(heap) /\ Contents' = Holding(heap')
  BY <1>1, ContentsHeld, ContentsHeldNext
<1>3. /\ DOMAIN takes = {t} /\ takes[t] = k /\ takes \in [{t} -> Keys]
      /\ call' = [u \in Threads |-> Map!Witnessed(u, takes)]
  BY DEF Effect
<1>4. c # None /\ c.answer = Pending /\ c.took = None
  BY NoCallAssumption DEF Watching, Active
<1> HIDE DEF takes
<1>5. t \in Map!Untaken
  BY <1>4 DEF Map!Untaken, Map!Open
<1>6. Map!CanTake(takes)
  BY <1>2, <1>3 DEF Map!CanTake
<1>7. Contents' = Map!Changed(takes)
  <2>1. ASSUME NEW j \in Keys
        PROVE  Holding(heap')[j]
                 = IF \E w \in DOMAIN takes : takes[w] = j
                   THEN LET w == CHOOSE w \in DOMAIN takes : takes[w] = j
                        IN IF call[w].op = "insert" THEN w ELSE None
                   ELSE Contents[j]
    <3>1. CASE j = k
      <4>1. \A w \in DOMAIN takes : w = t
        BY <1>3
      <4>2. t \in DOMAIN takes /\ takes[t] = j
        BY <1>3, <3>1
      <4>3. (CHOOSE w \in DOMAIN takes : takes[w] = j) = t
        BY <4>1, <4>2
      <4> QED
        BY <3>1, <4>2, <4>3 DEF HoldsBut
    <3>2. CASE j # k
      BY <1>2, <1>3, <3>2 DEF HoldsBut
    <3> QED
      BY <3>1, <3>2
  <2>2. Contents' = [j \in Keys |-> Holding(heap')[j]]
    BY <1>2 DEF Holding
  <2> QED
    BY <2>1, <2>2 DEF Map!Changed
<1>8. \A u \in Threads : call'[u] = Map!Witnessed(u, takes)
  BY <1>3
<1>9. Map!Step(takes)
  BY <1>6, <1>7, <1>8 DEF Map!Step
<1>10. Map!Next
  BY <1>3, <1>5, <1>9 DEF Map!Next
<1>11. call'[t] = d
  BY <1>2, <1>3, <1>4, <1>8 DEF Map!Witnessed, Map!Open
<1>12. ASSUME NEW u \in Threads, u # t PROVE call'[u] = Watch(call[u], heap')
  BY <1>2, <1>3, <1>8, <1>12 DEF Map!Witnessed, Map!Open, Watch
<1> HIDE DEF d
<1>13. ASSUME NEW u \in Threads
       PROVE  ThreadOK(heap', u, local'[u], call'[u])
  <2>1. CASE u = t
    BY <1>11, <2>1 DEF ListInv, d
  <2>2. CASE u # t
    <3>1. ThreadOK(heap, u, local[u], call[u]) /\ local'[u] = local[u]
      BY <2>2 DEF ListInv
    <3>2. heap'.key[u] = heap.key[u]
      BY <2>2
    <3>3. ThreadOK(heap', u, local[u], Watch(call[u], heap'))
      BY <1>1, <3>1, <3>2, ThreadKeeps
    <3> QED
      BY <1>12, <2>2, <3>1, <3>3
  <2> QED
    BY <2>1, <2>2
<1>14. local' = [u \in Threads |-> local'[u]] /\ call' = [u \in Threads |-> call'[u]]
  BY <1>3 DEF ListInv
<1> QED
  BY <1>1, <1>10, <1>13, <1>14 DEF ListInv

LEMMA InsertTakes ==
  ASSUME ListInv, NEW t \in Threads, Insert(t)
  PROVE  ListInv' /\ Map!Next
<1> DEFINE c == call[t]
           l == local[t]
           k == c.key
           m == [pc |-> "true"]
           d == [c EXCEPT !.took = IF c.op = "insert" THEN t ELSE Holding(heap)[k]]
<1>0. /\ HeapInv(heap) /\ heap \in Heaps /\ Watching(heap, t, c) /\ k \in Keys
      /\ c \in Map!Calls /\ c.answer = Pending /\ heap.key[t] = None
      /\ c.op = "insert" /\ Before(heap, l.prev, k) /\ Behind(heap, l.curr, k)
      /\ l.curr # None => k < heap.key[l.curr]
  BY PcSays DEF ListInv, HeapInv, Insert, AtLink, Watching, Active
<1>1. CASE ~Succeeds(l.prev, Link(l.curr, FALSE))
  <2>1. Tidied /\ TurnOK(t)
    BY <1>0, <1>1, RetryTurn, TidySame DEF Insert
  <2>2. PICK l2, c2 : Turn(t, l2, c2) /\ ThreadOK(heap, t, l2, c2) /\ Goes(call[t], c2)
    BY <2>1 DEF TurnOK
  <2> QED
    BY <2>1, <2>2, TurnKeeps, TurnIsStep
<1>2. CASE Succeeds(l.prev, Link(l.curr, FALSE))
  <2>1. /\ heap' = [heap EXCEPT !.key[t] = k, !.link[t] = Link(l.curr, FALSE),
                                !.link[l.prev] = Link(t, FALSE)]
        /\ Effect(t, k) /\ local' = [local EXCEPT ![t] = m]
    BY <1>2 DEF Insert
  <2>2. heap.link[l.prev] = Link(l.curr, FALSE)
    BY <1>2 DEF Succeeds
  <2>3. /\ t \in Nodes /\ t \notin Heads /\ l.prev \in Heads \cup Nodes
        /\ l.curr \in Nodes \cup {None} /\ l.prev # t
    <3>1. t \in Nodes /\ t \notin Heads
      BY HarrisListAssumption DEF Nodes
    <3>2. l.curr \in Nodes \cup {None}
      BY <1>0, GoodNode DEF Behind
    <3>3. l.prev \in Heads \cup Nodes /\ (l.prev \in Nodes => l.prev \in MadeIn(heap))
      BY <1>0, BeforeNode
    <3> QED
      BY <1>0, <3>1, <3>2, <3>3 DEF MadeIn
  <2>4. Inserted(heap, heap', t, k, l.prev, l.curr)
    <3>1. heap' \in Heaps /\ heap'.kind = heap.kind /\ heap'.hash = heap.hash
      BY <1>0, <2>1, <2>3 DEF Heaps, Link
    <3>2. heap'.key[t] = k /\ \A n \in Nodes \ {t} : heap'.key[n] = heap.key[n]
      BY <1>0, <2>1, <2>3 DEF Heaps
    <3>3. /\ heap'.link[t] = Link(l.curr, FALSE) /\ heap'.link[l.prev] = Link(t, FALSE)
          /\ \A n \in (Heads \cup Nodes) \ {l.prev, t} : heap'.link[n] = heap.link[n]
      BY <1>0, <2>1, <2>3 DEF Heaps
    <3> QED
      BY <3>1, <3>2, <3>3 DEF Inserted
  <2>5. /\ Frame(heap, heap') /\ Holding(heap)[k] = None
        /\ HoldsBut(heap, heap', k, t)
    BY <1>0, <2>2, <2>4, InsertStep
  <2>6. \A u \in Threads \ {t} : heap'.key[u] = heap.key[u]
    BY <2>4 DEF Inserted, Nodes
  <2>7. ThreadOK(heap', t, m, d)
    <3>1. t \in Map!Values
      BY DEF Map!Values
    <3>2. d \in Map!Calls /\ d.answer = Pending /\ d.op = "insert" /\ d.took = t
      BY <1>0, <3>1 DEF Map!Calls
    <3> HIDE DEF d
    <3> QED
      BY <3>2 DEF ThreadOK, Active
  <2>8. HoldsBut(heap, heap', k, IF c.op = "insert" THEN t ELSE None)
    BY <1>0, <2>5
  <2> HIDE DEF m
  <2> QED
    BY <1>0, <2>1, <2>5, <2>6, <2>7, <2>8, EffectIsStep
<1> QED
  BY <1>1, <1>2

LEMMA MarkTakes ==
  ASSUME ListInv, NEW t \in Threads, Mark(t)
  PROVE  ListInv' /\ Map!Next
<1> DEFINE c == call[t]
           l == local[t]
           k == heap.key[l.curr]
           m == [pc |-> "unlink", prev |-> l.prev, curr |-> l.curr, next |-> l.next]
           d == [c EXCEPT !.took = IF c.op = "insert" THEN t ELSE Holding(heap)[k]]
<1>0. /\ HeapInv(heap) /\ Watching(heap, t, c) /\ c \in Map!Calls /\ c.answer = Pending
      /\ c.op \in {"remove", "pop"} /\ l.prev \in Heads \cup Nodes /\ Good(heap, l.curr)
      /\ c.op = "remove" => k = c.key
  BY PcSays DEF ListInv, Mark, AtRemove, Watching, Active
<1>1. CASE ~Succeeds(l.curr, Link(l.next, FALSE))
  <2>1. Tidied /\ TurnOK(t)
    BY <1>0, <1>1, RetryTurn, TidySame DEF Mark
  <2>2. PICK l2, c2 : Turn(t, l2, c2) /\ ThreadOK(heap, t, l2, c2) /\ Goes(call[t], c2)
    BY <2>1 DEF TurnOK
  <2> QED
    BY <2>1, <2>2, TurnKeeps, TurnIsStep
<1>2. CASE Succeeds(l.curr, Link(l.next, FALSE))
  <2>1. /\ Store(l.curr, Link(l.next, TRUE)) /\ Effect(t, k)
        /\ Go(t, "unlink", l.prev, l.curr, l.next)
    BY <1>2 DEF Mark, KeyOf
  <2>2. heap.link[l.curr] = Link(l.next, FALSE)
    BY <1>2 DEF Succeeds
  <2>3. /\ l.curr \in Nodes /\ l.curr # None /\ k \in Keys /\ ~heap.link[l.curr].mark
        /\ l.next \in Nodes \cup {None}
    BY <1>0, <2>2, GoodNode, LinkType DEF HeapInv, Link
  <2>4. Relinked(heap, heap', l.curr, Link(l.next, TRUE))
    BY <1>2, <2>1, <2>3, Stored
  <2>5. /\ Frame(heap, heap')
        /\ HoldsBut(heap, heap', k, None)
    BY <1>0, <2>2, <2>4, MarkStep
  <2>6. Holding(heap)[k] = l.curr
    BY <1>0, <2>3, GoodLive
  <2>7. \A u \in Threads \ {t} : heap'.key[u] = heap.key[u]
    BY <2>4 DEF Relinked
  <2>8. ThreadOK(heap', t, m, d)
    <3>1. l.curr \in Map!Values
      BY <2>3 DEF Map!Values, Nodes
    <3>2. d \in Map!Calls /\ d.answer = Pending /\ d.op \in {"remove", "pop"} /\ d.took = l.curr
      BY <1>0, <2>6, <3>1 DEF Map!Calls
    <3>3. heap'.link[l.curr] = Link(l.next, TRUE)
      BY <2>4 DEF Relinked
    <3>4. Good(heap', l.curr) /\ heap'.link[l.curr].mark /\ First(heap', l.curr) = l.next
      BY <1>0, <2>5, <3>3 DEF Frame, Keeps, First, Link
    <3> HIDE DEF d
    <3> QED
      BY <1>0, <3>2, <3>4 DEF ThreadOK, AtUnlink, Active
  <2>9. HoldsBut(heap, heap', k, IF c.op = "insert" THEN t ELSE None)
    BY <1>0, <2>5
  <2>10. /\ c.op # "get" /\ (c.op # "pop" => k = c.key)
         /\ (Holding(heap)[k] = None) <=> (c.op = "insert")
    BY <1>0, <2>3, <2>6
  <2>11. local' = [local EXCEPT ![t] = m]
    BY <2>1 DEF Go
  <2> HIDE DEF m
  <2> QED
    BY <1>0, <2>1, <2>3, <2>5, <2>7, <2>8, <2>9, <2>10, <2>11, EffectIsStep
<1> QED
  BY <1>1, <1>2

-----------------------------------------------------------------------------
(* The step and the start *)

\* Every step keeps the invariant and is a step of the map.
LEMMA StepIsStep ==
  ASSUME ListInv, Next
  PROVE  ListInv' /\ Map!Next
<1>1. PICK t \in Threads : Begin(t) \/ Access(t)
  BY DEF Next
<1>2. CASE Begin(t)
  BY <1>2, BeginTurn, TurnKeeps, TurnIsStep
<1>3. ASSUME Tidied, TurnOK(t) PROVE ListInv' /\ Map!Next
  BY <1>3, TurnKeeps, TurnIsStep DEF TurnOK
<1>4. CASE Start(t) \/ FindHarris(t) \/ FindMichael(t) \/ FindShavit(t) \/ Load(t) \/ Return(t)
  <2>1. UNCHANGED heap
    BY <1>4 DEF Start, FindHarris, FindMichael, FindShavit, Load, Return
  <2> QED
    BY <1>3, <1>4, <2>1, TidySame, StartTurn, FindHarrisTurn, FindMichaelTurn,
       FindShavitTurn, LoadTurn, ReturnTurn
<1>5. CASE Clean(t) \/ Help(t) \/ Unlink(t)
  BY <1>3, <1>5, CleanTurn, HelpTurn, UnlinkTurn
<1>6. CASE Insert(t) \/ Mark(t)
  BY <1>6, InsertTakes, MarkTakes
<1> QED
  BY <1>1, <1>2, <1>4, <1>5, <1>6 DEF Access

\* A step that changes nothing of the list keeps the invariant.
LEMMA StutterKeeps ==
  ASSUME ListInv, UNCHANGED vars
  PROVE  ListInv' /\ UNCHANGED <<Contents, call>>
<1>1. heap' = heap /\ local' = local /\ call' = call
  BY DEF vars
<1>2. Contents' = Contents
  BY <1>1, ContentsKept, TidySame
<1>3. ListInv'
  BY <1>1 DEF ListInv, OneBucket
<1> QED
  BY <1>1, <1>2, <1>3

LEMMA Least ==
  ASSUME NEW T \in SUBSET Nat, T # {}
  PROVE  \E x \in T : \A y \in T : x <= y
<1> DEFINE R == OpToRel(<, Nat)
<1>1. IsWellFoundedOn(R, Nat)
  BY NatLessThanWellFounded
<1>2. PICK x \in T : \A y \in T : ~(<<y, x>> \in R)
  <2> HIDE DEF R
  <2> QED
    BY <1>1, WFMin
<1>3. \A y \in T : ~(y < x)
  BY <1>2 DEF OpToRel
<1> QED
  BY <1>3

LEMMA Greatest ==
  ASSUME NEW x \in Nat, NEW T \in SUBSET Nat, T # {}, \A y \in T : y < x
  PROVE  \E y \in T : \A z \in T : z <= y
<1> DEFINE D == {x - y : y \in T}
<1>0. \A y \in T : y \in Nat /\ x - y \in Nat
  OBVIOUS
<1>1. D \in SUBSET Nat /\ D # {}
  BY <1>0
<1>2. PICK d \in D : \A e \in D : d <= e
  BY <1>1, Least
<1>3. PICK y \in T : d = x - y
  OBVIOUS
<1>4. ASSUME NEW z \in T PROVE z <= y
  <2>1. x - y <= x - z
    BY <1>2, <1>3
  <2>2. y \in Nat /\ z \in Nat
    OBVIOUS
  <2> QED
    BY <2>1, <2>2
<1> QED
  BY <1>4

\* The keys that follow node n at the start.
Following(present, hash, n) ==
  {k \in present : IF n \in Heads THEN hash[k] = n
                   ELSE n \in present /\ hash[k] = hash[n] /\ k > n}

\* The heap at the start.
Starting(H, present) ==
  /\ present \in SUBSET Keys /\ H.kind \in Kinds /\ H.hash \in [Keys -> Heads]
  /\ H = [kind |-> H.kind, hash |-> H.hash, link |-> Linked(present, H.hash),
          key |-> [n \in Nodes |-> IF n \in Keys THEN n ELSE None]]

LEMMA StartingLinks ==
  ASSUME NEW H, NEW present, Starting(H, present), NEW n \in Heads \cup Nodes
  PROVE  LET F == Following(present, H.hash, n) IN
         /\ H.link[n] = Link(First(H, n), FALSE)
         /\ F = {} => First(H, n) = None
         /\ F # {} => First(H, n) \in F /\ \A k \in F : First(H, n) <= k
<1> DEFINE F == Following(present, H.hash, n)
           Bottom(k) == \A l \in F : k <= l
<1>0. H.link[n] = Linked(present, H.hash)[n]
  BY DEF Starting
<1>1. H.link[n] = Link(IF F = {} THEN None ELSE CHOOSE k \in F : Bottom(k), FALSE)
  BY <1>0 DEF Linked, Following
<1>2. First(H, n) = (IF F = {} THEN None ELSE CHOOSE k \in F : Bottom(k))
  BY <1>1 DEF First, Link
<1>3. F \in SUBSET Nat
  BY HarrisListAssumption DEF Starting, Following
<1>4. ASSUME F # {} PROVE \E k \in F : Bottom(k)
  BY <1>3, <1>4, Least
<1>5. Bottom(First(H, n)) <=> \A k \in F : First(H, n) <= k
  OBVIOUS
<1> HIDE DEF F, Bottom
<1>6. F # {} => First(H, n) \in F /\ Bottom(First(H, n))
  BY <1>2, <1>4
<1>7. H.link[n] = Link(First(H, n), FALSE) /\ (F = {} => First(H, n) = None)
  BY <1>1, <1>2
<1> QED
  BY <1>5, <1>6, <1>7 DEF F

\* At the start, a walk from its bucket's head meets every present key.
LEMMA StartingMet ==
  ASSUME NEW H, NEW present, Starting(H, present), NEW k \in present
  PROVE  k \in Chain(H, First(H, H.hash[k]))
<1> DEFINE h == H.hash[k]
<1>1. /\ present \in SUBSET Keys /\ Keys \subseteq Nodes /\ h \in Heads
      /\ \A j \in Keys : j \in Nat /\ j \in MadeIn(H) /\ j # None /\ j \notin Heads
  BY HarrisListAssumption DEF Starting, MadeIn, Nodes
<1>2. \A j : j \in Following(present, H.hash, h) <=> j \in present /\ H.hash[j] = h
  BY <1>1 DEF Following
<1>3. \A n \in present : \A j : j \in Following(present, H.hash, n)
                                  <=> j \in present /\ H.hash[j] = H.hash[n] /\ j > n
  BY <1>1 DEF Following
<1> SUFFICES ASSUME NEW S \in SUBSET (MadeIn(H) \ {k}), First(H, h) \in S \cup {None},
                    Closed(H, S)
             PROVE  FALSE
  BY <1>1 DEF Chain
<1> DEFINE Missed == {j \in present : H.hash[j] = h /\ j \notin S}
<1>4. Missed \in SUBSET Nat /\ k \in Missed
  BY <1>1
<1>5. PICK x \in Missed : \A y \in Missed : x <= y
  BY <1>4, Least
<1> DEFINE Met == {j \in present : H.hash[j] = h /\ j < x}
<1>6. x \in Nat /\ x \in present /\ H.hash[x] = h /\ x \notin S /\ x # None
  BY <1>1
<1>7. \A j \in Met : j \in S /\ j \in Nat
  BY <1>1, <1>5, <1>6
<1>8. Following(present, H.hash, h) # {} /\ h \in Heads \cup Nodes
  BY <1>1, <1>2, <1>6
<1>9. First(H, h) \in Following(present, H.hash, h) /\ First(H, h) <= x
  BY <1>2, <1>6, <1>8, StartingLinks
<1>10. First(H, h) \in Met
  <2>1. First(H, h) \in present /\ H.hash[First(H, h)] = h /\ First(H, h) \in Nat
    BY <1>1, <1>2, <1>9
  <2>2. First(H, h) # x
    BY <1>1, <1>6, <2>1
  <2> QED
    BY <1>6, <1>9, <2>1, <2>2
<1>11. PICK y \in Met : \A z \in Met : z <= y
  <2>1. Met \in SUBSET Nat /\ Met # {} /\ \A z \in Met : z < x
    BY <1>7, <1>10
  <2> HIDE DEF Met
  <2> QED
    BY <1>6, <2>1, Greatest
<1>12. y \in present /\ H.hash[y] = h /\ y < x /\ y \in Nat /\ y \in S /\ y \in Nodes
  BY <1>1, <1>7
<1>13. x \in Following(present, H.hash, y)
  BY <1>3, <1>6, <1>12
<1>14. First(H, y) \in Following(present, H.hash, y) /\ First(H, y) <= x
  BY <1>12, <1>13, StartingLinks
<1>15. First(H, y) \in present /\ H.hash[First(H, y)] = h /\ First(H, y) > y
       /\ First(H, y) \in Nat
  BY <1>1, <1>3, <1>12, <1>14
<1>16. First(H, y) = x
  <2> SUFFICES ASSUME First(H, y) # x PROVE FALSE
    OBVIOUS
  <2>1. First(H, y) < x
    BY <1>6, <1>14, <1>15
  <2>2. First(H, y) <= y
    BY <1>11, <1>15, <2>1
  <2> QED
    BY <1>12, <1>15, <2>2
<1> QED
  BY <1>6, <1>12, <1>16 DEF Closed, First

LEMMA StartingInv ==
  ASSUME NEW H, NEW present, Starting(H, present)
  PROVE  HeapInv(H)
<1>1. /\ present \in SUBSET Keys /\ Keys \subseteq Nodes /\ H.hash \in [Keys -> Heads]
      /\ \A j \in Keys : j \notin Heads /\ H.key[j] = j
  BY HarrisListAssumption DEF Starting, Nodes
<1>2. ASSUME NEW n \in Heads \cup Nodes
      PROVE  First(H, n) # None => First(H, n) \in Following(present, H.hash, n)
  BY StartingLinks
<1>3. ASSUME NEW n \in Heads \cup Nodes
      PROVE  /\ H.link[n] \in [next : Nodes \cup {None}, mark : BOOLEAN]
             /\ ~H.link[n].mark
  <2>1. First(H, n) \in Nodes \cup {None}
    BY <1>1, <1>2 DEF Following
  <2>2. H.link[n] = Link(First(H, n), FALSE)
    BY StartingLinks
  <2> HIDE DEF First
  <2> QED
    BY <2>1, <2>2 DEF Link
<1>4. H \in Heaps
  <2>1. H.link = [n \in Heads \cup Nodes |-> H.link[n]]
    <3>1. H.link = Linked(present, H.hash)
      BY DEF Starting
    <3> QED
      BY <3>1 DEF Linked
  <2>2. H.link \in [Heads \cup Nodes -> [next : Nodes \cup {None}, mark : BOOLEAN]]
    BY <1>3, <2>1
  <2>3. H.key \in [Nodes -> Keys \cup {None}]
    BY DEF Starting
  <2>4. H = [kind |-> H.kind, hash |-> H.hash, link |-> H.link, key |-> H.key]
        /\ H.kind \in Kinds
    BY DEF Starting
  <2> QED
    BY <1>1, <2>2, <2>3, <2>4 DEF Heaps
<1>5. \A k \in present : Good(H, k)
  BY <1>1, StartingMet DEF Good
<1>6. ASSUME NEW n \in Heads \cup Nodes PROVE MayLink(H, n, First(H, n))
  <2> SUFFICES ASSUME First(H, n) # None PROVE MayLink(H, n, First(H, n))
    BY DEF MayLink
  <2> DEFINE m == First(H, n)
  <2>1. m \in Following(present, H.hash, n)
    BY <1>2
  <2>2. m \in present /\ Good(H, m) /\ H.key[m] = m /\ m \in Nat
    BY <1>1, <1>5, <2>1, HarrisListAssumption DEF Following
  <2>3. n \in Heads => n \notin Nodes /\ H.hash[m] = n
    BY <2>1, HarrisListAssumption DEF Following, Nodes
  <2>4. n \notin Heads => /\ n \in Keys /\ H.key[n] = n /\ n \in Nat /\ n < m
                          /\ H.hash[n] = H.hash[m]
    BY <1>1, <2>1, <2>2, HarrisListAssumption DEF Following
  <2> HIDE DEF m
  <2>5. MayLink(H, n, m)
    BY <2>2, <2>3, <2>4 DEF MayLink
  <2> QED
    BY <2>5 DEF m
<1> QED
  BY <1>1, <1>4, <1>6 DEF HeapInv, First

LEMMA InitIsInit ==
  ASSUME Init
  PROVE  ListInv /\ Map!Init
<1>1. PICK kind \in Kinds, hash \in [Keys -> Heads], present \in SUBSET Keys :
        /\ kind # "hash" => \E h \in Heads : \A k \in Keys : hash[k] = h
        /\ heap = [kind |-> kind, hash |-> hash, link |-> Linked(present, hash),
                   key |-> [n \in Nodes |-> IF n \in Keys THEN n ELSE None]]
  BY DEF Init
<1>2. Starting(heap, present)
  BY <1>1 DEF Starting
<1>3. HeapInv(heap) /\ OneBucket
  BY <1>1, <1>2, StartingInv DEF OneBucket
<1>4. ASSUME NEW t \in Threads PROVE ThreadOK(heap, t, local[t], call[t])
  <2>1. heap.key[t] = None
    BY <1>1, HarrisListAssumption DEF Nodes
  <2> QED
    BY <2>1 DEF ThreadOK, Init
<1>5. ListInv
  BY <1>3, <1>4 DEF ListInv, Init
<1>6. ASSUME NEW k \in Keys PROVE Holding(heap)[k] \in {k, None}
  <2>1. \A n \in Nodes : heap.key[n] = k => n = k
    BY <1>1, HarrisListAssumption
  <2> QED
    BY <1>3, <2>1, HoldingLive DEF LiveIn
<1>7. Contents \in {m \in [Keys -> Keys \cup {None}] : \A k \in Keys : m[k] \in {k, None}}
  <2>1. Contents = [k \in Keys |-> Holding(heap)[k]]
    BY <1>3, ContentsHeld DEF Holding
  <2> QED
    BY <1>6, <2>1
<1> QED
  BY <1>5, <1>7 DEF Init, Map!Init

-----------------------------------------------------------------------------
(* Theorems *)

\* Wherever the threads are, the list is well formed and every cursor is where
\* its thread may go on from.
LEMMA ListInvInvariant == Spec => []ListInv
<1>1. Init => ListInv
  BY InitIsInit
<1>2. ListInv /\ [Next]_vars => ListInv'
  BY StepIsStep, StutterKeeps
<1> QED
  BY <1>1, <1>2, PTL DEF Spec

LEMMA InvSorted ==
  ASSUME ListInv
  PROVE  Sorted
<1> SUFFICES ASSUME NEW n \in DOMAIN heap.link, n \notin Heads, heap.link[n].next # None
             PROVE  KeyOf(n) < KeyOf(heap.link[n].next)
  BY DEF Sorted
<1>1. heap.link \in [Heads \cup Nodes -> [next : Nodes \cup {None}, mark : BOOLEAN]]
  BY DEF ListInv, HeapInv, Heaps
<1>2. n \in Nodes /\ MayLink(heap, n, heap.link[n].next)
  BY <1>1 DEF ListInv, HeapInv
<1> QED
  BY <1>2 DEF MayLink, KeyOf

\* Whatever inserts, removes and finds meet (list.rs), keys increase along every
\* link, also along those of removed nodes that some thread still stands at: the
\* part of the runs' InOrder that is about the lists.
THEOREM SortedHolds == Spec => []Sorted
BY InvSorted, ListInvInvariant, PTL

\* The sorted lists and the hash map are linearizable (trait ConcurrentMap of
\* concurrent_map.rs): every step of theirs is a step of the abstract map, or
\* none that shows.
THEOREM IsMapHolds == Spec => IsMap
<1>1. Init => Map!Init
  BY InitIsInit
<1>2. ListInv /\ [Next]_vars => [Map!Next]_<<Contents, call>>
  BY StepIsStep, StutterKeeps
<1> QED
  BY <1>1, <1>2, ListInvInvariant, PTL DEF Spec, IsMap, Map!Spec
=============================================================================
