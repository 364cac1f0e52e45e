-------------------------- MODULE DoubleLinkProofs --------------------------
(***************************************************************************)
(* Proofs about DoubleLink, for any finite set of threads: whatever the    *)
(* enqueues and dequeues meet, what the links lead to is a first in, first *)
(* out queue.                                                              *)
(***************************************************************************)
EXTENDS DoubleLink, TLAPS, SequenceTheorems, FiniteSetTheorems, WellFoundedInduction

\* Threads, the sentinel and the marks are told apart.
Names ==
  /\ IsFiniteSet(Threads)
  /\ {Sentinel, None, Pending} \cap Threads = {} /\ None \notin {Sentinel, Pending}

-----------------------------------------------------------------------------
(* Lists.  The lemmas of this part are about any heap H. *)

At(H, s, i) == IF i = 0 THEN H.head ELSE s[i]

\* Behind of heap H.
IsList(H, s) ==
  /\ s \in Seq(Threads) /\ \A i, j \in 1 .. Len(s) : s[i] = s[j] => i = j
  /\ \A i \in 0 .. Len(s) : H.next[At(H, s, i)] = IF i = Len(s) THEN None ELSE s[i + 1]

LEMMA ListTypes ==
  ASSUME NEW s \in Seq(Threads)
  PROVE  /\ Len(s) \in Nat /\ s \in [1 .. Len(s) -> Threads] /\ DOMAIN s = 1 .. Len(s)
         /\ \A i \in 1 .. Len(s) : s[i] \in Threads
         /\ s = <<>> <=> Len(s) = 0
<1>1. Len(s) \in Nat /\ s \in [1 .. Len(s) -> Threads] /\ DOMAIN s = 1 .. Len(s)
  BY LenProperties
<1>2. s = <<>> <=> Len(s) = 0
  BY EmptySeq, <1>1
<1> QED
  BY <1>1, <1>2

\* A list is no longer than there are threads.
LEMMA ListsAre ==
  ASSUME Names, NEW s
  PROVE  s \in Lists <=> s \in Seq(Threads) /\ \A i, j \in 1 .. Len(s) : s[i] = s[j] => i = j
<1>1. ASSUME s \in Lists
      PROVE  s \in Seq(Threads) /\ \A i, j \in 1 .. Len(s) : s[i] = s[j] => i = j
  <2>1. PICK n \in 0 .. Cardinality(Threads) : s \in [1 .. n -> Threads]
    BY <1>1 DEF Lists
  <2>2. s \in Seq(Threads)
    BY <2>1, FS_CardinalityType, SeqDef DEF Names
  <2>3. DOMAIN s = 1 .. Len(s)
    BY <2>2, ListTypes
  <2> QED
    BY <1>1, <2>2, <2>3 DEF Lists
<1>2. ASSUME s \in Seq(Threads), \A i, j \in 1 .. Len(s) : s[i] = s[j] => i = j
      PROVE  s \in Lists
  <2>1. /\ Len(s) \in Nat /\ s \in [1 .. Len(s) -> Threads] /\ DOMAIN s = 1 .. Len(s)
        /\ Cardinality(Threads) \in Nat
    BY <1>2, ListTypes, FS_CardinalityType DEF Names
  <2>2. IsFiniteSet(1 .. Len(s)) /\ Cardinality(1 .. Len(s)) = Len(s)
    <3>1. 1 \in Int /\ Len(s) \in Int
      BY <2>1
    <3>2. /\ IsFiniteSet(1 .. Len(s))
          /\ Cardinality(1 .. Len(s)) = IF 1 > Len(s) THEN 0 ELSE Len(s) - 1 + 1
      BY ONLY <3>1, FS_Interval
    <3> QED
      BY <2>1, <3>2
  <2>3. ~(Cardinality(Threads) < Len(s))
    <3> SUFFICES ASSUME Cardinality(Threads) < Len(s) PROVE FALSE
      OBVIOUS
    <3>1. \E x, y \in 1 .. Len(s) : x # y /\ s[x] = s[y]
      BY <2>1, <2>2, FS_PigeonHole DEF Names
    <3> QED
      BY <1>2, <3>1
  <2>4. Len(s) \in 0 .. Cardinality(Threads)
    BY <2>1, <2>3
  <2> QED
    BY <1>2, <2>1, <2>4 DEF Lists
<1> QED
  BY <1>1, <1>2

LEMMA Least ==
  ASSUME NEW T \in SUBSET Nat, T # {}
  PROVE  \E x \in T : \A y \in T : x <= y
<1> DEFINE R == OpToRel(<, Nat)
<1>1. IsWellFoundedOn(R, Nat)
  BY NatLessThanWellFounded
<1>2. PICK x \in T : \A y \in T : ~(<<y, x>> \in R)
  <2> HIDE DEF R
  <2> QED
    BY <1>1, WFMin
<1>3. \A y \in T : ~(y < x)
  BY <1>2 DEF OpToRel
<1> QED
  BY <1>3

\* The links lead to one list.
LEMMA OneList ==
  ASSUME Names, NEW H, NEW s, IsList(H, s), NEW r, IsList(H, r)
  PROVE  r = s
<1>1. /\ s \in Seq(Threads) /\ Len(s) \in Nat /\ \A i \in 1 .. Len(s) : s[i] \in Threads
      /\ r \in Seq(Threads) /\ Len(r) \in Nat /\ \A i \in 1 .. Len(r) : r[i] \in Threads
  BY ListTypes DEF IsList
<1> DEFINE Same(i) == (i <= Len(s) <=> i <= Len(r)) /\ (i <= Len(s) => s[i] = r[i])
           Differ == {i \in Nat \ {0} : ~Same(i)}
<1>2. ASSUME Differ # {} PROVE FALSE
  <2>1. PICK i \in Differ : \A j \in Differ : i <= j
    BY <1>2, Least
  <2>2. i \in Nat \ {0} /\ ~Same(i) /\ i - 1 \in Nat
    OBVIOUS
  <2>3. i - 1 = 0 \/ Same(i - 1)
    BY <2>1, <2>2
  <2>4. i - 1 <= Len(s) /\ i - 1 <= Len(r) /\ At(H, s, i - 1) = At(H, r, i - 1)
    BY <1>1, <2>2, <2>3 DEF At
  <2>5. (IF i - 1 = Len(s) THEN None ELSE s[i]) = (IF i - 1 = Len(r) THEN None ELSE r[i])
    <3>1. i - 1 \in 0 .. Len(s) /\ i - 1 \in 0 .. Len(r) /\ (i - 1) + 1 = i
      BY <1>1, <2>2, <2>4
    <3> QED
      BY <2>4, <3>1 DEF IsList
  <2>6. None \notin Threads
    BY DEF Names
  <2> QED
    BY <1>1, <2>2, <2>4, <2>5, <2>6
<1>3. \A i \in Nat \ {0} : Same(i)
  BY <1>2
<1>4. Len(s) = Len(r)
  <2>1. Len(s) + 1 \in Nat \ {0} /\ Len(r) + 1 \in Nat \ {0}
    BY <1>1
  <2>2. Same(Len(s) + 1) /\ Same(Len(r) + 1)
    BY <1>3, <2>1
  <2> QED
    BY <1>1, <2>2
<1>5. \A i \in 1 .. Len(s) : s[i] = r[i]
  BY <1>1, <1>3
<1> QED
  BY <1>1, <1>4, <1>5, SeqEqual

LEMMA ItemsAre ==
  ASSUME Names
  PROVE  \A s : IsList(heap, s) => Items = s
<1> SUFFICES ASSUME NEW s, IsList(heap, s) PROVE Items = s
  OBVIOUS
<1>1. ASSUME NEW r PROVE r \in Lists /\ Behind(r) <=> IsList(heap, r)
  BY ListsAre DEF Behind, IsList, At
<1>2. s \in Lists /\ Behind(s) /\ \A r \in Lists : Behind(r) => r = s
  BY <1>1, OneList
<1> QED
  BY <1>2 DEF Items

-----------------------------------------------------------------------------
(* What holds of the links.  O are the nodes that the tail has been swung to. *)

Heaps ==
  [head : Nodes, tail : Nodes, next : [Nodes -> Threads \cup {None}],
   prev : [Nodes -> Nodes \cup {None}]]

\* Node n stands behind the one that it was enqueued after.
Linked(H, n) == n = Sentinel \/ H.next[H.prev[n]] = n

\* Nodes follow one another, and only the last may not be linked yet.
QueueInv(H, O) ==
  /\ H \in Heaps /\ O \subseteq Nodes /\ {Sentinel, H.head, H.tail} \subseteq O
  /\ H.prev[Sentinel] = None
  /\ \A n \in O \ {Sentinel} : H.prev[n] \in O \ {H.tail}
  /\ \A n, m \in O \ {Sentinel} : H.prev[n] = H.prev[m] => n = m
  /\ \A n \in Nodes : H.next[n] # None
                        => H.next[n] \in O \ {Sentinel} /\ H.prev[H.next[n]] = n
  /\ \A n \in (O \ {H.tail}) \cup {H.head} : Linked(H, n)

\* The list s ends at the tail, or right before it.
Ends(H, s) ==
  LET end == At(H, s, Len(s)) IN
  end = H.tail \/ (H.tail # Sentinel /\ end = H.prev[H.tail])

Queue(H, O, s) == QueueInv(H, O) /\ IsList(H, s) /\ Ends(H, s)

LEMMA QueueTypes ==
  ASSUME Names, NEW H, NEW O, QueueInv(H, O)
  PROVE  /\ H.head \in Nodes /\ H.tail \in Nodes /\ Sentinel \notin Threads
         /\ \A n \in Nodes : H.next[n] \in Threads \cup {None} /\ H.prev[n] \in Nodes \cup {None}
         /\ None \notin Nodes /\ None \notin Threads /\ Threads \subseteq Nodes
BY DEF Names, QueueInv, Heaps, Nodes

LEMMA ListNodes ==
  ASSUME Names, NEW H, NEW O, NEW s, Queue(H, O, s)
  PROVE  /\ \A i \in 0 .. Len(s) : At(H, s, i) \in Nodes
         /\ \A i \in 1 .. Len(s) : /\ s[i] \in O \ {Sentinel} /\ Linked(H, s[i])
                                   /\ H.prev[s[i]] = At(H, s, i - 1)
         /\ Linked(H, At(H, s, Len(s)))
<1>1. s \in Seq(Threads) /\ Len(s) \in Nat /\ \A i \in 1 .. Len(s) : s[i] \in Threads
  BY ListTypes DEF Queue, IsList
<1>2. QueueInv(H, O) /\ H.head \in Nodes /\ None \notin Threads /\ Threads \subseteq Nodes
  BY QueueTypes DEF Queue
<1>3. \A i \in 0 .. Len(s) : At(H, s, i) \in Nodes
  BY <1>1, <1>2 DEF At
<1>4. ASSUME NEW i \in 1 .. Len(s)
      PROVE  /\ s[i] \in O \ {Sentinel} /\ Linked(H, s[i])
             /\ H.prev[s[i]] = At(H, s, i - 1)
  <2>1. i - 1 \in 0 .. Len(s) /\ i - 1 # Len(s) /\ (i - 1) + 1 = i
    BY <1>1
  <2>2. H.next[At(H, s, i - 1)] = s[i]
    BY <2>1 DEF Queue, IsList
  <2>3. At(H, s, i - 1) \in Nodes /\ s[i] # None
    BY <1>1, <1>2, <1>3, <2>1
  <2> QED
    BY <1>2, <2>2, <2>3 DEF QueueInv, Linked
<1>5. Linked(H, At(H, s, Len(s)))
  <2>1. CASE Len(s) = 0
    BY <1>2, <2>1 DEF At, QueueInv
  <2>2. CASE Len(s) # 0
    BY <1>1, <1>4, <2>2 DEF At
  <2> QED
    BY <2>1, <2>2
<1> QED
  BY <1>3, <1>4, <1>5

LEMMA OneFollows ==
  ASSUME Names, NEW H, NEW O, QueueInv(H, O), NEW q \in O \ {Sentinel}
  PROVE  H.prev[q] \in Nodes /\ H.next[H.prev[q]] \in {None, q}
BY DEF QueueInv

\* Where a link is missing: at the end of the list, before the tail.
LEMMA MissingLink ==
  ASSUME Names, NEW H, NEW O, NEW s, Queue(H, O, s), NEW q \in O \ {Sentinel}
  PROVE  /\ H.prev[q] \in Nodes /\ H.next[H.prev[q]] \in {None, q}
         /\ H.next[H.prev[q]] = None => q = H.tail /\ H.prev[q] = At(H, s, Len(s))
<1>1. QueueInv(H, O) /\ H.prev[q] \in O /\ H.prev[q] \in Nodes /\ q \in Threads /\ q # None
  BY QueueTypes DEF Queue, QueueInv, Nodes
<1>2. H.next[H.prev[q]] \in {None, q}
  BY <1>1, OneFollows
<1>3. ASSUME H.next[H.prev[q]] = None PROVE q = H.tail /\ H.prev[q] = At(H, s, Len(s))
  <2>1. ~Linked(H, q)
    BY <1>1, <1>3 DEF Linked
  <2>2. q = H.tail
    BY <1>1, <2>1 DEF QueueInv
  <2>3. At(H, s, Len(s)) # H.tail
    BY <2>1, <2>2, ListNodes
  <2> QED
    BY <2>2, <2>3 DEF Queue, Ends
<1> QED
  BY <1>1, <1>2, <1>3

-----------------------------------------------------------------------------
(* The steps of a queue.  H becomes H2. *)

\* The tail is swung to the new node t.
LEMMA SwingStep ==
  ASSUME Names, NEW H, NEW O, NEW s, Queue(H, O, s), NEW t \in Threads \ O,
         H.prev[t] = H.tail, Linked(H, H.tail),
         NEW H2 \in Heaps, H2.head = H.head, H2.tail = t, H2.next = H.next, H2.prev = H.prev
  PROVE  Queue(H2, O \cup {t}, s)
<1>1. QueueInv(H, O) /\ IsList(H, s) /\ Ends(H, s)
  BY DEF Queue
<1>2. t \in Nodes /\ t # Sentinel /\ t # H.tail /\ H.tail \in O
  BY <1>1, QueueTypes DEF QueueInv
<1>3. \A n \in O \ {Sentinel} : H.prev[n] \in O \ {H.tail}
  BY <1>1 DEF QueueInv
<1>4. \A n \in (O \cup {t}) \ {Sentinel} : H.prev[n] \in (O \cup {t}) \ {t}
  BY <1>2, <1>3
<1>5. \A n, m \in (O \cup {t}) \ {Sentinel} : H.prev[n] = H.prev[m] => n = m
  BY <1>1, <1>2, <1>3 DEF QueueInv
<1>6. \A n \in O \cup {H.head} : Linked(H2, n)
  BY <1>1 DEF QueueInv, Linked
<1>7. QueueInv(H2, O \cup {t})
  BY <1>1, <1>2, <1>4, <1>5, <1>6 DEF QueueInv
<1>8. IsList(H2, s)
  BY <1>1 DEF IsList, At
<1>9. Ends(H2, s)
  <2>1. At(H2, s, Len(s)) = At(H, s, Len(s))
    BY DEF At
  <2>2. At(H, s, Len(s)) = H.tail
    <3> SUFFICES ASSUME H.tail # Sentinel, At(H, s, Len(s)) = H.prev[H.tail] PROVE FALSE
      BY <1>1 DEF Ends
    <3>1. H.next[At(H, s, Len(s))] = None
      BY <1>1, ListTypes DEF IsList
    <3>2. H.tail # None
      BY <1>1, QueueTypes
    <3> QED
      BY <3>1, <3>2 DEF Linked
  <2> QED
    BY <1>2, <2>1, <2>2 DEF Ends
<1> QED
  BY <1>7, <1>8, <1>9 DEF Queue

\* A thread that has not enqueued its node gives it a predecessor.
LEMMA PrevStep ==
  ASSUME Names, NEW H, NEW O, NEW s, Queue(H, O, s), NEW t \in Threads \ O,
         NEW H2 \in Heaps, H2.head = H.head, H2.tail = H.tail, H2.next = H.next,
         \A n \in Nodes \ {t} : H2.prev[n] = H.prev[n]
  PROVE  Queue(H2, O, s)
<1>1. QueueInv(H, O) /\ IsList(H, s) /\ Ends(H, s)
  BY DEF Queue
<1>2. O \subseteq Nodes /\ \A n \in O : H2.prev[n] = H.prev[n]
  BY <1>1 DEF QueueInv
<1>3. H.head \in O /\ H.tail \in O /\ Sentinel \in O
  BY <1>1 DEF QueueInv
<1>4. \A n \in Nodes : H2.next[n] # None
        => H2.next[n] \in O \ {Sentinel} /\ H2.prev[H2.next[n]] = n
  BY <1>1, <1>2 DEF QueueInv
<1>5. \A n \in (O \ {H.tail}) \cup {H.head} : Linked(H2, n)
  BY <1>1, <1>2, <1>3 DEF QueueInv, Linked
<1>6. \A n \in O \ {Sentinel} : H2.prev[n] \in O \ {H.tail}
  BY <1>1, <1>2 DEF QueueInv
<1>7. \A n, m \in O \ {Sentinel} : H2.prev[n] = H2.prev[m] => n = m
  BY <1>1, <1>2 DEF QueueInv
<1>8. QueueInv(H2, O)
  BY <1>1, <1>2, <1>3, <1>4, <1>5, <1>6, <1>7 DEF QueueInv
<1>9. IsList(H2, s) /\ Ends(H2, s)
  BY <1>1, <1>2, <1>3 DEF IsList, Ends, At
<1> QED
  BY <1>8, <1>9 DEF Queue

\* The missing link is made.
LEMMA LinkStep ==
  ASSUME Names, NEW H, NEW O, NEW s, Queue(H, O, s), NEW q \in O \ {Sentinel},
         H.next[H.prev[q]] = None,
         NEW H2 \in Heaps, H2.head = H.head, H2.tail = H.tail, H2.prev = H.prev,
         H2.next[H.prev[q]] = q, \A n \in Nodes \ {H.prev[q]} : H2.next[n] = H.next[n]
  PROVE  Queue(H2, O, Append(s, q))
<1> DEFINE r == Append(s, q)
           p == H.prev[q]
<1>1. QueueInv(H, O) /\ IsList(H, s) /\ Ends(H, s)
  BY DEF Queue
<1>2. p \in Nodes /\ p = At(H, s, Len(s)) /\ q = H.tail /\ q \in Threads
  BY <1>1, MissingLink DEF QueueInv, Nodes
<1>3. /\ s \in Seq(Threads) /\ Len(s) \in Nat /\ \A i \in 1 .. Len(s) : s[i] \in Threads
      /\ r \in Seq(Threads) /\ Len(r) = Len(s) + 1 /\ r[Len(r)] = q
      /\ \A i \in 1 .. Len(s) : r[i] = s[i]
  BY <1>1, <1>2, ListTypes DEF IsList
<1>4. \A i \in 1 .. Len(s) : s[i] # q
  <2>1. ~Linked(H, q)
    BY <1>1, <1>2, QueueTypes DEF Linked
  <2> QED
    BY <2>1, ListNodes
<1>5. \A i \in 0 .. Len(s) : At(H2, r, i) = At(H, s, i) /\ At(H, s, i) \in Nodes
  BY <1>3, ListNodes DEF At
<1>6. At(H2, r, Len(r)) = q
  BY <1>3 DEF At
<1>7. ASSUME NEW i \in 0 .. Len(s), i # Len(s) PROVE H2.next[At(H2, r, i)] = r[i + 1]
  <2>1. H.next[At(H, s, i)] = s[i + 1] /\ s[i + 1] # None /\ r[i + 1] = s[i + 1]
    BY <1>1, <1>3, <1>7, QueueTypes DEF IsList
  <2>2. At(H, s, i) # p /\ At(H, s, i) \in Nodes
    BY <1>5, <2>1
  <2> QED
    BY <1>5, <2>1, <2>2
<1>8. H2.next[At(H2, r, Len(s))] = r[Len(s) + 1]
  BY <1>2, <1>3, <1>5
<1>9. H2.next[q] = None
  <2>1. \A n \in O \ {Sentinel} : H.prev[n] # H.tail
    BY <1>1 DEF QueueInv
  <2>2. q # p /\ q \in Nodes
    BY <1>2, <2>1 DEF Nodes
  <2>3. H.next[q] = None
    BY <1>1, <1>2, <2>1, <2>2 DEF QueueInv
  <2> QED
    BY <2>2, <2>3
<1>10. \A i, j \in 1 .. Len(r) : r[i] = r[j] => i = j
  <2> HIDE DEF r
  <2> SUFFICES ASSUME NEW i \in 1 .. Len(r), NEW j \in 1 .. Len(r), r[i] = r[j] PROVE i = j
    OBVIOUS
  <2>1. i \in 1 .. Len(s) \/ i = Len(r)
    BY <1>3
  <2>2. j \in 1 .. Len(s) \/ j = Len(r)
    BY <1>3
  <2>3. \A k, l \in 1 .. Len(s) : s[k] = s[l] => k = l
    BY <1>1 DEF IsList
  <2> QED
    BY <1>3, <1>4, <2>1, <2>2, <2>3
<1>11. IsList(H2, r)
  <2>1. ASSUME NEW i \in 0 .. Len(r)
        PROVE  H2.next[At(H2, r, i)] = IF i = Len(r) THEN None ELSE r[i + 1]
    <3>1. i \in 0 .. Len(s) \/ i = Len(r)
      BY <1>3
    <3>2. CASE i = Len(r)
      BY <1>6, <1>9, <3>2
    <3>3. CASE i \in 0 .. Len(s) /\ i # Len(r)
      BY <1>7, <1>8, <3>3
    <3> QED
      BY <3>1, <3>2, <3>3
  <2> QED
    BY <1>3, <1>10, <2>1 DEF IsList
<1>12. Ends(H2, r)
  BY <1>2, <1>6 DEF Ends
<1>13. \A n \in Nodes : H2.next[n] # None
         => H2.next[n] \in O \ {Sentinel} /\ H2.prev[H2.next[n]] = n
  BY <1>1 DEF QueueInv
<1>14. \A n \in (O \ {H.tail}) \cup {H.head} : Linked(H2, n)
  BY <1>1, QueueTypes DEF QueueInv, Linked
<1>15. QueueInv(H2, O)
  BY <1>1, <1>13, <1>14 DEF QueueInv
<1> QED
  BY <1>11, <1>12, <1>15 DEF Queue

\* The head moves on.
LEMMA TakeStep ==
  ASSUME Names, NEW H, NEW O, NEW s, Queue(H, O, s), H.next[H.head] # None,
         NEW H2 \in Heaps, H2.head = H.next[H.head], H2.tail = H.tail, H2.next = H.next,
         H2.prev = H.prev
  PROVE  /\ Queue(H2, O, Tail(s))
         /\ s # <<>> /\ Head(s) = H.next[H.head] /\ H.next[H.head] \in O
<1> DEFINE r == Tail(s)
<1>1. QueueInv(H, O) /\ IsList(H, s) /\ Ends(H, s)
  BY DEF Queue
<1>2. s \in Seq(Threads) /\ Len(s) \in Nat /\ \A i \in 1 .. Len(s) : s[i] \in Threads
  BY <1>1, ListTypes DEF IsList
<1>3. H.next[H.head] = IF Len(s) = 0 THEN None ELSE s[1]
  <2>1. 0 \in 0 .. Len(s) /\ At(H, s, 0) = H.head
    BY <1>2 DEF At
  <2>2. H.next[At(H, s, 0)] = IF 0 = Len(s) THEN None ELSE s[0 + 1]
    BY <1>1, <2>1 DEF IsList
  <2> QED
    BY <1>2, <2>1, <2>2
<1>4. Len(s) # 0 /\ s # <<>> /\ s[1] = H2.head /\ Head(s) = s[1]
  BY <1>2, <1>3
<1>5. r \in Seq(Threads) /\ Len(r) = Len(s) - 1 /\ \A i \in 1 .. Len(r) : r[i] = s[i + 1]
  BY <1>2, <1>4, HeadTailProperties
<1>6. \A i \in 0 .. Len(r) : At(H2, r, i) = At(H, s, i + 1) /\ i + 1 \in 0 .. Len(s)
  BY <1>2, <1>4, <1>5 DEF At
<1>7. \A i, j \in 1 .. Len(r) : r[i] = r[j] => i = j
  <2> SUFFICES ASSUME NEW i \in 1 .. Len(r), NEW j \in 1 .. Len(r), r[i] = r[j] PROVE i = j
    OBVIOUS
  <2>1. i + 1 \in 1 .. Len(s) /\ j + 1 \in 1 .. Len(s) /\ s[i + 1] = s[j + 1]
    BY <1>2, <1>5
  <2>2. i + 1 = j + 1
    BY <1>1, <2>1 DEF IsList
  <2> QED
    BY <1>2, <1>5, <2>2
<1>8. ASSUME NEW i \in 0 .. Len(r)
      PROVE  H2.next[At(H2, r, i)] = IF i = Len(r) THEN None ELSE r[i + 1]
  <2>1. H.next[At(H, s, i + 1)] = IF i + 1 = Len(s) THEN None ELSE s[(i + 1) + 1]
    BY <1>1, <1>6 DEF IsList
  <2>2. i + 1 = Len(s) <=> i = Len(r)
    BY <1>2, <1>5
  <2>3. i # Len(r) => r[i + 1] = s[(i + 1) + 1]
    <3> HIDE DEF r
    <3> SUFFICES ASSUME i # Len(r) PROVE r[i + 1] = s[(i + 1) + 1]
      OBVIOUS
    <3>1. i + 1 \in 1 .. Len(r)
      BY <1>2, <1>5
    <3> QED
      BY <1>5, <3>1
  <2> QED
    BY <1>6, <2>1, <2>2, <2>3
<1>9. IsList(H2, r)
  BY <1>5, <1>7, <1>8 DEF IsList
<1>10. Ends(H2, r)
  <2>1. At(H2, r, Len(r)) = At(H, s, Len(s))
    BY <1>2, <1>4, <1>5, <1>6
  <2> QED
    BY <1>1, <2>1 DEF Ends
<1>11. H2.head \in O /\ Linked(H2, H2.head)
  BY <1>1, QueueTypes DEF QueueInv, Linked
<1>12. \A n \in (O \ {H.tail}) \cup {H2.head} : Linked(H2, n)
  BY <1>1, <1>11 DEF QueueInv, Linked
<1>13. QueueInv(H2, O)
  BY <1>1, <1>11, <1>12 DEF QueueInv
<1> QED
  BY <1>4, <1>9, <1>10, <1>11, <1>13 DEF Queue

-----------------------------------------------------------------------------
(* What a thread relies on while others change the heap.  In the following,  *)
(* none says whether the queue is empty.                                     *)

\* A call that has not taken effect and has seen whether the queue is empty.
Watching(none, c) ==
  c \in Fifo!Calls /\ c.answer = Pending /\ c.took = None /\ (none => c.empty)

\* Thread t, in its enqueue, knows the tail and what is before it.
AtEnqueue(H, O, t, l) ==
  /\ l = [pc |-> l.pc, tail |-> l.tail, prev |-> l.prev]
  /\ l.tail \in O /\ l.prev = H.prev[l.tail] /\ H.prev[t] = l.tail
  /\ l.pc = "mend" => l.prev # None
  /\ l.pc = "swing" => Linked(H, l.tail)

\* An enqueue that has swung the tail takes effect when it is linked.
AtLink(H, none, t, l, c) ==
  /\ c \in Fifo!Calls /\ c.answer = Pending /\ c.op = "enqueue" /\ H.prev[t] = l.tail
  /\ c.took = IF H.next[l.tail] = t THEN t ELSE None
  /\ c.took = None /\ none => c.empty

\* The head that thread t knows is the head, or has been passed.
AtDequeue(H, O, l) ==
  /\ l.head \in O /\ (l.head = H.head \/ H.next[l.head] # None)
  /\ l.pc = "take" => l.next = H.next[l.head] /\ l.next # None

ThreadOK(H, O, none, t, l, c) ==
  \/ l.pc = "idle" /\ c = None /\ t \notin O
  \/ l.pc = "start" /\ Watching(none, c) /\ t \notin O
  \/ /\ l.pc \in {"help", "mend", "swing"} /\ Watching(none, c) /\ c.op = "enqueue"
     /\ AtEnqueue(H, O, t, l) /\ t \notin O
  \/ l.pc = "link" /\ AtLink(H, none, t, l, c) /\ t \in O
  \/ /\ l.pc \in {"next", "take"} /\ Watching(none, c) /\ c.op = "dequeue"
     /\ AtDequeue(H, O, l) /\ t \notin O
  \/ /\ l.pc = "done" /\ c \in Fifo!Calls /\ c.answer # Pending /\ (t \in O <=> c.op = "enqueue")
     /\ t \in O => Linked(H, t)

\* Thread t changes the heap: nodes that have been enqueued and links stay.
Frame(H, O, H2, O2, t) ==
  /\ O \subseteq O2 /\ O2 \subseteq O \cup {t}
  /\ \A n \in O \cup (Threads \ {t}) : H2.prev[n] = H.prev[n]
  /\ \A n \in Nodes : H.next[n] # None => H2.next[n] = H.next[n]
  /\ H2.head = H.head \/ H.next[H.head] # None

\* The node of thread u is linked.
Comes(H, H2, u) == \E n \in Nodes : H.next[n] = None /\ H2.next[n] = u

\* The call c of thread u after that: see Witnessed of ConcurrentQueue.
Watch(H, H2, none, u, c) ==
  IF c = None \/ c.answer # Pending \/ c.took # None THEN c
  ELSE IF Comes(H, H2, u) THEN [c EXCEPT !.took = u]
  ELSE [c EXCEPT !.empty = @ \/ none]

LEMMA WatchingKeeps ==
  ASSUME NEW H, NEW H2, NEW none, NEW none2 \in BOOLEAN, NEW u \in Threads, NEW c,
         Watching(none, c), ~Comes(H, H2, u), None \notin Fifo!Calls
  PROVE  /\ Watching(none2, Watch(H, H2, none2, u, c))
         /\ Watch(H, H2, none2, u, c).op = c.op
<1>1. c \in Fifo!Calls /\ c # None /\ c.answer = Pending /\ c.took = None
  BY DEF Watching
<1>2. Watch(H, H2, none2, u, c) = [c EXCEPT !.empty = c.empty \/ none2]
  BY <1>1 DEF Watch
<1>3. c.empty \/ none2 \in BOOLEAN
  BY <1>1 DEF Fifo!Calls
<1> DEFINE d == [c EXCEPT !.empty = c.empty \/ none2]
<1>4. d \in Fifo!Calls /\ d.answer = Pending /\ d.took = None /\ d.op = c.op
      /\ (d.empty <=> c.empty \/ none2)
  BY <1>1, <1>3 DEF Fifo!Calls
<1> HIDE DEF d
<1>5. Watching(none2, d)
  BY <1>4 DEF Watching
<1> QED
  BY <1>2, <1>4, <1>5 DEF d

LEMMA ThreadKeeps ==
  ASSUME Names, None \notin Fifo!Calls, NEW H, NEW O, QueueInv(H, O), NEW H2, NEW O2, QueueInv(H2, O2),
         NEW t \in Threads, Frame(H, O, H2, O2, t), NEW u \in Threads \ {t},
         NEW none, NEW none2 \in BOOLEAN, NEW l, NEW c, ThreadOK(H, O, none, u, l, c)
  PROVE  ThreadOK(H2, O2, none2, u, l, Watch(H, H2, none2, u, c))
<1> DEFINE d == Watch(H, H2, none2, u, c)
<1>1. u \in O2 <=> u \in O
  BY DEF Frame
<1>2. u \notin O => ~Comes(H, H2, u)
  <2> SUFFICES ASSUME Comes(H, H2, u) PROVE u \in O
    OBVIOUS
  <2>1. PICK n \in Nodes : H2.next[n] = u
    BY DEF Comes
  <2>2. u # None
    BY QueueTypes
  <2> QED
    BY <1>1, <2>1, <2>2 DEF QueueInv
<1>3. ASSUME NEW n \in O PROVE n \in O2 /\ n \in Nodes /\ H2.prev[n] = H.prev[n]
  BY DEF Frame, QueueInv
<1>4. H2.prev[u] = H.prev[u]
  BY DEF Frame
<1>5. u \notin O /\ Watching(none, c) => Watching(none2, d) /\ d.op = c.op
  BY <1>2, WatchingKeeps
<1>12. ASSUME NEW n \in O, Linked(H, n) PROVE Linked(H2, n)
  <2> SUFFICES ASSUME n # Sentinel PROVE Linked(H2, n)
    BY DEF Linked
  <2>1. H.prev[n] \in Nodes /\ H.next[H.prev[n]] = n /\ n # None
    BY <1>3, <1>12, QueueTypes DEF QueueInv, Linked
  <2> QED
    BY <1>3, <2>1 DEF Linked, Frame
<1>6. CASE l.pc = "idle" /\ c = None /\ u \notin O
  BY <1>1, <1>6 DEF ThreadOK, Watch
<1>7. CASE l.pc = "start" /\ Watching(none, c) /\ u \notin O
  BY <1>1, <1>5, <1>7 DEF ThreadOK
<1>8. CASE /\ l.pc \in {"help", "mend", "swing"} /\ Watching(none, c) /\ c.op = "enqueue"
           /\ AtEnqueue(H, O, u, l) /\ u \notin O
  <2>1. l.tail \in O2 /\ l.prev = H2.prev[l.tail] /\ H2.prev[u] = l.tail
    BY <1>3, <1>4, <1>8 DEF AtEnqueue
  <2>2. Linked(H, l.tail) => Linked(H2, l.tail)
    BY <1>8, <1>12 DEF AtEnqueue
  <2>3. AtEnqueue(H2, O2, u, l)
    BY <1>8, <2>1, <2>2 DEF AtEnqueue
  <2> QED
    BY <1>1, <1>5, <1>8, <2>3 DEF ThreadOK
<1>9. CASE l.pc = "link" /\ AtLink(H, none, u, l, c) /\ u \in O
  <2>1. u \in O \ {Sentinel} /\ u \in O2 \ {Sentinel} /\ u # None /\ l.tail = H.prev[u] /\ l.tail \in Nodes
        /\ l.tail = H2.prev[u]
    BY <1>1, <1>4, <1>9, QueueTypes DEF QueueInv, AtLink
  <2>2. H.next[l.tail] \in {None, u} /\ H2.next[l.tail] \in {None, u}
    BY <2>1, OneFollows
  <2>3. Comes(H, H2, u) <=> H.next[l.tail] = None /\ H2.next[l.tail] = u
    <3>1. ASSUME NEW n \in Nodes, H2.next[n] = u PROVE n = l.tail
      BY <2>1, <3>1 DEF QueueInv
    <3> QED
      BY <2>1, <3>1 DEF Comes
  <2>4. c \in Fifo!Calls /\ c # None /\ c.answer = Pending /\ c.op = "enqueue"
        /\ c.took = IF H.next[l.tail] = u THEN u ELSE None
    BY <1>9 DEF AtLink
  <2>5. CASE c.took # None
    <3>1. H2.next[l.tail] = u /\ c.took = u /\ d = c
      BY <2>1, <2>4, <2>5 DEF Frame, Watch
    <3> QED
      BY <1>1, <1>9, <2>1, <2>4, <3>1 DEF ThreadOK, AtLink
  <2>6. CASE c.took = None /\ Comes(H, H2, u)
    <3> DEFINE e == [c EXCEPT !.took = u]
    <3>1. d = e
      BY <2>4, <2>6 DEF Watch
    <3>2. e \in Fifo!Calls /\ e.answer = Pending /\ e.op = "enqueue" /\ e.took = u
      BY <2>4 DEF Fifo!Calls
    <3> HIDE DEF d, e
    <3>3. AtLink(H2, none2, u, l, e)
      BY <2>1, <2>3, <2>6, <3>2 DEF AtLink
    <3> QED
      BY <1>1, <1>9, <3>1, <3>3 DEF ThreadOK, d
  <2>7. CASE c.took = None /\ ~Comes(H, H2, u)
    <3>1. H2.next[l.tail] # u
      BY <2>1, <2>2, <2>3, <2>4, <2>7
    <3>2. Watching(none, c)
      BY <1>9, <2>4, <2>7 DEF Watching, AtLink
    <3>3. Watching(none2, d) /\ d.op = c.op
      BY <2>7, <3>2, WatchingKeeps
    <3> HIDE DEF d
    <3>4. AtLink(H2, none2, u, l, d)
      BY <2>1, <2>4, <3>1, <3>3 DEF AtLink, Watching
    <3> QED
      BY <1>1, <1>9, <3>4 DEF ThreadOK, d
  <2> QED
    BY <2>5, <2>6, <2>7
<1>10. CASE /\ l.pc \in {"next", "take"} /\ Watching(none, c) /\ c.op = "dequeue"
            /\ AtDequeue(H, O, l) /\ u \notin O
  <2>1. l.head \in O2 /\ l.head \in Nodes
    BY <1>3, <1>10 DEF AtDequeue
  <2>2. H.next[l.head] # None => H2.next[l.head] = H.next[l.head]
    BY <2>1 DEF Frame
  <2>3. AtDequeue(H2, O2, l)
    BY <1>10, <2>1, <2>2 DEF AtDequeue, Frame
  <2> QED
    BY <1>1, <1>5, <1>10, <2>3 DEF ThreadOK
<1>11. CASE /\ l.pc = "done" /\ c \in Fifo!Calls /\ c.answer # Pending /\ (u \in O <=> c.op = "enqueue")
            /\ u \in O => Linked(H, u)
  BY <1>1, <1>11, <1>12 DEF ThreadOK, Watch
<1> QED
  BY <1>6, <1>7, <1>8, <1>9, <1>10, <1>11 DEF ThreadOK

-----------------------------------------------------------------------------
(* The inductive invariant *)

\* The nodes that the tail has been swung to.
Old ==
  {Sentinel} \cup {t \in Threads : \/ local[t].pc = "link"
                                   \/ local[t].pc = "done" /\ call[t].op = "enqueue"}

LinksInv ==
  /\ Queue(heap, Old, Items)
  /\ local = [t \in Threads |-> local[t]] /\ call = [t \in Threads |-> call[t]]
  /\ \A t \in Threads : ThreadOK(heap, Old, Items = <<>>, t, local[t], call[t])

LEMMA ItemsAreNext ==
  ASSUME Names
  PROVE  \A s : IsList(heap', s) => Items' = s
<1>1. \A s : IsList(heap, s) => Items = s
  BY ItemsAre
<1>2. (\A s : IsList(heap, s) => Items = s)'
  BY <1>1, PTL
<1> QED
  BY <1>2

\* The nodes that the tail has been swung to when thread t is at l with call c.
OldWith(t, l, c) ==
  IF l.pc = "link" \/ (l.pc = "done" /\ c.op = "enqueue") THEN Old \cup {t} ELSE Old \ {t}

\* In a step to the list s the threads of D take effect, if any.
TakesOK(D, takes, s) ==
  \/ D = {} /\ s = Items
  \/ \E q \in Threads :
       /\ D = {q} /\ Fifo!Open(q) /\ call[q].took = None
       /\ IF call[q].op = "enqueue" THEN takes[q] = q /\ s = Append(Items, q)
          ELSE Items # <<>> /\ takes[q] = Head(Items) /\ s = Tail(Items)

\* What the call of t may become.
MayBecome(t, takes, c) ==
  LET now == Fifo!Witnessed(t, takes) IN
  \/ c = now
  \/ call[t] = None /\ \E op \in Fifo!Ops : c = Fifo!Fresh(op)
  \/ /\ Fifo!Open(t)
     /\ \E a \in Threads \cup {None} : Fifo!Permitted(now, a) /\ c = [now EXCEPT !.answer = a]

\* Thread t goes to l with call c, and to the list s.
LEMMA StepMade ==
  ASSUME Names, None \notin Fifo!Calls, LinksInv, NEW t \in Threads, NEW s, NEW l, NEW c,
         NEW D \in SUBSET Threads, NEW takes \in [D -> Threads],
         Queue(heap', OldWith(t, l, c), s), Frame(heap, Old, heap', OldWith(t, l, c), t),
         ThreadOK(heap', OldWith(t, l, c), s = <<>>, t, l, c),
         local' = [local EXCEPT ![t] = l],
         call' = [u \in Threads |-> IF u = t THEN c ELSE Fifo!Witnessed(u, takes)],
         \A u \in Threads \ {t} : (u \in D <=> Comes(heap, heap', u)) /\ (u \in D => takes[u] = u),
         TakesOK(D, takes, s), MayBecome(t, takes, c)
  PROVE  LinksInv' /\ Fifo!Next
<1>1. QueueInv(heap, Old) /\ QueueInv(heap', OldWith(t, l, c)) /\ IsList(heap', s)
  BY DEF LinksInv, Queue
<1>2. Items' = s
  BY <1>1, ItemsAreNext
<1>3. ASSUME NEW u \in Threads \ {t}
      PROVE  /\ call'[u] = Watch(heap, heap', s = <<>>, u, call[u])
             /\ local'[u] = local[u]
  BY <1>2 DEF Fifo!Witnessed, Fifo!Open, Watch, LinksInv
<1>4. ASSUME NEW u \in Threads \ {t}
      PROVE  ThreadOK(heap', OldWith(t, l, c), s = <<>>, u, local'[u], call'[u])
  <2>1. ThreadOK(heap, Old, Items = <<>>, u, local[u], call[u])
    BY DEF LinksInv
  <2>2. (s = <<>>) \in BOOLEAN
    OBVIOUS
  <2>3. ThreadOK(heap', OldWith(t, l, c), s = <<>>, u, local[u],
                 Watch(heap, heap', s = <<>>, u, call[u]))
    BY <1>1, <2>1, <2>2, ThreadKeeps
  <2> QED
    BY <1>3, <2>3
<1>5. Old' = OldWith(t, l, c)
  <2>1. local'[t] = l /\ call'[t] = c
    BY DEF LinksInv
  <2>2. ASSUME NEW u \in Threads \ {t}
        PROVE  (local'[u].pc = "done" /\ call'[u].op = "enqueue")
                 <=> (local[u].pc = "done" /\ call[u].op = "enqueue")
    <3>1. ThreadOK(heap, Old, Items = <<>>, u, local[u], call[u])
      BY DEF LinksInv
    <3>2. local[u].pc = "done" => call'[u] = call[u]
      BY <1>3, <3>1 DEF ThreadOK, Watch
    <3> QED
      BY <1>3, <3>2
  <2>3. Sentinel # t
    BY DEF Names
  <2> QED
    BY <1>3, <2>1, <2>2, <2>3 DEF Old, OldWith
<1>6. LinksInv'
  <2>1. Queue(heap', Old', Items')
    BY <1>2, <1>5
  <2>2. \A u \in Threads : ThreadOK(heap', Old', Items' = <<>>, u, local'[u], call'[u])
    BY <1>2, <1>4, <1>5 DEF LinksInv
  <2>3. local' = [u \in Threads |-> local'[u]] /\ call' = [u \in Threads |-> call'[u]]
    BY DEF LinksInv
  <2> QED
    BY <2>1, <2>2, <2>3 DEF LinksInv
<1>7. Fifo!Takes(D, takes)
  <2>1. CASE D = {} /\ s = Items
    BY <1>2, <2>1 DEF Fifo!Takes
  <2>2. ASSUME NEW q \in Threads, D = {q}, Fifo!Open(q), call[q].took = None,
               IF call[q].op = "enqueue" THEN takes[q] = q /\ s = Append(Items, q)
               ELSE Items # <<>> /\ takes[q] = Head(Items) /\ s = Tail(Items)
        PROVE  Fifo!Takes(D, takes)
    <3>1. takes = [u \in D |-> takes[q]]
      BY <2>2
    <3>2. call[q].op = "enqueue" => takes = [u \in D |-> u]
      BY <2>2, <3>1
    <3>3. call[q].op # "enqueue" => takes = [u \in D |-> Head(Items)]
      BY <2>2, <3>1
    <3> QED
      BY <1>2, <2>2, <3>2, <3>3 DEF Fifo!Takes
  <2> QED
    BY <2>1, <2>2 DEF TakesOK
<1>8. Fifo!Step(D, takes)
  <2>1. ASSUME NEW u \in Threads
        PROVE  LET now == Fifo!Witnessed(u, takes) IN
               \/ call'[u] = now
               \/ call[u] = None /\ \E op \in Fifo!Ops : call'[u] = Fifo!Fresh(op)
               \/ /\ Fifo!Open(u)
                  /\ \E a \in Threads \cup {None} :
                       Fifo!Permitted(now, a) /\ call'[u] = [now EXCEPT !.answer = a]
    <3>1. CASE u # t
      BY <3>1
    <3>2. CASE u = t
      BY <3>2 DEF MayBecome
    <3> QED
      BY <3>1, <3>2
  <2> QED
    BY <1>7, <2>1 DEF Fifo!Step
<1> QED
  BY <1>6, <1>8 DEF Fifo!Next

-----------------------------------------------------------------------------
(* Steps in which nothing is enqueued or dequeued *)

LEMMA ThreadIs ==
  ASSUME LinksInv, NEW t \in Threads
  PROVE  ThreadOK(heap, Old, Items = <<>>, t, local[t], call[t])
BY DEF LinksInv

\* Every call has noted already whether the queue is empty.
LEMMA QuietCalls ==
  ASSUME Names, None \notin Fifo!Calls, LinksInv, Items' = Items, NEW takes, DOMAIN takes = {},
         NEW u \in Threads
  PROVE  Fifo!Witnessed(u, takes) = call[u]
<1> SUFFICES ASSUME Fifo!Open(u), call[u].took = None
             PROVE  [call[u] EXCEPT !.empty = call[u].empty \/ Items = <<>>] = call[u]
  BY DEF Fifo!Witnessed
<1>1. call[u] \in Fifo!Calls /\ (Items = <<>> => call[u].empty)
  BY ThreadIs DEF ThreadOK, Watching, AtLink, Fifo!Open
<1>2. (call[u].empty \/ Items = <<>>) = call[u].empty
  BY <1>1 DEF Fifo!Calls
<1> QED
  BY <1>1, <1>2 DEF Fifo!Calls

LEMMA QuietMade ==
  ASSUME Names, None \notin Fifo!Calls, LinksInv, NEW t \in Threads, NEW l, NEW c,
         Queue(heap', OldWith(t, l, c), Items), Frame(heap, Old, heap', OldWith(t, l, c), t),
         heap'.next = heap.next,
         ThreadOK(heap', OldWith(t, l, c), Items = <<>>, t, l, c),
         local' = [local EXCEPT ![t] = l], call' = [call EXCEPT ![t] = c],
         \/ c = call[t]
         \/ call[t] = None /\ \E op \in Fifo!Ops : c = Fifo!Fresh(op)
         \/ /\ Fifo!Open(t)
            /\ \E a \in Threads \cup {None} :
                 Fifo!Permitted(call[t], a) /\ c = [call[t] EXCEPT !.answer = a]
  PROVE  LinksInv' /\ Fifo!Next
<1> DEFINE takes == [u \in {} |-> u]
<1>1. Items' = Items
  BY ItemsAreNext DEF Queue
<1>2. \A u \in Threads : Fifo!Witnessed(u, takes) = call[u]
  BY <1>1, QuietCalls
<1>3. takes \in [{} -> Threads] /\ {} \in SUBSET Threads
  OBVIOUS
<1>4. \A u \in Threads : ~Comes(heap, heap', u)
  BY DEF Comes, Names
<1> HIDE DEF takes
<1>5. call' = [u \in Threads |-> IF u = t THEN c ELSE Fifo!Witnessed(u, takes)]
  BY <1>2 DEF LinksInv
<1>6. TakesOK({}, takes, Items) /\ MayBecome(t, takes, c)
  BY <1>2 DEF TakesOK, MayBecome
<1> QED
  BY <1>3, <1>4, <1>5, <1>6, StepMade

\* What a thread can know when the heap stays as it is.
LEMMA HeapStays ==
  ASSUME LinksInv, UNCHANGED heap, NEW t \in Threads
  PROVE  Queue(heap', Old, Items) /\ Frame(heap, Old, heap', Old, t) /\ heap'.next = heap.next
BY DEF LinksInv, Frame

\* The nodes that the tail has been swung to stay, when thread t does not swing it.
LEMMA OldStays ==
  ASSUME Names, NEW t \in Threads, NEW l, NEW c,
         t \in Old <=> l.pc = "link" \/ (l.pc = "done" /\ c.op = "enqueue")
  PROVE  OldWith(t, l, c) = Old
BY DEF OldWith

-----------------------------------------------------------------------------
(* The actions *)

LEMMA BeginMade ==
  ASSUME Names, None \notin Fifo!Calls, LinksInv, NEW t \in Threads, Begin(t)
  PROVE  LinksInv' /\ Fifo!Next
<1> DEFINE l == [pc |-> "start"]
<1>1. PICK op \in Fifo!Ops : call' = [call EXCEPT ![t] = Fifo!Fresh(op)]
  BY DEF Begin
<1> DEFINE c == Fifo!Fresh(op)
<1>2. call[t] = None /\ heap' = heap /\ local' = [local EXCEPT ![t] = l]
  BY DEF Begin, Go
<1>3. c \in Fifo!Calls /\ c.answer = Pending /\ c.took = None /\ (c.empty <=> Items = <<>>)
  BY DEF Fifo!Fresh, Fifo!Calls
<1>4. t \notin Old
  BY <1>2, ThreadIs DEF ThreadOK, Watching, AtLink
<1> HIDE DEF c
<1>5. OldWith(t, l, c) = Old
  BY <1>4, OldStays
<1>6. ThreadOK(heap', Old, Items = <<>>, t, l, c)
  BY <1>3, <1>4 DEF ThreadOK, Watching
<1> HIDE DEF l
<1> QED
  BY <1>1, <1>2, <1>5, <1>6, HeapStays, QuietMade DEF c

\* A thread that has a call that is not linked yet.
LEMMA StartMade ==
  ASSUME Names, LinksInv, NEW t \in Threads, local[t].pc = "start"
  PROVE  Watching(Items = <<>>, call[t]) /\ t \notin Old
BY ThreadIs DEF ThreadOK

LEMMA EnqueueIs ==
  ASSUME Names, LinksInv, NEW t \in Threads, local[t].pc \in {"help", "mend", "swing"}
  PROVE  /\ Watching(Items = <<>>, call[t]) /\ call[t].op = "enqueue" /\ t \notin Old
         /\ AtEnqueue(heap, Old, t, local[t])
BY ThreadIs DEF ThreadOK

LEMMA LoadTailMade ==
  ASSUME Names, None \notin Fifo!Calls, LinksInv, NEW t \in Threads, LoadTail(t)
  PROVE  LinksInv' /\ Fifo!Next
<1> DEFINE l == [pc |-> "help", tail |-> heap.tail, prev |-> heap.prev[heap.tail]]
           c == call[t]
<1>1. /\ local[t].pc = "start" /\ c.op = "enqueue" /\ heap' = [heap EXCEPT !.prev[t] = heap.tail]
      /\ local' = [local EXCEPT ![t] = l] /\ call' = call
  BY DEF LoadTail, Go
<1>2. Watching(Items = <<>>, c) /\ t \in Threads \ Old
  BY <1>1, StartMade
<1>3. Queue(heap, Old, Items) /\ QueueInv(heap, Old) /\ heap \in Heaps /\ heap.tail \in Old /\ Old \subseteq Nodes
  BY DEF LinksInv, Queue, QueueInv
<1>4. /\ heap' \in Heaps /\ heap'.head = heap.head /\ heap'.tail = heap.tail /\ heap'.next = heap.next
      /\ heap'.prev[t] = heap.tail /\ \A n \in Nodes \ {t} : heap'.prev[n] = heap.prev[n]
  BY <1>1, <1>3, QueueTypes DEF Heaps
<1>5. Queue(heap', Old, Items)
  BY <1>2, <1>3, <1>4, PrevStep
<1>6. Frame(heap, Old, heap', Old, t)
  BY <1>2, <1>3, <1>4, QueueTypes DEF Frame
<1>7. AtEnqueue(heap', Old, t, l)
  BY <1>2, <1>3, <1>4 DEF AtEnqueue
<1>8. ThreadOK(heap', Old, Items = <<>>, t, l, c)
  BY <1>1, <1>2, <1>7 DEF ThreadOK
<1>9. OldWith(t, l, c) = Old
  BY <1>2, OldStays
<1>10. call' = [call EXCEPT ![t] = c]
  BY <1>1 DEF LinksInv
<1> HIDE DEF l, c
<1> QED
  BY <1>1, <1>4, <1>5, <1>6, <1>8, <1>9, <1>10, QuietMade DEF c

LEMMA HelpMade ==
  ASSUME Names, None \notin Fifo!Calls, LinksInv, NEW t \in Threads, Help(t)
  PROVE  LinksInv' /\ Fifo!Next
<1> DEFINE k == local[t]
           pc == IF k.prev # None /\ heap.next[k.prev] = None THEN "mend" ELSE "swing"
           l == [pc |-> pc, tail |-> k.tail, prev |-> k.prev]
           c == call[t]
<1>1. k.pc = "help" /\ heap' = heap /\ call' = call /\ local' = [local EXCEPT ![t] = [k EXCEPT !.pc = pc]]
  BY DEF Help, Go
<1>2. Watching(Items = <<>>, c) /\ c.op = "enqueue" /\ t \notin Old /\ AtEnqueue(heap, Old, t, k)
  BY <1>1, EnqueueIs
<1>3. [k EXCEPT !.pc = pc] = l
  <2>1. k = [pc |-> k.pc, tail |-> k.tail, prev |-> k.prev]
    BY <1>2 DEF AtEnqueue
  <2> HIDE DEF k, pc
  <2> QED
    BY <2>1
<1>4. pc = "mend" => k.prev # None
  OBVIOUS
<1>5. pc = "swing" => Linked(heap, k.tail)
  <2> SUFFICES ASSUME k.tail # Sentinel, pc = "swing" PROVE heap.next[heap.prev[k.tail]] = k.tail
    BY DEF Linked
  <2>1. k.tail \in Old \ {Sentinel} /\ k.prev = heap.prev[k.tail] /\ QueueInv(heap, Old)
    BY <1>2 DEF AtEnqueue, LinksInv, Queue
  <2>2. k.prev \in Nodes /\ heap.next[k.prev] \in {None, k.tail}
    BY <2>1, OneFollows
  <2>3. k.prev # None
    BY <2>1, <2>2, QueueTypes
  <2> QED
    BY <2>1, <2>2, <2>3
<1>6. AtEnqueue(heap', Old, t, l)
  <2> HIDE DEF pc
  <2> QED
    BY <1>1, <1>2, <1>4, <1>5 DEF AtEnqueue
<1>7. ThreadOK(heap', Old, Items = <<>>, t, l, c)
  BY <1>2, <1>6 DEF ThreadOK
<1>8. OldWith(t, l, c) = Old
  BY <1>2, OldStays
<1>9. call' = [call EXCEPT ![t] = c] /\ local' = [local EXCEPT ![t] = l]
  BY <1>1, <1>3 DEF LinksInv
<1> HIDE DEF l, c
<1> QED
  BY ZenonT(30), <1>1, <1>7, <1>8, <1>9, HeapStays, QuietMade DEF c

LEMMA SwingMade ==
  ASSUME Names, None \notin Fifo!Calls, LinksInv, NEW t \in Threads, Swing(t)
  PROVE  LinksInv' /\ Fifo!Next
<1> DEFINE k == local[t]
           c == call[t]
<1>1. k.pc = "swing" /\ call' = call
  BY DEF Swing
<1>2. Watching(Items = <<>>, c) /\ c.op = "enqueue" /\ t \notin Old /\ AtEnqueue(heap, Old, t, k)
  BY <1>1, EnqueueIs
<1>3. /\ Queue(heap, Old, Items) /\ QueueInv(heap, Old) /\ heap \in Heaps /\ heap.tail \in Old
      /\ Old \subseteq Nodes
  BY DEF LinksInv, Queue, QueueInv
<1>4. call' = [call EXCEPT ![t] = c]
  BY <1>1 DEF LinksInv
<1>5. CASE heap.tail = k.tail
  <2> DEFINE l == [pc |-> "link", tail |-> k.tail, prev |-> k.prev]
  <2>1. heap' = [heap EXCEPT !.tail = t] /\ local' = [local EXCEPT ![t] = [k EXCEPT !.pc = "link"]]
    BY <1>5 DEF Swing, Go
  <2>2. [k EXCEPT !.pc = "link"] = l
    <3>1. k = [pc |-> k.pc, tail |-> k.tail, prev |-> k.prev]
      BY <1>2 DEF AtEnqueue
    <3> HIDE DEF k
    <3> QED
      BY <3>1
  <2>3. /\ heap' \in Heaps /\ heap'.head = heap.head /\ heap'.tail = t /\ heap'.next = heap.next
        /\ heap'.prev = heap.prev
    BY <1>3, <2>1, QueueTypes DEF Heaps
  <2>4. heap.prev[t] = heap.tail /\ Linked(heap, heap.tail)
    BY <1>1, <1>2, <1>5 DEF AtEnqueue
  <2>5. Queue(heap', Old \cup {t}, Items)
    BY <1>2, <1>3, <2>3, <2>4, SwingStep
  <2>6. OldWith(t, l, c) = Old \cup {t}
    BY DEF OldWith
  <2>7. Frame(heap, Old, heap', Old \cup {t}, t)
    BY <2>3 DEF Frame
  <2>8. heap'.next[l.tail] # t
    BY <1>2, <1>3, <1>5, <2>3, QueueTypes DEF QueueInv
  <2>9. AtLink(heap', Items = <<>>, t, l, c)
    BY <1>2, <1>5, <2>3, <2>4, <2>8 DEF AtLink, Watching
  <2>10. ThreadOK(heap', Old \cup {t}, Items = <<>>, t, l, c)
    BY <2>9 DEF ThreadOK
  <2>11. local' = [local EXCEPT ![t] = l]
    BY <2>1, <2>2
  <2> HIDE DEF l, c
  <2> QED
    BY <1>4, <2>3, <2>5, <2>6, <2>7, <2>10, <2>11, QuietMade DEF c
<1>6. CASE heap.tail # k.tail
  <2> DEFINE l == [pc |-> "start"]
  <2>1. heap' = heap /\ local' = [local EXCEPT ![t] = l]
    BY <1>6 DEF Swing, Go
  <2>2. ThreadOK(heap', Old, Items = <<>>, t, l, c)
    BY <1>2 DEF ThreadOK
  <2>3. OldWith(t, l, c) = Old
    BY <1>2, OldStays
  <2> HIDE DEF l, c
  <2> QED
    BY <1>4, <2>1, <2>2, <2>3, HeapStays, QuietMade DEF c
<1> QED
  BY <1>5, <1>6

\* The link of q, behind its predecessor p, is made, if it is missing.
LEMMA LinkIs ==
  ASSUME Names, LinksInv, NEW q \in Old \ {Sentinel}, NEW p, p = heap.prev[q], Store(p, q)
  PROVE  /\ p \in Nodes /\ heap.next[p] \in {None, q} /\ heap'.next[p] = q /\ heap' \in Heaps
         /\ heap.next[p] = q => heap' = heap
         /\ heap.next[p] = None =>
              /\ Queue(heap', Old, Append(Items, q)) /\ q \in Threads
              /\ \A n \in Nodes \ {p} : heap'.next[n] = heap.next[n]
         /\ heap'.prev = heap.prev /\ heap'.head = heap.head
<1>1. Queue(heap, Old, Items) /\ QueueInv(heap, Old) /\ heap \in Heaps /\ q \in Threads
  BY DEF LinksInv, Queue, QueueInv, Nodes
<1>2. p \in Nodes /\ heap.next[p] \in {None, q}
  BY <1>1, OneFollows
<1>3. heap' = [heap EXCEPT !.next[p] = q]
  BY DEF Store
<1>4. /\ heap' \in Heaps /\ heap'.head = heap.head /\ heap'.tail = heap.tail
      /\ heap'.prev = heap.prev /\ heap'.next[p] = q
      /\ \A n \in Nodes \ {p} : heap'.next[n] = heap.next[n]
  BY <1>1, <1>2, <1>3 DEF Heaps
<1>5. heap.next[p] = q => heap' = heap
  BY <1>1, <1>2, <1>3 DEF Heaps
<1>6. heap.next[p] = None => Queue(heap', Old, Append(Items, q))
  BY <1>1, <1>4, LinkStep
<1> QED
  BY <1>1, <1>2, <1>4, <1>5, <1>6

\* Thread t makes the missing link of q, and goes to l with call c.
LEMMA LinkMade ==
  ASSUME Names, None \notin Fifo!Calls, LinksInv, NEW t \in Threads, NEW q \in Old \ {Sentinel},
         NEW p, p = heap.prev[q], Store(p, q), heap.next[p] = None, NEW l, NEW c,
         NEW takes \in [{q} -> Threads], takes[q] = q,
         OldWith(t, l, c) = Old, local' = [local EXCEPT ![t] = l],
         call' = [u \in Threads |-> IF u = t THEN c ELSE Fifo!Witnessed(u, takes)],
         ThreadOK(heap', Old, Append(Items, q) = <<>>, t, l, c), MayBecome(t, takes, c)
  PROVE  LinksInv' /\ Fifo!Next
<1>1. /\ p \in Nodes /\ heap'.next[p] = q /\ Queue(heap', Old, Append(Items, q)) /\ q \in Threads
      /\ \A n \in Nodes \ {p} : heap'.next[n] = heap.next[n]
      /\ heap'.prev = heap.prev /\ heap'.head = heap.head
  BY LinkIs
<1>2. Frame(heap, Old, heap', Old, t)
  BY <1>1 DEF Frame
<1>3. takes \in [{q} -> Threads] /\ {q} \in SUBSET Threads /\ takes[q] = q
  BY <1>1
<1>4. \A u \in Threads : u \in {q} <=> Comes(heap, heap', u)
  <2>1. \A u \in Threads : u # None
    BY DEF Names
  <2> QED
    BY <1>1, <2>1 DEF Comes
<1>5. Fifo!Open(q) /\ call[q].took = None /\ call[q].op = "enqueue"
  <2>1. local[q].pc = "link" \/ (local[q].pc = "done" /\ call[q].op = "enqueue")
    BY <1>1 DEF Old
  <2>2. q # None
    BY <1>1, QueueTypes DEF LinksInv, Queue
  <2>3. ~Linked(heap, q)
    BY <2>2 DEF Linked
  <2>4. AtLink(heap, Items = <<>>, q, local[q], call[q])
    BY <1>1, <2>1, <2>3, ThreadIs DEF ThreadOK
  <2> QED
    BY <2>2, <2>4 DEF AtLink, Fifo!Open
<1>6. TakesOK({q}, takes, Append(Items, q))
  BY <1>1, <1>3, <1>5 DEF TakesOK
<1> QED
  BY <1>1, <1>2, <1>3, <1>4, <1>6, StepMade

LEMMA MendMade ==
  ASSUME Names, None \notin Fifo!Calls, LinksInv, NEW t \in Threads, Mend(t)
  PROVE  LinksInv' /\ Fifo!Next
<1> DEFINE k == local[t]
           l == [pc |-> "swing", tail |-> k.tail, prev |-> k.prev]
           p == k.prev
           q == k.tail
<1>1. /\ k.pc = "mend" /\ Store(p, q) /\ call' = After(p)
      /\ local' = [local EXCEPT ![t] = [k EXCEPT !.pc = "swing"]]
  BY DEF Mend, Go
<1>2. /\ Watching(Items = <<>>, call[t]) /\ call[t].op = "enqueue" /\ t \notin Old
      /\ AtEnqueue(heap, Old, t, k)
  BY <1>1, EnqueueIs
<1>3. /\ Queue(heap, Old, Items) /\ QueueInv(heap, Old) /\ heap \in Heaps
      /\ q \in Old /\ p = heap.prev[q] /\ p # None /\ heap.prev[Sentinel] = None
  BY <1>1, <1>2 DEF LinksInv, Queue, QueueInv, AtEnqueue
<1>4. q \in Old \ {Sentinel}
  BY <1>3
<1>5. local' = [local EXCEPT ![t] = l]
  <2>1. k = [pc |-> k.pc, tail |-> k.tail, prev |-> k.prev]
    BY <1>2 DEF AtEnqueue
  <2> HIDE DEF k
  <2>2. [k EXCEPT !.pc = "swing"] = l
    BY <2>1
  <2> QED
    BY <1>1, <2>2
<1>6. /\ p \in Nodes /\ heap.next[p] \in {None, q} /\ heap'.next[p] = q
      /\ heap.next[p] = q => heap' = heap
      /\ heap'.prev = heap.prev /\ q # None
  BY <1>1, <1>3, <1>4, LinkIs, QueueTypes
<1>7. Linked(heap', q) /\ AtEnqueue(heap', Old, t, l)
  BY <1>2, <1>3, <1>6 DEF Linked, AtEnqueue
<1>8. CASE heap.next[p] = None
  <2> DEFINE takes == [u \in {q} |-> u]
             c == Fifo!Witnessed(t, takes)
  <2>1. call' = [u \in Threads |-> Fifo!Witnessed(u, takes)]
    BY <1>1, <1>6, <1>8 DEF After
  <2>2. Queue(heap', Old, Append(Items, q)) /\ q \in Threads
    BY <1>1, <1>3, <1>4, <1>8, LinkIs
  <2>3. Items' = Append(Items, q)
    BY <2>2, ItemsAreNext DEF Queue
  <2>4. ~Comes(heap, heap', t)
    <3> SUFFICES ASSUME NEW n \in Nodes, heap'.next[n] = t PROVE FALSE
      BY DEF Comes
    <3> QED
      BY <1>2, <2>2, QueueTypes DEF Queue, QueueInv
  <2> DEFINE none == Append(Items, q) = <<>>
  <2>5. c = Watch(heap, heap', none, t, call[t])
    BY <1>2, <1>4, <2>3, <2>4 DEF Fifo!Witnessed, Fifo!Open, Watch
  <2>6. Watching(none, c) /\ c.op = "enqueue"
    <3> none \in BOOLEAN
      OBVIOUS
    <3> HIDE DEF none, c
    <3> QED
      BY <1>2, <2>4, <2>5, WatchingKeeps
  <2>7. ThreadOK(heap', Old, none, t, l, c)
    <3> HIDE DEF none, c
    <3> QED
      BY <1>2, <1>7, <2>6 DEF ThreadOK
  <2>8. OldWith(t, l, c) = Old
    BY <1>2, OldStays
  <2>9. MayBecome(t, takes, c)
    BY DEF MayBecome
  <2>10. call' = [u \in Threads |-> IF u = t THEN c ELSE Fifo!Witnessed(u, takes)]
    BY <2>1
  <2>11. takes \in [{q} -> Threads] /\ takes[q] = q
    BY <2>2
  <2> HIDE DEF l, c, takes, p, q
  <2> QED
    BY <1>1, <1>3, <1>4, <1>5, <1>8, <2>7, <2>8, <2>9, <2>10, <2>11, LinkMade
<1>9. CASE heap.next[p] = q
  <2> DEFINE c == call[t]
  <2>1. heap' = heap
    BY <1>6, <1>9
  <2>2. Items' = Items
    BY <1>3, <2>1, ItemsAreNext DEF Queue
  <2> DEFINE takes == [w \in {} |-> w]
  <2>3. call' = [u \in Threads |-> Fifo!Witnessed(u, takes)]
    BY <1>1, <1>6, <1>9 DEF After
  <2>4. DOMAIN takes = {}
    OBVIOUS
  <2> HIDE DEF takes
  <2>5. call' = [call EXCEPT ![t] = c]
    BY <2>2, <2>3, <2>4, QuietCalls DEF LinksInv
  <2>6. ThreadOK(heap', Old, Items = <<>>, t, l, c)
    BY <1>2, <1>7 DEF ThreadOK
  <2>7. OldWith(t, l, c) = Old
    BY <1>2, OldStays
  <2> HIDE DEF l, c
  <2> QED
    BY <1>5, <2>1, <2>5, <2>6, <2>7, HeapStays, QuietMade DEF c
<1> QED
  BY <1>6, <1>8, <1>9

LEMMA LinkTailMade ==
  ASSUME Names, None \notin Fifo!Calls, LinksInv, NEW t \in Threads, LinkTail(t)
  PROVE  LinksInv' /\ Fifo!Next
<1> DEFINE k == local[t]
           l == [pc |-> "done"]
           p == k.tail
<1>1. /\ k.pc = "link" /\ Store(p, t) /\ local' = [local EXCEPT ![t] = l]
      /\ call' = [After(p) EXCEPT ![t].answer = t]
  BY DEF LinkTail, Go, Answer
<1>2. AtLink(heap, Items = <<>>, t, k, call[t]) /\ t \in Old \ {Sentinel} /\ p = heap.prev[t]
  BY <1>1, ThreadIs DEF ThreadOK, AtLink, Names
<1>3. Queue(heap, Old, Items) /\ QueueInv(heap, Old) /\ heap \in Heaps /\ t # None
  BY DEF LinksInv, Queue, QueueInv, Names
<1>4. /\ p \in Nodes /\ heap.next[p] \in {None, t} /\ heap'.next[p] = t
      /\ heap.next[p] = t => heap' = heap
      /\ heap'.prev = heap.prev
  BY <1>1, <1>2, LinkIs
<1>5. call[t] \in Fifo!Calls /\ Fifo!Open(t) /\ call[t].op = "enqueue"
  BY <1>2 DEF AtLink, Fifo!Open
<1>6. Linked(heap', t)
  BY <1>2, <1>4 DEF Linked
<1> DEFINE done == [op |-> "enqueue", empty |-> call[t].empty, took |-> t, answer |-> t]
<1>7. done \in Fifo!Calls /\ done.op = "enqueue" /\ done.answer # Pending
  BY <1>5 DEF Fifo!Calls, Names
<1>8. ASSUME NEW none PROVE ThreadOK(heap', Old, none, t, l, done)
  <2> HIDE DEF done
  <2> QED
    BY <1>2, <1>6, <1>7 DEF ThreadOK
<1>9. OldWith(t, l, done) = Old
  <2> HIDE DEF done
  <2> QED
    BY <1>2, <1>7, OldStays
<1>10. CASE heap.next[p] = None
  <2> DEFINE takes == [u \in {t} |-> u]
             now == Fifo!Witnessed(t, takes)
  <2>1. call' = [[u \in Threads |-> Fifo!Witnessed(u, takes)] EXCEPT ![t].answer = t]
    BY <1>1, <1>4, <1>10 DEF After
  <2>2. now = [call[t] EXCEPT !.took = t]
    BY <1>2, <1>3, <1>5, <1>10 DEF Fifo!Witnessed, AtLink
  <2>3. done = [now EXCEPT !.answer = t] /\ now.took = t
    BY <1>5, <2>2 DEF Fifo!Calls
  <2>4. MayBecome(t, takes, done)
    <3> HIDE DEF done, now
    <3>1. Fifo!Permitted(now, t)
      BY <1>3, <2>3 DEF Fifo!Permitted
    <3> QED
      BY <1>5, <2>3, <3>1 DEF MayBecome, now
  <2>5. call' = [u \in Threads |-> IF u = t THEN done ELSE Fifo!Witnessed(u, takes)]
    <3> HIDE DEF done, takes
    <3> QED
      BY <2>1, <2>3 DEF now
  <2>6. takes \in [{t} -> Threads] /\ takes[t] = t
    OBVIOUS
  <2>7. ThreadOK(heap', Old, Append(Items, t) = <<>>, t, l, done)
    BY <1>8
  <2> HIDE DEF l, done, takes, p
  <2> QED
    BY <1>1, <1>2, <1>9, <1>10, <2>4, <2>5, <2>6, <2>7, LinkMade
<1>11. CASE heap.next[p] = t
  <2>1. heap' = heap
    BY <1>4, <1>11
  <2>2. Items' = Items
    BY <1>3, <2>1, ItemsAreNext DEF Queue
  <2> DEFINE takes == [w \in {} |-> w]
  <2>3. call' = [[u \in Threads |-> Fifo!Witnessed(u, takes)] EXCEPT ![t].answer = t]
    BY <1>1, <1>3, <1>4, <1>11 DEF After
  <2>4. DOMAIN takes = {}
    OBVIOUS
  <2> HIDE DEF takes
  <2>5. call[t].took = t /\ done = [call[t] EXCEPT !.answer = t]
    BY <1>2, <1>5, <1>11 DEF AtLink, Fifo!Calls
  <2>6. \A u \in Threads : Fifo!Witnessed(u, takes) = call[u]
    BY <2>2, <2>4, QuietCalls
  <2>7. call' = [call EXCEPT ![t] = done]
    <3> HIDE DEF done
    <3> QED
      BY <2>3, <2>5, <2>6 DEF LinksInv
  <2>8. Fifo!Permitted(call[t], t)
    BY <1>3, <2>5 DEF Fifo!Permitted
  <2>9. ThreadOK(heap', Old, Items = <<>>, t, l, done)
    BY <1>8
  <2> HIDE DEF l, done
  <2> QED
    BY ZenonT(30), <1>1, <1>5, <1>9, <2>1, <2>5, <2>7, <2>8, <2>9, HeapStays, QuietMade
<1> QED
  BY <1>4, <1>10, <1>11

LEMMA LoadHeadMade ==
  ASSUME Names, None \notin Fifo!Calls, LinksInv, NEW t \in Threads, LoadHead(t)
  PROVE  LinksInv' /\ Fifo!Next
<1> DEFINE l == [pc |-> "next", head |-> heap.head]
           c == call[t]
<1>1. /\ local[t].pc = "start" /\ c.op = "dequeue" /\ heap' = heap /\ call' = call
      /\ local' = [local EXCEPT ![t] = l]
  BY DEF LoadHead, Go
<1>2. Watching(Items = <<>>, c) /\ t \notin Old
  BY <1>1, StartMade
<1>3. AtDequeue(heap', Old, l)
  BY <1>1 DEF AtDequeue, LinksInv, Queue, QueueInv
<1>4. ThreadOK(heap', Old, Items = <<>>, t, l, c)
  BY <1>1, <1>2, <1>3 DEF ThreadOK
<1>5. OldWith(t, l, c) = Old
  BY <1>2, OldStays
<1>6. call' = [call EXCEPT ![t] = c]
  BY <1>1 DEF LinksInv
<1> HIDE DEF l, c
<1> QED
  BY <1>1, <1>4, <1>5, <1>6, HeapStays, QuietMade DEF c

LEMMA DequeueIs ==
  ASSUME Names, LinksInv, NEW t \in Threads, local[t].pc \in {"next", "take"}
  PROVE  /\ Watching(Items = <<>>, call[t]) /\ call[t].op = "dequeue" /\ t \notin Old
         /\ AtDequeue(heap, Old, local[t])
BY ThreadIs DEF ThreadOK

LEMMA LoadNextMade ==
  ASSUME Names, None \notin Fifo!Calls, LinksInv, NEW t \in Threads, LoadNext(t)
  PROVE  LinksInv' /\ Fifo!Next
<1> DEFINE k == local[t]
<1>1. k.pc = "next" /\ heap' = heap
  BY DEF LoadNext
<1>2. /\ Watching(Items = <<>>, call[t]) /\ call[t].op = "dequeue" /\ t \notin Old
      /\ AtDequeue(heap, Old, k)
  BY <1>1, DequeueIs
<1>3. CASE heap.next[k.head] = None
  <2> DEFINE l == [pc |-> "done"]
             c == [call[t] EXCEPT !.answer = None]
  <2>1. local' = [local EXCEPT ![t] = l] /\ call' = [call EXCEPT ![t].answer = None]
    BY <1>3 DEF LoadNext, Answer, Go
  <2>2. Items = <<>>
    <3>1. IsList(heap, Items) /\ heap.next[heap.head] = None
      BY <1>2, <1>3 DEF AtDequeue, LinksInv, Queue
    <3>2. Len(Items) \in Nat /\ Items \in Seq(Threads) /\ None \notin Threads
      BY <3>1, ListTypes DEF IsList, Names
    <3>3. 0 \in 0 .. Len(Items) /\ At(heap, Items, 0) = heap.head
      BY <3>2 DEF At
    <3>4. Len(Items) # 0 => Items[0 + 1] = None
      BY <3>1, <3>3 DEF IsList
    <3>5. Len(Items) # 0 => Items[1] \in Threads
      BY <3>1, ListTypes, <3>2 DEF IsList
    <3>6. Len(Items) = 0
      BY <3>2, <3>4, <3>5
    <3> QED
      BY <3>2, <3>6, ListTypes
  <2>3. call[t] \in Fifo!Calls /\ call[t].empty /\ Fifo!Open(t) /\ call[t].took = None
    BY <1>2, <2>2 DEF Watching, Fifo!Open
  <2>4. c \in Fifo!Calls /\ c.op = "dequeue" /\ c.answer # Pending
    BY <1>2, <2>3 DEF Fifo!Calls, Names
  <2>5. Fifo!Permitted(call[t], None)
    BY <1>2, <2>3 DEF Fifo!Permitted
  <2>6. c = [call[t] EXCEPT !.answer = None] /\ call' = [call EXCEPT ![t] = c]
    BY <2>1
  <2> HIDE DEF c
  <2>7. ThreadOK(heap', Old, Items = <<>>, t, l, c)
    BY <1>2, <2>4 DEF ThreadOK
  <2>8. OldWith(t, l, c) = Old
    BY <1>2, <2>4, OldStays
  <2> HIDE DEF l
  <2> QED
    BY ZenonT(30), <1>1, <2>1, <2>3, <2>5, <2>6, <2>7, <2>8, HeapStays, QuietMade
<1>4. CASE heap.next[k.head] # None
  <2> DEFINE l == [pc |-> "take", head |-> k.head, next |-> heap.next[k.head]]
             c == call[t]
  <2>1. local' = [local EXCEPT ![t] = l] /\ call' = call
    BY <1>4 DEF LoadNext, Go
  <2>2. AtDequeue(heap', Old, l)
    BY <1>1, <1>2, <1>4 DEF AtDequeue
  <2>3. ThreadOK(heap', Old, Items = <<>>, t, l, c)
    BY <1>2, <2>2 DEF ThreadOK
  <2>4. OldWith(t, l, c) = Old
    BY <1>2, OldStays
  <2>5. call' = [call EXCEPT ![t] = c]
    BY <2>1 DEF LinksInv
  <2> HIDE DEF l, c
  <2> QED
    BY <1>1, <2>1, <2>3, <2>4, <2>5, HeapStays, QuietMade DEF c
<1> QED
  BY <1>3, <1>4

LEMMA TakeMade ==
  ASSUME Names, None \notin Fifo!Calls, LinksInv, NEW t \in Threads, Take(t)
  PROVE  LinksInv' /\ Fifo!Next
<1> DEFINE k == local[t]
<1>1. k.pc = "take"
  BY DEF Take
<1>2. /\ Watching(Items = <<>>, call[t]) /\ call[t].op = "dequeue" /\ t \notin Old
      /\ AtDequeue(heap, Old, k)
  BY <1>1, DequeueIs
<1>3. Queue(heap, Old, Items) /\ QueueInv(heap, Old) /\ heap \in Heaps
  BY DEF LinksInv, Queue, QueueInv
<1>4. CASE heap.head = k.head
  <2> DEFINE l == [pc |-> "done"]
             n == k.next
             takes == [w \in {t} |-> n]
             now == Fifo!Witnessed(t, takes)
             done == [op |-> "dequeue", empty |-> call[t].empty, took |-> n, answer |-> n]
             s == Tail(Items)
  <2>1. /\ heap' = [heap EXCEPT !.head = n] /\ local' = [local EXCEPT ![t] = l]
        /\ call' = [[u \in Threads |-> Fifo!Witnessed(u, takes)] EXCEPT ![t].answer = n]
    BY <1>4 DEF Take, Answer, Go
  <2>2. n = heap.next[heap.head] /\ n # None /\ n \in Threads /\ n \in Nodes
    BY <1>1, <1>2, <1>3, <1>4, QueueTypes DEF AtDequeue
  <2>3. /\ heap' \in Heaps /\ heap'.head = n /\ heap'.tail = heap.tail /\ heap'.next = heap.next
        /\ heap'.prev = heap.prev
    BY <1>3, <2>1, <2>2 DEF Heaps
  <2>4. Queue(heap', Old, s) /\ Items # <<>> /\ Head(Items) = n
    BY <1>3, <2>2, <2>3, TakeStep
  <2>5. Frame(heap, Old, heap', Old, t)
    BY <2>2, <2>3 DEF Frame
  <2>6. \A u \in Threads : ~Comes(heap, heap', u)
    BY <2>3 DEF Comes, Names
  <2>7. call[t] \in Fifo!Calls /\ Fifo!Open(t) /\ call[t].took = None
    BY <1>2 DEF Watching, Fifo!Open
  <2>8. now = [call[t] EXCEPT !.took = n]
    BY <2>7 DEF Fifo!Witnessed
  <2>9. done = [now EXCEPT !.answer = n] /\ now.took = n
    BY <1>2, <2>7, <2>8 DEF Fifo!Calls
  <2>10. done \in Fifo!Calls /\ done.op = "dequeue" /\ done.answer # Pending
    BY <1>2, <2>2, <2>7 DEF Fifo!Calls, Names
  <2>11. call' = [u \in Threads |-> IF u = t THEN done ELSE Fifo!Witnessed(u, takes)]
    <3> HIDE DEF done, takes, n
    <3> QED
      BY <2>1, <2>9 DEF now
  <2>12. takes \in [{t} -> Threads] /\ takes[t] = n /\ {t} \in SUBSET Threads
    BY <2>2
  <2>13. TakesOK({t}, takes, s)
    <3>1. /\ Fifo!Open(t) /\ call[t].took = None /\ call[t].op # "enqueue"
          /\ Items # <<>> /\ takes[t] = Head(Items) /\ s = Tail(Items)
      BY <1>2, <2>4, <2>7, <2>12
    <3> HIDE DEF takes, s, n
    <3> QED
      BY <3>1 DEF TakesOK
  <2>14. MayBecome(t, takes, done)
    <3> HIDE DEF done, now, n
    <3>1. Fifo!Permitted(now, n)
      BY <2>2, <2>9 DEF Fifo!Permitted
    <3> QED
      BY <2>2, <2>7, <2>9, <3>1 DEF MayBecome, now
  <2> HIDE DEF done
  <2>15. ThreadOK(heap', Old, s = <<>>, t, l, done)
    <3> DEFINE none == s = <<>>
    <3> HIDE DEF none
    <3>1. ThreadOK(heap', Old, none, t, l, done)
      BY <1>2, <2>10 DEF ThreadOK
    <3> QED
      BY <3>1 DEF none
  <2>16. OldWith(t, l, done) = Old
    BY <1>2, <2>10, OldStays
  <2> HIDE DEF l, takes, s
  <2> QED
    BY <2>1, <2>4, <2>5, <2>6, <2>11, <2>12, <2>13, <2>14, <2>15, <2>16, StepMade
<1>5. CASE heap.head # k.head
  <2> DEFINE l == [pc |-> "start"]
             c == call[t]
  <2>1. heap' = heap /\ local' = [local EXCEPT ![t] = l] /\ call' = call
    BY <1>5 DEF Take, Go
  <2>2. ThreadOK(heap', Old, Items = <<>>, t, l, c)
    BY <1>2 DEF ThreadOK
  <2>3. OldWith(t, l, c) = Old
    BY <1>2, OldStays
  <2>4. call' = [call EXCEPT ![t] = c]
    BY <2>1 DEF LinksInv
  <2> HIDE DEF l, c
  <2> QED
    BY <2>1, <2>2, <2>3, <2>4, HeapStays, QuietMade DEF c
<1> QED
  BY <1>4, <1>5

-----------------------------------------------------------------------------
(* The theorems *)

LEMMA InitMade ==
  ASSUME Names, Init
  PROVE  LinksInv /\ Fifo!Init
<1>1. /\ heap.head = Sentinel /\ heap.tail = Sentinel /\ heap \in Heaps
      /\ \A n \in Nodes : heap.next[n] = None /\ heap.prev[n] = None
      /\ Sentinel \in Nodes
  BY DEF Init, Heaps, Nodes
<1>2. Old = {Sentinel}
  BY DEF Init, Old
<1>3. QueueInv(heap, Old)
  BY <1>1, <1>2 DEF QueueInv, Linked
<1>4. IsList(heap, <<>>)
  <2>1. <<>> \in Seq(Threads) /\ Len(<<>>) = 0
    BY EmptySeq
  <2>2. 1 .. 0 = {} /\ 0 .. 0 = {0}
    OBVIOUS
  <2> QED
    BY <1>1, <2>1, <2>2 DEF IsList, At
<1>5. Items = <<>>
  BY <1>4, ItemsAre
<1>6. Queue(heap, Old, Items)
  <2>1. Len(<<>>) = 0
    BY EmptySeq
  <2> QED
    BY <1>1, <1>3, <1>4, <1>5, <2>1 DEF Queue, Ends, At
<1>7. \A t \in Threads : ThreadOK(heap, Old, Items = <<>>, t, local[t], call[t])
  BY <1>2 DEF Init, ThreadOK, Names
<1> QED
  BY <1>5, <1>6, <1>7 DEF LinksInv, Fifo!Init, Init

LEMMA NextMade ==
  ASSUME Names, None \notin Fifo!Calls, LinksInv, Next
  PROVE  LinksInv' /\ Fifo!Next
<1>1. PICK t \in Threads : Begin(t) \/ Access(t)
  BY DEF Next
<1>2. CASE Begin(t)
  BY <1>2, BeginMade
<1>3. CASE LoadTail(t)
  BY <1>3, LoadTailMade
<1>4. CASE Help(t)
  BY <1>4, HelpMade
<1>5. CASE Mend(t)
  BY <1>5, MendMade
<1>6. CASE Swing(t)
  BY <1>6, SwingMade
<1>7. CASE LinkTail(t)
  BY <1>7, LinkTailMade
<1>8. CASE LoadHead(t)
  BY <1>8, LoadHeadMade
<1>9. CASE LoadNext(t)
  BY <1>9, LoadNextMade
<1>10. CASE Take(t)
  BY <1>10, TakeMade
<1> QED
  BY <1>1, <1>2, <1>3, <1>4, <1>5, <1>6, <1>7, <1>8, <1>9, <1>10 DEF Access

LEMMA StutterMade ==
  ASSUME LinksInv, UNCHANGED vars
  PROVE  LinksInv' /\ UNCHANGED <<Items, call>>
<1>1. heap' = heap /\ local' = local /\ call' = call
  BY DEF vars
<1>2. Items' = Items /\ Old' = Old
  BY <1>1 DEF Items, Behind, Old
<1> QED
  BY <1>1, <1>2 DEF LinksInv

\* Whatever its threads meet, the queue of circ_ds is first in, first out: an
\* enqueue takes effect when its node is linked, by its thread or by the next
\* one, once, and a dequeue that answers nothing has seen the queue empty.
THEOREM IsFifoHolds ==
  ASSUME Names, None \notin Fifo!Calls
  PROVE  Spec => IsFifo
<1>1. Init => LinksInv /\ Fifo!Init
  BY InitMade
<1>2. LinksInv /\ [Next]_vars => LinksInv' /\ [Fifo!Next]_<<Items, call>>
  BY NextMade, StutterMade
<1> QED
  BY <1>1, <1>2, PTL DEF Spec, IsFifo, Fifo!Spec
=============================================================================
