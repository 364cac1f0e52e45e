---------------------------- MODULE TreeProofs ----------------------------
(***************************************************************************)
(* Proofs about NatarajanMittalTree and DynStatics, for every set of       *)
(* threads and keys: the tree that is reached from the root stays a search *)
(* tree, it implements the abstract map of ConcurrentMap, and everyone     *)
(* gets the same static.                                                   *)
(***************************************************************************)
EXTENDS DynStatics, TLAPS, FiniteSetTheorems, WellFoundedInduction

\* Threads and keys are told apart, and None and Pending from both.
Names ==
  /\ Keys \subseteq Nat /\ IsFiniteSet(Keys)
  /\ Inf \in Nat /\ \A k \in Keys : k < Inf
  /\ Threads \cap Nat = {}
  /\ {None, Pending} \cap (Keys \cup Threads) = {} /\ None # Pending
  /\ None \notin Map!Calls /\ \A v \in Keys \cup Threads : None # Leaf(v)

-----------------------------------------------------------------------------
(* Heaps.  The lemmas of this part are about any heap H. *)

Sides == {"L", "R"}

To(H, n, side) == H.edge[<<n, side>>].to
Flagged(H, n, side) == H.edge[<<n, side>>].flag
Tagged(H, n, side) == H.edge[<<n, side>>].tag
Marked(H, n, side) == Flagged(H, n, side) \/ Tagged(H, n, side)

\* Where a search for k goes on from n.
Child(H, n, k) == To(H, n, Side(H, n, k))

Made(H) == DOMAIN H.key
Inners(H) == {n \in Made(H) : Internal(H, n)}

Shape(H) ==
  /\ H = [key |-> H.key, edge |-> H.edge] /\ H.edge = [e \in DOMAIN H.edge |-> H.edge[e]]
  /\ \A n \in Made(H) : H.key[n] \in Keys \cup {Inf}
  /\ DOMAIN H.edge = Inners(H) \X Sides
  /\ \A n \in Inners(H) : \A s \in Sides :
       H.edge[<<n, s>>] \in [to : Made(H), flag : BOOLEAN, tag : BOOLEAN]
  /\ S \in Inners(H) /\ H.key[S] = Inf

Closed(H, k, C) == \A n \in C : Internal(H, n) => Child(H, n, k) \in C

\* The nodes that a search for k meets from n on.
Walk(H, n, k) == {m \in Made(H) : \A C \in SUBSET Made(H) : n \in C /\ Closed(H, k, C) => m \in C}
Path(H, k) == Walk(H, S, k)

ClosedBelow(H, C) == \A n \in C : Internal(H, n) => To(H, n, "L") \in C /\ To(H, n, "R") \in C

\* The nodes that can be reached from n.
Below(H, n) == {m \in Made(H) : \A C \in SUBSET Made(H) : n \in C /\ ClosedBelow(H, C) => m \in C}

LEMMA SidesAre ==
  /\ \A H, n, k : Side(H, n, k) \in Sides
  /\ \A s \in Sides : Other(s) \in Sides /\ Other(s) # s /\ Other(Other(s)) = s
  /\ \A s, r \in Sides : s = r \/ s = Other(r)
BY DEF Side, Sides, Other

LEMMA EdgeTypes ==
  ASSUME NEW H, Shape(H), NEW n \in Made(H), Internal(H, n)
  PROVE  /\ \A s \in Sides : To(H, n, s) \in Made(H) /\ Flagged(H, n, s) \in BOOLEAN
                             /\ Tagged(H, n, s) \in BOOLEAN
         /\ \A k : Child(H, n, k) \in Made(H)
<1>1. \A s \in Sides : To(H, n, s) \in Made(H) /\ Flagged(H, n, s) \in BOOLEAN
                       /\ Tagged(H, n, s) \in BOOLEAN
  BY DEF Shape, Inners, To, Flagged, Tagged
<1> QED
  BY <1>1, SidesAre DEF Child

LEMMA WalkClosed ==
  ASSUME NEW H, Shape(H), NEW n \in Made(H), NEW k
  PROVE  /\ n \in Walk(H, n, k) /\ Walk(H, n, k) \subseteq Made(H)
         /\ Closed(H, k, Walk(H, n, k))
<1>1. n \in Walk(H, n, k) /\ Walk(H, n, k) \subseteq Made(H)
  BY DEF Walk
<1>2. ASSUME NEW m \in Walk(H, n, k), Internal(H, m)
      PROVE  Child(H, m, k) \in Walk(H, n, k)
  <2>1. Child(H, m, k) \in Made(H)
    BY <1>1, <1>2, EdgeTypes
  <2> SUFFICES ASSUME NEW C \in SUBSET Made(H), n \in C, Closed(H, k, C)
               PROVE  Child(H, m, k) \in C
    BY <2>1 DEF Walk
  <2> QED
    BY <1>2 DEF Walk, Closed
<1> QED
  BY <1>1, <1>2 DEF Closed

LEMMA WalkLeast ==
  ASSUME NEW H, NEW n, NEW k, NEW C \in SUBSET Made(H), n \in C, Closed(H, k, C)
  PROVE  Walk(H, n, k) \subseteq C
BY DEF Walk

\* A search meets the first node, and what it meets from the next one on.
LEMMA WalkSplit ==
  ASSUME NEW H, Shape(H), NEW n \in Made(H), NEW k
  PROVE  /\ Internal(H, n) => Walk(H, n, k) = {n} \cup Walk(H, Child(H, n, k), k)
         /\ ~Internal(H, n) => Walk(H, n, k) = {n}
<1>1. ASSUME Internal(H, n)
      PROVE  Walk(H, n, k) = {n} \cup Walk(H, Child(H, n, k), k)
  <2> DEFINE c == Child(H, n, k)
  <2>1. c \in Made(H)
    BY <1>1, EdgeTypes
  <2>2. n \in Walk(H, n, k) /\ c \in Walk(H, n, k) /\ Closed(H, k, Walk(H, n, k))
        /\ Walk(H, n, k) \subseteq Made(H)
    BY <1>1, WalkClosed DEF Closed
  <2>3. c \in Walk(H, c, k) /\ Closed(H, k, Walk(H, c, k)) /\ Walk(H, c, k) \subseteq Made(H)
    BY <2>1, WalkClosed
  <2> HIDE DEF c
  <2>4. Walk(H, c, k) \subseteq Walk(H, n, k)
    BY <2>2, WalkLeast
  <2>5. Closed(H, k, {n} \cup Walk(H, c, k))
    BY <2>3 DEF Closed, c
  <2>6. Walk(H, n, k) \subseteq {n} \cup Walk(H, c, k)
    BY <2>3, <2>5, WalkLeast
  <2> QED
    BY <2>2, <2>4, <2>6 DEF c
<1>2. ASSUME ~Internal(H, n)
      PROVE  Walk(H, n, k) = {n}
  <2>1. Closed(H, k, {n})
    BY <1>2 DEF Closed
  <2> QED
    BY <2>1, WalkClosed, WalkLeast
<1> QED
  BY <1>1, <1>2

LEMMA BelowClosed ==
  ASSUME NEW H, Shape(H), NEW n \in Made(H)
  PROVE  /\ n \in Below(H, n) /\ Below(H, n) \subseteq Made(H)
         /\ \A m \in Below(H, n), s \in Sides : Internal(H, m) => To(H, m, s) \in Below(H, n)
<1>1. n \in Below(H, n) /\ Below(H, n) \subseteq Made(H)
  BY DEF Below
<1>2. ASSUME NEW m \in Below(H, n), Internal(H, m), NEW s \in Sides
      PROVE  To(H, m, s) \in Below(H, n)
  <2>1. To(H, m, s) \in Made(H)
    BY <1>1, <1>2, EdgeTypes
  <2> SUFFICES ASSUME NEW C \in SUBSET Made(H), n \in C, ClosedBelow(H, C)
               PROVE  To(H, m, s) \in C
    BY <2>1 DEF Below
  <2> QED
    BY <1>2 DEF Below, ClosedBelow, Sides
<1> QED
  BY <1>1, <1>2

LEMMA BelowLeast ==
  ASSUME NEW H, NEW n, NEW C \in SUBSET Made(H), n \in C,
         \A m \in C, s \in Sides : Internal(H, m) => To(H, m, s) \in C
  PROVE  Below(H, n) \subseteq C
BY DEF Below, ClosedBelow, Sides

LEMMA PathBelow ==
  ASSUME NEW H, Shape(H), NEW k
  PROVE  /\ S \in Path(H, k) /\ Path(H, k) \subseteq Below(H, S) /\ Below(H, S) \subseteq Made(H)
         /\ Path(H, k) \subseteq Made(H)
         /\ \A n \in Path(H, k) : Internal(H, n) => Child(H, n, k) \in Path(H, k)
<1>1. S \in Made(H)
  BY DEF Shape, Inners
<1>2. S \in Path(H, k) /\ Path(H, k) \subseteq Made(H) /\ Closed(H, k, Path(H, k))
  BY <1>1, WalkClosed DEF Path
<1>3. S \in Below(H, S) /\ Below(H, S) \subseteq Made(H) /\ Closed(H, k, Below(H, S))
  BY <1>1, BelowClosed, SidesAre DEF Closed, Child
<1>4. Path(H, k) \subseteq Below(H, S)
  BY <1>3, WalkLeast DEF Path
<1> QED
  BY <1>2, <1>3, <1>4 DEF Closed

\* A search comes from somewhere.
LEMMA PathFrom ==
  ASSUME NEW H, Shape(H), NEW k, NEW z \in Path(H, k), z # S
  PROVE  \E n \in Path(H, k) : Internal(H, n) /\ Child(H, n, k) = z
<1> SUFFICES ASSUME \A n \in Path(H, k) : Internal(H, n) => Child(H, n, k) # z
             PROVE  FALSE
  OBVIOUS
<1>1. Closed(H, k, Path(H, k) \ {z})
  BY PathBelow DEF Closed
<1>2. Path(H, k) \subseteq Path(H, k) \ {z}
  BY <1>1, PathBelow, WalkLeast DEF Path
<1> QED
  BY <1>2

-----------------------------------------------------------------------------
(* Trees *)

\* The sentinels: no edge leads back to them.
Rooted(H) ==
  /\ R \in Inners(H) /\ To(H, R, "L") = S
  /\ \A n \in {R, S} : ~Internal(H, To(H, n, "R")) /\ H.key[To(H, n, "R")] = Inf
  /\ \A n \in Inners(H), s \in Sides : To(H, n, s) # R /\ (To(H, n, s) = S => n = R)

\* What is below them is a sentinel, too, and has one on its right.
AtTop(H) ==
  LET top == To(H, S, "L") IN
  /\ H.key[top] = Inf
  /\ Internal(H, top) => ~Internal(H, To(H, top, "R")) /\ H.key[To(H, top, "R")] = Inf

\* No two edges lead to the same node.
Single(H) ==
  \A n, m \in Below(H, S), s, r \in Sides :
    Internal(H, n) /\ Internal(H, m) /\ To(H, n, s) = To(H, m, r) => n = m /\ s = r

\* A leaf with a key is where a search for its key ends.
OnPath(H) ==
  \A z \in Below(H, S) : ~Internal(H, z) /\ H.key[z] \in Keys => z \in Path(H, H.key[z])

\* Leaves are flagged, and the edge to a sibling is tagged.
MarksOK(H) ==
  \A n \in Inners(H), s \in Sides :
    /\ Flagged(H, n, s) => ~Internal(H, To(H, n, s)) /\ H.key[To(H, n, s)] \in Keys
    /\ Tagged(H, n, s) => Flagged(H, n, Other(s))

\* Edges do not lead round in circles.
Founded(H) ==
  \A Z \in SUBSET Inners(H) : (\A n \in Z : \E s \in Sides : To(H, n, s) \in Z) => Z = {}

LeavesNamed(H) ==
  \A z \in Made(H) : ~Internal(H, z) /\ H.key[z] \in Keys => z[2] \in Keys \cup Threads /\ z = Leaf(z[2])

TreeInv(H) ==
  /\ Shape(H) /\ Rooted(H) /\ AtTop(H) /\ Single(H) /\ OnPath(H)
  /\ MarksOK(H) /\ Founded(H) /\ LeavesNamed(H)

LEMMA RootsAre == R # S
BY DEF R, S

LEMMA RootMade ==
  ASSUME NEW H, Shape(H)
  PROVE  S \in Inners(H) /\ S \in Made(H)
BY DEF Shape, Inners

LEMMA SideOfRoot ==
  ASSUME Names, NEW H, Shape(H), NEW k \in Keys
  PROVE  Side(H, S, k) = "L"
BY DEF Names, Shape, Side

\* Every search ends,
LEMMA PathEnds ==
  ASSUME NEW H, Shape(H), Founded(H), NEW k
  PROVE  \E z \in Path(H, k) : ~Internal(H, z)
<1> SUFFICES ASSUME \A z \in Path(H, k) : Internal(H, z) PROVE FALSE
  OBVIOUS
<1>1. Path(H, k) \in SUBSET Inners(H) /\ S \in Path(H, k)
  BY PathBelow DEF Inners
<1>2. \A n \in Path(H, k) : \E s \in Sides : To(H, n, s) \in Path(H, k)
  BY PathBelow, SidesAre DEF Child
<1> QED
  BY <1>1, <1>2 DEF Founded

\* at one leaf.
LEMMA OneEnd ==
  ASSUME NEW H, Shape(H), NEW k, NEW z \in Path(H, k), NEW w \in Path(H, k),
         ~Internal(H, z), ~Internal(H, w)
  PROVE  z = w
<1> DEFINE D == {n \in Path(H, k) : z \in Walk(H, n, k)}
<1>1. S \in D /\ D \in SUBSET Made(H)
  BY PathBelow DEF Path
<1>2. Closed(H, k, D)
  <2> SUFFICES ASSUME NEW n \in D, Internal(H, n) PROVE Child(H, n, k) \in D
    BY DEF Closed
  <2>1. n \in Made(H) /\ n # z /\ Child(H, n, k) \in Path(H, k)
    BY PathBelow
  <2>2. z \in Walk(H, Child(H, n, k), k)
    BY <2>1, WalkSplit
  <2> QED
    BY <2>1, <2>2
<1>3. w \in D
  BY <1>1, <1>2, WalkLeast DEF Path
<1>4. w \in Made(H)
  BY PathBelow
<1> QED
  BY <1>3, <1>4, WalkSplit

\* EdgeTo is a function.
LEMMA EdgeToIs ==
  ASSUME NEW H, Shape(H), NEW k
  PROVE  \E f :
           /\ f = [e \in DOMAIN H.edge |->
                    LET n == H.edge[e].to
                    IN IF Internal(H, n) THEN f[<<n, Side(H, n, k)>>] ELSE e]
           /\ EdgeTo(H, k) = f[<<S, "L">>]
<1> DEFINE Eq(f) == f = [e \in DOMAIN H.edge |->
                          LET n == H.edge[e].to
                          IN IF Internal(H, n) THEN f[<<n, Side(H, n, k)>>] ELSE e]
           Ends(e) == {g \in DOMAIN H.edge :
                         /\ ~Internal(H, H.edge[g].to)
                         /\ \/ g = e
                            \/ \E m \in Walk(H, H.edge[e].to, k) : g = <<m, Side(H, m, k)>>}
           f0 == [e \in DOMAIN H.edge |-> CHOOSE g : g \in Ends(e)]
<1>1. ASSUME NEW e \in DOMAIN H.edge
      PROVE  /\ H.edge[e].to \in Made(H)
             /\ Internal(H, H.edge[e].to) =>
                  <<H.edge[e].to, Side(H, H.edge[e].to, k)>> \in DOMAIN H.edge
  BY SidesAre DEF Shape, Inners
<1>2. ASSUME NEW e \in DOMAIN H.edge, NEW n, n = H.edge[e].to, Internal(H, n)
      PROVE  Ends(e) = Ends(<<n, Side(H, n, k)>>)
  <2> DEFINE d == <<n, Side(H, n, k)>>
  <2>1. n \in Made(H) /\ d \in DOMAIN H.edge /\ H.edge[d].to = Child(H, n, k)
    BY <1>1, <1>2 DEF Child, To
  <2>2. Walk(H, n, k) = {n} \cup Walk(H, H.edge[d].to, k)
    BY <1>2, <2>1, WalkSplit
  <2>3. ASSUME NEW g \in DOMAIN H.edge, ~Internal(H, H.edge[g].to)
        PROVE  g # e
    BY <1>2, <2>3
  <2> QED
    BY <1>2, <2>2, <2>3
<1>3. ASSUME NEW e \in DOMAIN H.edge, ~Internal(H, H.edge[e].to)
      PROVE  Ends(e) = {e}
  <2>1. Walk(H, H.edge[e].to, k) = {H.edge[e].to}
    BY <1>1, <1>3, WalkSplit
  <2>2. \A s : <<H.edge[e].to, s>> \notin DOMAIN H.edge
    BY <1>3 DEF Shape, Inners
  <2> QED
    BY <1>3, <2>1, <2>2
<1> HIDE DEF Ends
<1>4. Eq(f0)
  <2>1. ASSUME NEW e \in DOMAIN H.edge
        PROVE  f0[e] = LET n == H.edge[e].to
                       IN IF Internal(H, n) THEN f0[<<n, Side(H, n, k)>>] ELSE e
    <3>1. CASE Internal(H, H.edge[e].to)
      <4> DEFINE d == <<H.edge[e].to, Side(H, H.edge[e].to, k)>>
      <4>1. d \in DOMAIN H.edge /\ Ends(e) = Ends(d)
        BY <1>1, <1>2, <3>1
      <4> HIDE DEF d
      <4>2. f0[d] = f0[e]
        BY <4>1
      <4> QED
        BY <3>1, <4>2 DEF d
    <3>2. CASE ~Internal(H, H.edge[e].to)
      BY <1>3, <3>2
    <3> QED
      BY <3>1, <3>2
  <2> QED
    BY <2>1
<1> DEFINE f1 == CHOOSE f : Eq(f)
<1>5. Eq(f1)
  BY <1>4
<1>6. EdgeTo(H, k) = f1[<<S, "L">>]
  BY DEF EdgeTo
<1> QED
  BY <1>5, <1>6

\* What EdgeTo and End are.
LEMMA EndIs ==
  ASSUME Names, NEW H, Shape(H), Founded(H), NEW k \in Keys
  PROVE  /\ \E n \in Path(H, k) :
              Internal(H, n) /\ EdgeTo(H, k) = <<n, Side(H, n, k)>> /\ End(H, k) = Child(H, n, k)
         /\ End(H, k) \in Path(H, k) /\ ~Internal(H, End(H, k))
         /\ \A z \in Path(H, k) : ~Internal(H, z) => End(H, k) = z
<1>1. PICK f : /\ f = [e \in DOMAIN H.edge |->
                        LET n == H.edge[e].to
                        IN IF Internal(H, n) THEN f[<<n, Side(H, n, k)>>] ELSE e]
               /\ EdgeTo(H, k) = f[<<S, "L">>]
  BY EdgeToIs
<1>2. ASSUME NEW n \in Made(H), Internal(H, n)
      PROVE  f[<<n, Side(H, n, k)>>] =
               LET m == Child(H, n, k)
               IN IF Internal(H, m) THEN f[<<m, Side(H, m, k)>>] ELSE <<n, Side(H, n, k)>>
  <2>1. <<n, Side(H, n, k)>> \in DOMAIN H.edge
    BY <1>2, SidesAre DEF Shape, Inners
  <2> QED
    BY <1>1, <2>1 DEF Child, To
<1> DEFINE D == {n \in Path(H, k) : Internal(H, n) => f[<<n, Side(H, n, k)>>] = EdgeTo(H, k)}
<1>3. S \in D /\ D \in SUBSET Made(H)
  BY <1>1, PathBelow, SideOfRoot
<1>4. Closed(H, k, D)
  BY <1>2, PathBelow DEF Closed
<1>5. Path(H, k) \subseteq D
  BY <1>3, <1>4, WalkLeast DEF Path
<1>6. PICK z \in Path(H, k) : ~Internal(H, z)
  BY PathEnds
<1>7. z # S
  BY <1>6 DEF Shape, Inners
<1>8. PICK n \in Path(H, k) : Internal(H, n) /\ Child(H, n, k) = z
  BY <1>7, PathFrom
<1>9. EdgeTo(H, k) = <<n, Side(H, n, k)>> /\ End(H, k) = z
  BY <1>2, <1>5, <1>6, <1>8, PathBelow DEF End, Child, To
<1> QED
  BY <1>6, <1>8, <1>9, OneEnd
-----------------------------------------------------------------------------
(* Marks *)

\* No edge is moved.
SameWays(H, H2) ==
  /\ H2.key = H.key
  /\ \A n : Internal(H2, n) <=> Internal(H, n)
  /\ \A n \in Inners(H), s \in Sides : To(H2, n, s) = To(H, n, s)

LEMMA SameWalks ==
  ASSUME NEW H, Shape(H), NEW H2, SameWays(H, H2)
  PROVE  /\ Made(H2) = Made(H) /\ Inners(H2) = Inners(H)
         /\ \A n, k : Side(H2, n, k) = Side(H, n, k)
         /\ \A k : \A n \in Inners(H) : Child(H2, n, k) = Child(H, n, k)
         /\ \A n, k : Walk(H2, n, k) = Walk(H, n, k)
         /\ \A k : Path(H2, k) = Path(H, k)
         /\ \A n : Below(H2, n) = Below(H, n)
<1>1. Made(H2) = Made(H) /\ Inners(H2) = Inners(H)
  BY DEF SameWays, Made, Inners
<1>2. \A n, k : Side(H2, n, k) = Side(H, n, k)
  BY DEF SameWays, Side
<1>3. \A k : \A n \in Inners(H) : Child(H2, n, k) = Child(H, n, k)
  BY <1>2, SidesAre DEF SameWays, Child
<1>4. \A k : \A C \in SUBSET Made(H) : Closed(H2, k, C) <=> Closed(H, k, C)
  BY <1>3 DEF Closed, Inners, SameWays
<1>5. \A C \in SUBSET Made(H) : ClosedBelow(H2, C) <=> ClosedBelow(H, C)
  BY DEF ClosedBelow, Inners, SameWays, Sides
<1>6. ASSUME NEW n, NEW k PROVE Walk(H2, n, k) = Walk(H, n, k)
  BY <1>1, <1>4 DEF Walk
<1>7. ASSUME NEW n PROVE Below(H2, n) = Below(H, n)
  BY <1>1, <1>5 DEF Below
<1> QED
  BY <1>1, <1>2, <1>3, <1>6, <1>7 DEF Path

\* A tree with more marks is a tree.
LEMMA MarkTree ==
  ASSUME NEW H, TreeInv(H), NEW H2, Shape(H2), SameWays(H, H2), MarksOK(H2)
  PROVE  TreeInv(H2)
<1>1. /\ Made(H2) = Made(H) /\ Inners(H2) = Inners(H)
      /\ \A k : Path(H2, k) = Path(H, k)
      /\ \A n : Below(H2, n) = Below(H, n)
  BY SameWalks DEF TreeInv
<1>2. H2.key = H.key /\ \A n : Internal(H2, n) <=> Internal(H, n)
  BY DEF SameWays
<1>3. \A n \in Inners(H), s \in Sides : To(H2, n, s) = To(H, n, s)
  BY DEF SameWays
<1>4. Below(H, S) \subseteq Made(H) /\ S \in Inners(H) /\ R \in Inners(H)
  BY PathBelow DEF TreeInv, Shape, Rooted
<1>5. Rooted(H2)
  BY <1>1, <1>2, <1>3, <1>4 DEF Rooted, TreeInv, Sides
<1>6. AtTop(H2)
  <2> DEFINE top == To(H, S, "L")
  <2>1. To(H2, S, "L") = top /\ top \in Made(H)
    BY <1>3, <1>4, EdgeTypes DEF Sides, TreeInv, Inners
  <2>2. Internal(H, top) => To(H2, top, "R") = To(H, top, "R")
    BY <1>3, <2>1 DEF Inners, Sides
  <2> QED
    BY <1>2, <2>1, <2>2 DEF AtTop, TreeInv
<1>7. Single(H2)
  <2>1. \A n \in Below(H, S) : Internal(H, n) => n \in Inners(H)
    BY <1>4 DEF Inners
  <2> QED
    BY <1>1, <1>2, <1>3, <2>1 DEF Single, TreeInv
<1>8. OnPath(H2)
  BY <1>1, <1>2 DEF OnPath, TreeInv
<1>9. Founded(H2)
  BY <1>1, <1>3 DEF Founded, TreeInv
<1>10. LeavesNamed(H2)
  BY <1>1, <1>2 DEF LeavesNamed, TreeInv
<1> QED
  BY <1>5, <1>6, <1>7, <1>8, <1>9, <1>10 DEF TreeInv
-----------------------------------------------------------------------------
(* Insertions *)

\* What the contents have for k.
Value(H, k) == IF H.key[End(H, k)] = k THEN End(H, k)[2] ELSE None

\* Below p, where the search for k ends, leaf m gets an inner node y above it
\* and a leaf z of key k beside it.
Grows(H, H2, k, p, m, y, z) ==
  /\ k \in Keys /\ p \in Path(H, k) /\ Internal(H, p) /\ m = Child(H, p, k)
  /\ ~Internal(H, m) /\ H.key[m] # k /\ ~Marked(H, p, Side(H, p, k))
  /\ y \notin Made(H) /\ z \notin Made(H) /\ y # z /\ Made(H2) = Made(H) \cup {y, z}
  /\ z[2] \in Keys \cup Threads /\ z = Leaf(z[2])
  /\ \A n \in Made(H) : H2.key[n] = H.key[n] /\ (Internal(H2, n) <=> Internal(H, n))
  /\ H2.key[z] = k /\ ~Internal(H2, z)
  /\ H2.key[y] = (IF H.key[m] < k THEN k ELSE H.key[m]) /\ Internal(H2, y)
  /\ \A n \in Inners(H), s \in Sides : n # p \/ s # Side(H, p, k) =>
       /\ To(H2, n, s) = To(H, n, s)
       /\ Flagged(H2, n, s) <=> Flagged(H, n, s)
       /\ Tagged(H2, n, s) <=> Tagged(H, n, s)
  /\ To(H2, p, Side(H, p, k)) = y /\ ~Marked(H2, p, Side(H, p, k))
  /\ To(H2, y, "L") = (IF H.key[m] < k THEN m ELSE z)
  /\ To(H2, y, "R") = (IF H.key[m] < k THEN z ELSE m)
  /\ \A s \in Sides : ~Marked(H2, y, s)

LEMMA GrowsTypes ==
  ASSUME Names, NEW H, TreeInv(H), NEW H2, Shape(H2), NEW k, NEW p, NEW m, NEW y, NEW z,
         Grows(H, H2, k, p, m, y, z)
  PROVE  /\ Shape(H) /\ p \in Inners(H) /\ p \in Below(H, S) /\ m \in Path(H, k) /\ m \in Made(H)
         /\ m \in Below(H, S) /\ m # S /\ y \notin {R, S, p, m} /\ z \notin {R, S, p, m} /\ p # R
         /\ H.key[m] \in Keys \cup {Inf} /\ H.key[m] \in Nat /\ k \in Nat
         /\ Inners(H2) = Inners(H) \cup {y}
         /\ \A n \in Made(H), j \in Keys : Side(H2, n, j) = Side(H, n, j)
         /\ \A n \in Inners(H), j \in Keys : Child(H2, n, j) = 
              IF n = p /\ Side(H, p, j) = Side(H, p, k) THEN y ELSE Child(H, n, j)
         /\ Side(H, p, k) \in Sides
<1>1. Shape(H) /\ Rooted(H)
  BY DEF TreeInv
<1>2. p \in Made(H) /\ p \in Below(H, S) /\ m \in Path(H, k) /\ m \in Made(H) /\ m \in Below(H, S)
  BY <1>1, PathBelow DEF Grows
<1>3. p \in Inners(H) /\ R \in Inners(H) /\ S \in Inners(H) /\ m # S
  BY <1>1, <1>2 DEF Inners, Grows, Rooted, Shape
<1>4. p # R
  <2>1. S \in Made(H) \ {R} /\ Made(H) \ {R} \in SUBSET Made(H)
    BY <1>3, RootsAre DEF Inners
  <2>2. \A n \in Made(H) \ {R}, s \in Sides : Internal(H, n) => To(H, n, s) \in Made(H) \ {R}
    BY <1>1, EdgeTypes DEF Rooted, Inners
  <2>3. Below(H, S) \subseteq Made(H) \ {R}
    BY <2>1, <2>2, BelowLeast
  <2> QED
    BY <1>2, <2>3
<1>5. H.key[m] \in Keys \cup {Inf} /\ H.key[m] \in Nat /\ k \in Nat
  BY <1>1, <1>2 DEF Shape, Names, Grows
<1>6. Inners(H2) = Inners(H) \cup {y}
  BY DEF Inners, Grows
<1>7. \A n \in Made(H), j \in Keys : Side(H2, n, j) = Side(H, n, j)
  BY DEF Grows, Side
<1>8. ASSUME NEW n \in Inners(H), NEW j \in Keys
      PROVE  Child(H2, n, j) = IF n = p /\ Side(H, p, j) = Side(H, p, k) THEN y ELSE Child(H, n, j)
  <2>1. Side(H2, n, j) = Side(H, n, j) /\ Side(H, n, j) \in Sides
    BY <1>7, SidesAre DEF Inners
  <2> QED
    BY <2>1 DEF Child, Grows
<1> QED
  BY <1>1, <1>2, <1>3, <1>4, <1>5, <1>6, <1>7, <1>8, SidesAre DEF Inners, Grows

\* A search from y goes on to z or m.
LEMMA GrowsSides ==
  ASSUME Names, NEW H, TreeInv(H), NEW H2, Shape(H2), NEW k, NEW p, NEW m, NEW y, NEW z,
         Grows(H, H2, k, p, m, y, z)
  PROVE  /\ Child(H2, y, k) = z
         /\ H.key[m] \in Keys => Child(H2, y, H.key[m]) = m
         /\ \A s \in Sides : To(H2, y, s) \in {m, z}
         /\ \A j : Child(H2, y, j) \in {m, z}
         /\ \E s \in Sides : To(H2, y, s) = m
         /\ To(H2, y, "L") # To(H2, y, "R")
<1>1. H.key[m] \in Nat /\ k \in Nat /\ H.key[m] # k /\ z # m
  BY GrowsTypes DEF Grows
<1>2. CASE H.key[m] < k
  <2>1. H2.key[y] = k /\ To(H2, y, "L") = m /\ To(H2, y, "R") = z
    BY <1>2 DEF Grows
  <2>2. Side(H2, y, k) = "R" /\ Side(H2, y, H.key[m]) = "L"
    BY <1>1, <1>2, <2>1 DEF Side
  <2> QED
    BY <1>1, <2>1, <2>2, SidesAre DEF Child, Sides
<1>3. CASE ~(H.key[m] < k)
  <2>1. H2.key[y] = H.key[m] /\ To(H2, y, "L") = z /\ To(H2, y, "R") = m
    BY <1>3 DEF Grows
  <2>2. Side(H2, y, k) = "L" /\ Side(H2, y, H.key[m]) = "R"
    BY <1>1, <1>3, <2>1 DEF Side
  <2> QED
    BY <1>1, <2>1, <2>2, SidesAre DEF Child, Sides
<1> QED
  BY <1>2, <1>3
LEMMA GrowsPaths ==
  ASSUME Names, NEW H, TreeInv(H), NEW H2, Shape(H2), NEW k, NEW p, NEW m, NEW y, NEW z,
         Grows(H, H2, k, p, m, y, z), NEW j \in Keys
  PROVE  /\ Path(H, j) \subseteq Path(H2, j) \cup {m}
         /\ m \in Path(H, j) => y \in Path(H2, j) /\ Child(H2, y, j) \in Path(H2, j)
<1>1. Shape(H) /\ p \in Inners(H) /\ m \in Made(H) /\ m # S /\ ~Internal(H, m)
  BY GrowsTypes DEF Grows
<1>2. \A n \in Made(H) : Internal(H2, n) <=> Internal(H, n)
  BY DEF Grows
<1>3. Path(H, j) \subseteq Path(H2, j) \cup {m}
  <2> DEFINE D == {n \in Made(H) : n \in Path(H2, j) \/ n = m}
  <2>1. S \in D
    BY <1>1, PathBelow DEF Shape, Inners
  <2>2. ASSUME NEW n \in D, Internal(H, n)
        PROVE  Child(H, n, j) \in D
    <3>1. n \in Path(H2, j) /\ n \in Inners(H) /\ Internal(H2, n)
      BY <1>1, <1>2, <2>2 DEF Inners
    <3>2. Child(H2, n, j) \in Path(H2, j)
      BY <3>1, PathBelow
    <3>3. Child(H, n, j) \in Made(H)
      BY <1>1, <2>2, EdgeTypes
    <3>4. CASE n = p /\ Side(H, p, j) = Side(H, p, k)
      BY <1>1, <3>4 DEF Child, Grows
    <3>5. CASE ~(n = p /\ Side(H, p, j) = Side(H, p, k))
      <4>1. Child(H2, n, j) = Child(H, n, j)
        BY <3>1, <3>5, GrowsTypes
      <4> QED
        BY <3>2, <3>3, <4>1
    <3> QED
      BY <3>4, <3>5
  <2> HIDE DEF D
  <2>3. Path(H, j) \subseteq D
    BY <2>1, <2>2, WalkLeast DEF Path, Closed, D
  <2> QED
    BY <2>3 DEF D
<1>4. ASSUME m \in Path(H, j)
      PROVE  y \in Path(H2, j) /\ Child(H2, y, j) \in Path(H2, j)
  <2>1. PICK n \in Path(H, j) : Internal(H, n) /\ Child(H, n, j) = m
    BY <1>1, <1>4, PathFrom
  <2>2. n \in Below(H, S) /\ p \in Below(H, S) /\ n \in Made(H) /\ Single(H) /\ Internal(H, p)
    BY <1>1, <2>1, PathBelow, GrowsTypes DEF TreeInv, Grows
  <2>3. m = Child(H, p, k)
    BY DEF Grows
  <2>4. n = p /\ Side(H, n, j) = Side(H, p, k)
    BY <2>1, <2>2, <2>3, SidesAre DEF Single, Child
  <2>5. p \in Path(H2, j) /\ Internal(H2, p)
    BY <1>1, <1>2, <1>3, <2>1, <2>2, <2>4
  <2>6. Child(H2, p, j) = y
    BY <1>1, <2>4, GrowsTypes
  <2>7. y \in Path(H2, j)
    BY <2>5, <2>6, PathBelow
  <2> QED
    BY <2>7, PathBelow DEF Grows
<1> QED
  BY <1>3, <1>4

LEMMA GrowsBelow ==
  ASSUME Names, NEW H, TreeInv(H), NEW H2, Shape(H2), NEW k, NEW p, NEW m, NEW y, NEW z,
         Grows(H, H2, k, p, m, y, z)
  PROVE  Below(H2, S) = Below(H, S) \cup {y, z}
<1>1. Shape(H) /\ p \in Inners(H) /\ m \in Made(H) /\ m \in Below(H, S) /\ m # S /\ ~Internal(H, m)
      /\ p \in Below(H, S) /\ S \in Made(H) /\ S \in Made(H2) /\ Side(H, p, k) \in Sides
  BY GrowsTypes, RootMade DEF Grows
<1>2. \A n \in Made(H) : Internal(H2, n) <=> Internal(H, n)
  BY DEF Grows
<1>3. \A s \in Sides : To(H2, y, s) \in {m, z}
  BY GrowsSides
<1>4. Below(H2, S) \subseteq Below(H, S) \cup {y, z}
  <2>1. ASSUME NEW n \in Below(H, S) \cup {y, z}, NEW s \in Sides, Internal(H2, n)
        PROVE  To(H2, n, s) \in Below(H, S) \cup {y, z}
    <3>1. CASE n = y
      BY <1>1, <1>3, <3>1
    <3>2. CASE n = p /\ s = Side(H, p, k)
      BY <3>2 DEF Grows
    <3>3. CASE n # y /\ ~(n = p /\ s = Side(H, p, k))
      <4>1. n \in Below(H, S) /\ n \in Inners(H)
        <5>1. n # z /\ n \in Below(H, S)
          BY <2>1, <3>3 DEF Grows
        <5> QED
          BY <1>1, <1>2, <2>1, <5>1, PathBelow DEF Inners
      <4>2. To(H2, n, s) = To(H, n, s)
        BY <3>3, <4>1 DEF Grows
      <4> QED
        BY <1>1, <4>1, <4>2, BelowClosed DEF Inners
    <3> QED
      BY <3>1, <3>2, <3>3
  <2>2. Below(H, S) \cup {y, z} \in SUBSET Made(H2) /\ S \in Below(H, S)
    BY <1>1, PathBelow, BelowClosed DEF Grows
  <2> QED
    BY ZenonT(30), <2>1, <2>2, BelowLeast
<1>5. Below(H, S) \subseteq Below(H2, S) \cup {m}
  <2> DEFINE D == {n \in Made(H) : n \in Below(H2, S) \/ n = m}
  <2>1. S \in D
    BY <1>1, BelowClosed
  <2>2. ASSUME NEW n \in D, NEW s \in Sides, Internal(H, n)
        PROVE  To(H, n, s) \in D
    <3>1. n \in Below(H2, S) /\ n \in Inners(H) /\ Internal(H2, n)
      BY <1>1, <1>2, <2>2 DEF Inners
    <3>2. To(H2, n, s) \in Below(H2, S) /\ To(H, n, s) \in Made(H)
      BY <1>1, <2>2, <3>1, BelowClosed, EdgeTypes
    <3>3. CASE n = p /\ s = Side(H, p, k)
      BY <1>1, <3>3 DEF Child, Grows
    <3>4. CASE ~(n = p /\ s = Side(H, p, k))
      BY <3>1, <3>2, <3>4 DEF Grows
    <3> QED
      BY <3>3, <3>4
  <2> HIDE DEF D
  <2>3. D \in SUBSET Made(H)
    BY DEF D
  <2>4. Below(H, S) \subseteq D
    BY <2>1, <2>2, <2>3, BelowLeast
  <2> QED
    BY <2>4 DEF D
<1>6. y \in Below(H2, S)
  <2>1. p \in Below(H2, S) /\ Internal(H2, p)
    BY <1>1, <1>2, <1>5 DEF Inners
  <2> QED
    BY <1>1, <2>1, BelowClosed DEF Grows
<1>7. m \in Below(H2, S) /\ z \in Below(H2, S)
  <2>1. \A s \in Sides : To(H2, y, s) \in Below(H2, S)
    BY <1>1, <1>6, BelowClosed DEF Grows
  <2>2. \E s \in Sides : To(H2, y, s) = z
    BY GrowsSides, SidesAre DEF Child
  <2> QED
    BY <2>1, <2>2, GrowsSides
<1> QED
  BY <1>4, <1>5, <1>6, <1>7
\* The tree with the new leaf is a tree.
LEMMA GrowsTree ==
  ASSUME Names, NEW H, TreeInv(H), NEW H2, Shape(H2), NEW k, NEW p, NEW m, NEW y, NEW z,
         Grows(H, H2, k, p, m, y, z)
  PROVE  TreeInv(H2)
<1> DEFINE q == Side(H, p, k)
<1>1. /\ Shape(H) /\ p \in Inners(H) /\ m \in Made(H) /\ m \in Below(H, S) /\ m # S /\ ~Internal(H, m)
      /\ p \in Below(H, S) /\ S \in Made(H) /\ S \in Inners(H) /\ q \in Sides /\ m = To(H, p, q)
      /\ y \notin {R, S, p, m} /\ z \notin {R, S, p, m} /\ y # z /\ p # R
      /\ y \notin Made(H) /\ z \notin Made(H) /\ Inners(H2) = Inners(H) \cup {y}
      /\ Made(H2) = Made(H) \cup {y, z} /\ ~Internal(H2, z) /\ Internal(H2, y)
  BY GrowsTypes, RootMade DEF Grows, Child
<1>2. \A n \in Made(H) : H2.key[n] = H.key[n] /\ (Internal(H2, n) <=> Internal(H, n))
  BY DEF Grows
<1>3. \A n \in Inners(H), s \in Sides : ~(n = p /\ s = q) => To(H2, n, s) = To(H, n, s)
  BY DEF Grows
<1>4. To(H2, p, q) = y /\ \A s \in Sides : To(H2, y, s) \in {m, z}
  BY GrowsSides DEF Grows
<1>5. \A n \in Inners(H), s \in Sides : To(H, n, s) \in Made(H)
  BY <1>1, EdgeTypes DEF Inners
<1>6. /\ Rooted(H) /\ AtTop(H) /\ Single(H) /\ OnPath(H) /\ MarksOK(H) /\ Founded(H) /\ LeavesNamed(H)
      /\ R \in Inners(H)
  BY DEF TreeInv, Rooted
<1>7. H2.key[z] = k /\ k \in Keys /\ k # Inf /\ H2.key[y] \in {k, H.key[m]} /\ z[2] \in Keys \cup Threads /\ z = Leaf(z[2])
      /\ (H.key[m] = Inf => H2.key[y] = Inf /\ To(H2, y, "R") = m)
  <2>1. ~(Inf < k)
    BY DEF Names, Grows
  <2> QED
    BY <2>1 DEF Grows, Names
<1>8. \A n \in Inners(H2), s \in Sides : n # y => n \in Inners(H)
  BY <1>1
<1> HIDE DEF q
<1>9. Rooted(H2)
  <2>1. R \in Inners(H2) /\ To(H2, R, "L") = S
    BY <1>1, <1>3, <1>6 DEF Rooted, Sides
  <2>2. ASSUME NEW n \in {R, S} 
        PROVE  ~Internal(H2, To(H2, n, "R")) /\ H2.key[To(H2, n, "R")] = Inf
    <3>1. n \in Inners(H) /\ To(H, n, "R") \in Made(H) /\ ~Internal(H, To(H, n, "R")) /\ H.key[To(H, n, "R")] = Inf
      BY <1>1, <1>5, <1>6 DEF Rooted, Sides
    <3>2. ~(n = p /\ "R" = q)
      <4>1. SUFFICES ASSUME S = p, q = "R" PROVE FALSE
        BY <1>1
      <4> QED
        BY <4>1, SideOfRoot, <1>1, <1>7 DEF q
    <3>3. To(H2, n, "R") = To(H, n, "R")
      BY <1>3, <3>1, <3>2 DEF Sides
    <3> QED
      BY <1>2, <3>1, <3>3
  <2>3. ASSUME NEW n \in Inners(H2), NEW s \in Sides
        PROVE  To(H2, n, s) # R /\ (To(H2, n, s) = S => n = R)
    <3>1. CASE n = y
      BY <1>1, <1>4, <1>6, <3>1 DEF Inners
    <3>2. CASE n = p /\ s = q
      BY <1>1, <1>4, <3>2
    <3>3. CASE n # y /\ ~(n = p /\ s = q)
      BY <1>3, <1>6, <1>8, <3>3 DEF Rooted
    <3> QED
      BY <3>1, <3>2, <3>3
  <2> QED
    BY <2>1, <2>2, <2>3 DEF Rooted
<1>10. AtTop(H2)
  <2> DEFINE top == To(H, S, "L")
  <2>1. top \in Made(H) /\ H.key[top] = Inf /\ (Internal(H, top) => ~Internal(H, To(H, top, "R")) /\ H.key[To(H, top, "R")] = Inf)
    BY <1>1, <1>5, <1>6 DEF AtTop, Sides
  <2>2. CASE p = S
    <3>1. q = "L" /\ m = top
      BY <1>1, <1>7, <2>2, SideOfRoot DEF q
    <3>2. To(H2, S, "L") = y /\ H2.key[y] = Inf /\ To(H2, y, "R") = m /\ H2.key[m] = Inf /\ ~Internal(H2, m)
      BY <1>1, <1>2, <1>4, <1>7, <2>1, <2>2, <3>1
    <3> QED
      BY <3>2 DEF AtTop
  <2>3. CASE p # S
    <3>1. To(H2, S, "L") = top /\ H2.key[top] = Inf
      BY <1>1, <1>2, <1>3, <2>1, <2>3 DEF Sides
    <3>2. ASSUME Internal(H2, top)
          PROVE  ~Internal(H2, To(H2, top, "R")) /\ H2.key[To(H2, top, "R")] = Inf
      <4>1. Internal(H, top) /\ top \in Inners(H)
        BY <1>2, <2>1, <3>2 DEF Inners
      <4>2. To(H, top, "R") \in Made(H)
        BY <1>5, <4>1 DEF Sides
      <4>3. ~(top = p /\ "R" = q)
        <5>1. SUFFICES ASSUME top = p, q = "R" PROVE FALSE
          OBVIOUS
        <5>2. Inf > k
          BY <1>7 DEF Names
        <5> QED
          BY <2>1, <5>1, <5>2 DEF q, Side
      <4>4. To(H2, top, "R") = To(H, top, "R")
        BY <1>3, <4>1, <4>3 DEF Sides
      <4> QED
        BY <1>2, <2>1, <4>1, <4>2, <4>4
    <3> QED
      BY <3>1, <3>2 DEF AtTop
  <2> QED
    BY <2>2, <2>3
<1>11. Below(H2, S) = Below(H, S) \cup {y, z} /\ Below(H, S) \subseteq Made(H)
  BY <1>1, GrowsBelow, PathBelow
<1>12. Single(H2)
  <2> SUFFICES ASSUME NEW n \in Below(H2, S), NEW j \in Below(H2, S), NEW s \in Sides, NEW r \in Sides,
                      Internal(H2, n), Internal(H2, j), To(H2, n, s) = To(H2, j, r)
               PROVE  n = j /\ s = r
    BY DEF Single
  <2>1. n = y \/ (n \in Below(H, S) /\ n \in Inners(H)) 
    BY <1>1, <1>2, <1>11 DEF Inners
  <2>2. j = y \/ (j \in Below(H, S) /\ j \in Inners(H)) 
    BY <1>1, <1>2, <1>11 DEF Inners
  <2>3. \A i \in Below(H, S), t \in Sides : i \in Inners(H) /\ To(H, i, t) = m => i = p /\ t = q
    BY <1>1, <1>6 DEF Single, Inners
  <2>4. ASSUME NEW i \in Below(H, S), i \in Inners(H), NEW t \in Sides
        PROVE  To(H2, i, t) \notin {m, z} /\ (To(H2, i, t) = y => i = p /\ t = q)
    <3>1. CASE i = p /\ t = q
      BY <1>1, <1>4, <3>1
    <3>2. CASE ~(i = p /\ t = q)
      BY <1>1, <1>3, <1>5, <2>3, <2>4, <3>2
    <3> QED
      BY <3>1, <3>2
  <2>5. CASE n = y /\ j = y
    BY <2>5, GrowsSides DEF Sides
  <2>6. CASE n = y /\ j # y
    BY <1>4, <2>2, <2>4, <2>6
  <2>7. CASE n # y /\ j = y
    BY <1>4, <2>1, <2>4, <2>7
  <2>8. CASE n # y /\ j # y
    <3>1. CASE n = p /\ s = q
      BY <1>4, <2>2, <2>4, <2>8, <3>1
    <3>2. CASE j = p /\ r = q
      BY <1>4, <2>1, <2>4, <2>8, <3>2
    <3>3. CASE ~(n = p /\ s = q) /\ ~(j = p /\ r = q)
      <4>1. To(H, n, s) = To(H, j, r)
        BY <1>3, <2>1, <2>2, <2>8, <3>3
      <4> QED
        BY <1>6, <2>1, <2>2, <2>8, <4>1 DEF Single, Inners
    <3> QED
      BY <3>1, <3>2, <3>3
  <2> QED
    BY <2>5, <2>6, <2>7, <2>8
<1>13. OnPath(H2)
  <2> SUFFICES ASSUME NEW w \in Below(H2, S), ~Internal(H2, w), H2.key[w] \in Keys
               PROVE  w \in Path(H2, H2.key[w])
    BY DEF OnPath
  <2>1. CASE w = z
    <3>1. Child(H2, y, k) = z
      BY GrowsSides
    <3> QED
      BY <1>1, <1>7, <2>1, <3>1, GrowsPaths, GrowsTypes
  <2>2. CASE w # z
    <3>1. w \in Below(H, S) /\ w \in Made(H) /\ ~Internal(H, w) /\ H2.key[w] = H.key[w]
      BY <1>1, <1>2, <1>11, <2>2
    <3>2. w \in Path(H, H.key[w]) /\ H.key[w] \in Keys
      BY <1>6, <2>2, <3>1 DEF OnPath
    <3>3. w = m => w \in Path(H2, H.key[w])
      <4>1. SUFFICES ASSUME w = m PROVE m \in Path(H2, H.key[m])
        OBVIOUS
      <4>2. Child(H2, y, H.key[m]) = m
        BY <3>2, <4>1, GrowsSides
      <4> QED
        BY <3>2, <4>1, <4>2, GrowsPaths
    <3> QED
      BY <3>1, <3>2, <3>3, GrowsPaths
  <2> QED
    BY <2>1, <2>2
<1>14. MarksOK(H2)
  <2> SUFFICES ASSUME NEW n \in Inners(H2), NEW s \in Sides
               PROVE  /\ Flagged(H2, n, s) => ~Internal(H2, To(H2, n, s)) /\ H2.key[To(H2, n, s)] \in Keys
                      /\ Tagged(H2, n, s) => Flagged(H2, n, Other(s))
    BY DEF MarksOK
  <2>1. CASE n = y
    BY <2>1 DEF Grows, Marked
  <2>2. CASE n = p /\ s = q
    BY <2>2 DEF Grows, Marked, q
  <2>3. CASE n # y /\ ~(n = p /\ s = q)
    <3>1. /\ n \in Inners(H) /\ To(H2, n, s) = To(H, n, s)
          /\ Flagged(H2, n, s) <=> Flagged(H, n, s)
          /\ Tagged(H2, n, s) <=> Tagged(H, n, s)
      BY <1>8, <2>3 DEF Grows, q
    <3>2. Tagged(H, n, s) => Flagged(H, n, Other(s)) /\ Flagged(H2, n, Other(s))
      <4>1. SUFFICES ASSUME Tagged(H, n, s) PROVE Flagged(H, n, Other(s)) /\ Flagged(H2, n, Other(s))
        OBVIOUS
      <4>2. Flagged(H, n, Other(s)) /\ Other(s) \in Sides
        BY <1>6, <3>1, <4>1, SidesAre DEF MarksOK
      <4>3. ~(n = p /\ Other(s) = q)
        BY <4>2 DEF Grows, Marked, q
      <4> QED
        BY <3>1, <4>2, <4>3 DEF Grows, q
    <3> QED
      BY <1>2, <1>5, <1>6, <3>1, <3>2 DEF MarksOK
  <2> QED
    BY <2>1, <2>2, <2>3
<1>15. Founded(H2)
  <2> SUFFICES ASSUME NEW Z \in SUBSET Inners(H2), \A n \in Z : \E s \in Sides : To(H2, n, s) \in Z
               PROVE  Z = {}
    BY DEF Founded
  <2>1. m \notin Z /\ z \notin Z
    BY <1>1, <1>2 DEF Inners
  <2>2. y \notin Z
    BY <1>4, <2>1
  <2>3. Z \in SUBSET Inners(H)
    BY <1>1, <2>2
  <2>4. \A n \in Z : \E s \in Sides : To(H, n, s) \in Z
    BY <1>3, <1>4, <2>2, <2>3
  <2> QED
    BY <1>6, <2>3, <2>4 DEF Founded
<1>16. LeavesNamed(H2)
  BY <1>1, <1>2, <1>6, <1>7 DEF LeavesNamed
<1> QED
  BY <1>9, <1>10, <1>12, <1>13, <1>14, <1>15, <1>16 DEF TreeInv
\* The contents have the new key, and are as they were for all others.
LEMMA GrowsValues ==
  ASSUME Names, NEW H, TreeInv(H), NEW H2, Shape(H2), NEW k, NEW p, NEW m, NEW y, NEW z,
         Grows(H, H2, k, p, m, y, z)
  PROVE  /\ Value(H, k) = None /\ Value(H2, k) = z[2]
         /\ \A j \in Keys : j # k => Value(H2, j) = Value(H, j)
<1>1. Shape(H) /\ Founded(H) /\ Founded(H2) /\ k \in Keys
  BY GrowsTree DEF TreeInv, Grows
<1>2. m \in Path(H, k) /\ ~Internal(H, m) /\ ~Internal(H2, m) /\ H.key[m] # k /\ H2.key[m] = H.key[m]
  BY GrowsTypes DEF Grows
<1>3. End(H, k) = m
  BY <1>1, <1>2, EndIs
<1>4. z \in Path(H2, k) /\ ~Internal(H2, z) /\ H2.key[z] = k
  BY <1>1, <1>2, GrowsPaths, GrowsSides DEF Grows
<1>5. End(H2, k) = z
  BY <1>1, <1>4, EndIs
<1>6. ASSUME NEW j \in Keys, j # k
      PROVE  Value(H2, j) = Value(H, j)
  <2> DEFINE w == End(H, j)
  <2>1. w \in Path(H, j) /\ ~Internal(H, w) /\ w \in Made(H)
    BY <1>1, EndIs, PathBelow
  <2>2. CASE w # m
    <3>1. w \in Path(H2, j) /\ ~Internal(H2, w) /\ H2.key[w] = H.key[w]
      BY <2>1, <2>2, GrowsPaths DEF Grows
    <3>2. End(H2, j) = w
      BY <1>1, <3>1, EndIs
    <3> QED
      BY <3>1, <3>2 DEF Value
  <2>3. CASE w = m
    <3> DEFINE c == Child(H2, y, j)
    <3>1. c \in Path(H2, j) /\ c \in {m, z} /\ (H.key[m] = j => c = m)
      BY <2>1, <2>3, GrowsPaths, GrowsSides
    <3>2. End(H2, j) = c
      BY <1>1, <1>2, <1>4, <3>1, EndIs
    <3> HIDE DEF c
    <3>3. CASE H.key[m] = j
      BY <1>2, <2>3, <3>1, <3>2, <3>3 DEF Value
    <3>4. CASE H.key[m] # j
      BY <1>2, <1>4, <1>6, <2>3, <3>1, <3>2, <3>4 DEF Value
    <3> QED
      BY <3>3, <3>4
  <2> QED
    BY <2>2, <2>3
<1> QED
  BY <1>2, <1>3, <1>4, <1>5, <1>6 DEF Value
-----------------------------------------------------------------------------
(* Removals *)

\* C has the nodes that a search for k meets from c0 to p, by tagged edges.
Segment(H, k, c0, p, C) ==
  /\ C \subseteq Inners(H) /\ c0 \in C /\ p \in C
  /\ \A n \in C \ {p} : Tagged(H, n, Side(H, n, k)) /\ Child(H, n, k) \in C
  /\ \A D \in SUBSET C : c0 \in D /\ (\A n \in D \ {p} : Child(H, n, k) \in D) => D = C

\* The edge of n that is not the one to a flagged leaf.
Stay(H, k, p, q, n) == IF n = p THEN q ELSE Side(H, n, k)

\* The leaves that are cut off.
Off(H, k, C, p, q) == {To(H, n, Other(Stay(H, k, p, q, n))) : n \in C}

\* Where p leads on side q takes the place of c0 below a.
Splices(H, H2, k, a, c0, C, p, q) ==
  /\ k \in Keys /\ a \in Path(H, k) /\ Internal(H, a) /\ Child(H, a, k) = c0
  /\ ~Marked(H, a, Side(H, a, k))
  /\ Segment(H, k, c0, p, C) /\ q \in Sides /\ Tagged(H, p, q) /\ Flagged(H, p, Other(q))
  /\ H2.key = H.key
  /\ \A n : Internal(H2, n) <=> Internal(H, n)
  /\ \A n \in Inners(H), s \in Sides : n # a \/ s # Side(H, a, k) =>
       /\ To(H2, n, s) = To(H, n, s)
       /\ Flagged(H2, n, s) <=> Flagged(H, n, s)
       /\ Tagged(H2, n, s) <=> Tagged(H, n, s)
  /\ To(H2, a, Side(H, a, k)) = To(H, p, q) /\ ~Tagged(H2, a, Side(H, a, k))
  /\ Flagged(H2, a, Side(H, a, k)) <=> Flagged(H, p, q)

LEMMA RootAlone ==
  ASSUME NEW H, Shape(H), Rooted(H)
  PROVE  R \notin Below(H, S)
<1>1. S \in Made(H) \ {R} /\ Made(H) \ {R} \in SUBSET Made(H)
  BY RootsAre DEF Shape, Inners
<1>2. \A n \in Made(H) \ {R}, s \in Sides : Internal(H, n) => To(H, n, s) \in Made(H) \ {R}
  BY EdgeTypes DEF Rooted, Inners
<1> QED
  BY <1>1, <1>2, BelowLeast

\* The edges of the sentinels are never marked.
LEMMA RootUnmarked ==
  ASSUME Names, NEW H, TreeInv(H), NEW s \in Sides
  PROVE  ~Marked(H, S, s)
<1>1. S \in Inners(H) /\ H.key[To(H, S, "R")] = Inf /\ H.key[To(H, S, "L")] = Inf /\ Inf \notin Keys
  BY DEF TreeInv, Shape, Rooted, AtTop, Names
<1>2. \A r \in Sides : ~Flagged(H, S, r)
  BY <1>1 DEF TreeInv, MarksOK, Sides
<1> QED
  BY <1>1, <1>2, SidesAre DEF TreeInv, MarksOK, Marked

LEMMA SplicesTypes ==
  ASSUME Names, NEW H, TreeInv(H), NEW H2, NEW k, NEW a, NEW c0, NEW C, NEW p, NEW q,
         Splices(H, H2, k, a, c0, C, p, q)
  PROVE  /\ Shape(H) /\ C \subseteq Below(H, S) /\ C \subseteq Inners(H) /\ a \in Inners(H) /\ a \in Below(H, S)
         /\ \A n \in C : /\ Stay(H, k, p, q, n) \in Sides
                         /\ To(H, n, Stay(H, k, p, q, n)) \in C \cup {To(H, p, q)}
                         /\ Flagged(H, n, Other(Stay(H, k, p, q, n)))
                         /\ \A s \in Sides : Marked(H, n, s)
                         /\ n # c0 => \E m \in C : To(H, m, Stay(H, k, p, q, m)) = n
         /\ To(H, p, q) \in Below(H, S) \ C /\ a \notin C /\ S \notin C
         /\ \A z \in Off(H, k, C, p, q) : z \in Below(H, S) /\ ~Internal(H, z) /\ H.key[z] \in Keys
<1> DEFINE st(n) == Stay(H, k, p, q, n)
<1>1. Shape(H) /\ MarksOK(H) /\ Founded(H) /\ Below(H, S) \subseteq Made(H)
  BY PathBelow DEF TreeInv
<1>2. a \in Below(H, S) /\ a \in Inners(H) /\ c0 \in Below(H, S)
  BY <1>1, PathBelow DEF Splices, Inners
<1>3. C \subseteq Inners(H) /\ c0 \in C /\ p \in C
  BY DEF Splices, Segment
<1>4. ASSUME NEW n \in C
      PROVE  /\ st(n) \in Sides /\ Tagged(H, n, st(n)) /\ Flagged(H, n, Other(st(n)))
             /\ To(H, n, st(n)) \in C \cup {To(H, p, q)}
  BY <1>1, <1>3, SidesAre DEF Stay, Splices, Segment, MarksOK, Child
<1>5. ASSUME NEW n \in C, NEW s \in Sides PROVE Marked(H, n, s)
  BY <1>4, SidesAre DEF Marked
<1>6. C \subseteq Below(H, S)
  <2> DEFINE D == {n \in C : n \in Below(H, S)}
  <2>1. \A n \in D \ {p} : Child(H, n, k) \in D
    <3> SUFFICES ASSUME NEW n \in D \ {p} PROVE Child(H, n, k) \in D
      OBVIOUS
    <3>1. Child(H, n, k) \in C
      BY DEF Splices, Segment
    <3>2. S \in Made(H) /\ Internal(H, n)
      BY <1>1, <1>3 DEF Shape, Inners
    <3> QED
      BY <1>1, <3>1, <3>2, BelowClosed, SidesAre DEF Child
  <2>2. D = C
    BY <1>2, <1>3, <2>1 DEF Splices, Segment
  <2> QED
    BY <2>2
<1>7. ASSUME NEW n \in C, n # c0
      PROVE  \E m \in C : To(H, m, st(m)) = n
  <2> SUFFICES ASSUME \A m \in C : To(H, m, st(m)) # n PROVE FALSE
    OBVIOUS
  <2> DEFINE D == C \ {n}
  <2>1. \A m \in D \ {p} : Child(H, m, k) \in D
    BY DEF Splices, Segment, Stay, Child
  <2>2. D = C
    BY <1>3, <1>7, <2>1 DEF Splices, Segment
  <2> QED
    BY <2>2
<1>8. To(H, p, q) \notin C
  <2> SUFFICES ASSUME To(H, p, q) \in C PROVE FALSE
    OBVIOUS
  <2>1. \A n \in C : \E s \in Sides : To(H, n, s) \in C
    BY <1>4
  <2> QED
    BY <1>1, <1>3, <2>1 DEF Founded
<1>9. S \in Made(H) /\ S \notin C
  BY <1>1, <1>5, RootUnmarked DEF Shape, Inners, Sides
<1>10. To(H, p, q) \in Below(H, S)
  BY <1>1, <1>3, <1>6, <1>9, BelowClosed DEF Splices, Inners
<1>11. a \notin C
  BY <1>5, SidesAre DEF Splices
<1>12. ASSUME NEW z \in Off(H, k, C, p, q)
       PROVE  z \in Below(H, S) /\ ~Internal(H, z) /\ H.key[z] \in Keys
  <2>1. PICK n \in C : z = To(H, n, Other(st(n)))
    BY DEF Off
  <2>2. Other(st(n)) \in Sides /\ Flagged(H, n, Other(st(n))) /\ n \in Inners(H)
    BY <1>3, <1>4, SidesAre
  <2> HIDE DEF st
  <2>3. z \in Below(H, S)
    BY <1>1, <1>6, <1>9, <2>1, <2>2, BelowClosed DEF Inners
  <2> QED
    BY <1>1, <2>1, <2>2, <2>3 DEF MarksOK
<1> QED
  BY <1>1, <1>2, <1>3, <1>4, <1>5, <1>6, <1>7, <1>8, <1>9, <1>10, <1>11, <1>12
\* What is cut off cannot be reached any more.
LEMMA SplicesBelow ==
  ASSUME Names, NEW H, TreeInv(H), NEW H2, Shape(H2), NEW k, NEW a, NEW c0, NEW C, NEW p, NEW q,
         Splices(H, H2, k, a, c0, C, p, q)
  PROVE  /\ Below(H2, S) \subseteq Below(H, S) \ C
         /\ \A z \in Off(H, k, C, p, q) : z \notin Below(H2, S)
<1> DEFINE st(n) == Stay(H, k, p, q, n)
           x == To(H, p, q)
           B == Below(H, S) \ (C \cup Off(H, k, C, p, q))
           sa == Side(H, a, k)
<1>1. /\ Shape(H) /\ Single(H) /\ C \subseteq Below(H, S) /\ C \subseteq Inners(H)
      /\ a \in Inners(H) /\ a \in Below(H, S) /\ a \notin C /\ S \notin C /\ x \in Below(H, S) \ C
      /\ sa \in Sides /\ To(H, a, sa) = c0 /\ c0 \in C /\ S \in Inners(H) /\ S \in Made(H)
      /\ Made(H2) = Made(H) /\ p \in C /\ q \in Sides
  <2>1. S \in Inners(H) /\ S \in Made(H) /\ Made(H2) = Made(H) /\ Single(H)
    BY DEF TreeInv, Shape, Splices, Inners, Made
  <2>2. p \in C /\ q \in Sides /\ c0 \in C /\ To(H, a, sa) = c0
    BY DEF Splices, Segment, Child
  <2> QED
    BY <2>1, <2>2, SplicesTypes, SidesAre
<1>2. \A n \in C : /\ st(n) \in Sides /\ To(H, n, st(n)) \in C \cup {x}
                   /\ n # c0 => \E m \in C : To(H, m, st(m)) = n
  BY SplicesTypes
<1>3. \A z \in Off(H, k, C, p, q) : ~Internal(H, z) /\ z \in Below(H, S)
  BY SplicesTypes
<1>4. ASSUME NEW n \in Below(H, S), Internal(H, n), NEW s \in Sides, To(H, n, s) \in C
      PROVE  n \in C \/ (n = a /\ s = sa)
  <2>1. CASE To(H, n, s) = c0
    BY <1>1, <1>4, <2>1 DEF Single, Inners
  <2>2. CASE To(H, n, s) # c0
    <3>1. PICK m \in C : To(H, m, st(m)) = To(H, n, s)
      BY <1>2, <1>4, <2>2
    <3>2. m \in Below(H, S) /\ Internal(H, m) /\ st(m) \in Sides
      BY <1>1, <1>2 DEF Inners
    <3> HIDE DEF st
    <3> QED
      BY <1>1, <1>4, <3>1, <3>2 DEF Single
  <2> QED
    BY <2>1, <2>2
<1>5. ASSUME NEW n \in Below(H, S), Internal(H, n), NEW s \in Sides, To(H, n, s) \in Off(H, k, C, p, q)
      PROVE  n \in C
  <2>1. PICK m \in C : To(H, n, s) = To(H, m, Other(st(m)))
    BY <1>5 DEF Off
  <2>2. m \in Below(H, S) /\ Internal(H, m) /\ Other(st(m)) \in Sides
    BY <1>1, <1>2, SidesAre DEF Inners
  <2> HIDE DEF st
  <2> QED
    BY <1>1, <1>5, <2>1, <2>2 DEF Single
<1>6. x \notin Off(H, k, C, p, q)
  <2> SUFFICES ASSUME x \in Off(H, k, C, p, q) PROVE FALSE
    OBVIOUS
  <2>1. PICK m \in C : x = To(H, m, Other(st(m)))
    BY DEF Off
  <2>2. m \in Below(H, S) /\ Internal(H, m) /\ Other(st(m)) \in Sides /\ p \in Below(H, S) /\ Internal(H, p)
    BY <1>1, <1>2, SidesAre DEF Inners
  <2>3. m = p /\ Other(st(m)) = q
    BY <1>1, <2>1, <2>2 DEF Single
  <2> QED
    BY <1>1, <2>3, SidesAre DEF Stay
<1>7. S \in B
  BY <1>1, <1>3, BelowClosed DEF Inners
<1>8. ASSUME NEW n \in B, NEW s \in Sides, Internal(H2, n)
      PROVE  To(H2, n, s) \in B
  <2>1. n \in Below(H, S) /\ n \notin C /\ Internal(H, n) /\ n \in Inners(H)
    BY <1>8, <1>1, PathBelow DEF Splices, Inners
  <2>2. CASE n = a /\ s = sa
    BY <1>1, <1>6, <2>2 DEF Splices
  <2>3. CASE ~(n = a /\ s = sa)
    <3>1. To(H2, n, s) = To(H, n, s)
      BY <2>1, <2>3 DEF Splices
    <3>2. To(H, n, s) \in Below(H, S)
      BY <1>1, <2>1, BelowClosed
    <3> HIDE DEF sa
    <3> QED
      BY <1>4, <1>5, <2>1, <2>3, <3>1, <3>2
  <2> QED
    BY <2>2, <2>3
<1>9. B \in SUBSET Made(H2)
  BY <1>1, PathBelow
<1> HIDE DEF B
<1>10. Below(H2, S) \subseteq B
  BY <1>7, <1>8, <1>9, BelowLeast
<1> QED
  BY <1>10 DEF B

\* A search that does not end at a leaf that is cut off goes on as it did.
LEMMA SplicesPaths ==
  ASSUME Names, NEW H, TreeInv(H), NEW H2, Shape(H2), NEW k, NEW a, NEW c0, NEW C, NEW p, NEW q,
         Splices(H, H2, k, a, c0, C, p, q), NEW j \in Keys
  PROVE  Path(H, j) \subseteq Path(H2, j) \cup C \cup Off(H, k, C, p, q)
<1> DEFINE st(n) == Stay(H, k, p, q, n)
           x == To(H, p, q)
           sa == Side(H, a, k)
<1>1. /\ Shape(H) /\ Single(H) /\ C \subseteq Below(H, S) /\ C \subseteq Inners(H)
      /\ a \in Inners(H) /\ a \in Below(H, S) /\ a \notin C /\ S \notin C
      /\ sa \in Sides /\ To(H, a, sa) = c0 /\ c0 \in C /\ c0 \in Made(H)
      /\ Made(H2) = Made(H)
  <2>1. Made(H2) = Made(H) /\ Single(H)
    BY DEF TreeInv, Splices, Made
  <2>2. C \subseteq Inners(H) /\ c0 \in C /\ To(H, a, sa) = c0
    BY DEF Splices, Segment, Child
  <2>3. c0 \in Made(H)
    BY <2>2 DEF Inners
  <2> QED
    BY <2>1, <2>2, <2>3, SplicesTypes, SidesAre
<1>2. S \in Path(H2, j) /\ S \in Path(H, j) /\ Path(H, j) \subseteq Made(H) /\ Path(H, j) \subseteq Below(H, S)
  BY <1>1, PathBelow
<1>3. \A n : (Internal(H2, n) <=> Internal(H, n)) /\ Side(H2, n, j) = Side(H, n, j)
  BY DEF Splices, Side
<1>4. ASSUME NEW n \in Inners(H), ~(n = a /\ Side(H, n, j) = sa)
      PROVE  Child(H2, n, j) = Child(H, n, j)
  <2>1. Side(H, n, j) \in Sides
    BY SidesAre
  <2>2. n # a \/ Side(H, n, j) # sa
    BY <1>4
  <2>3. To(H2, n, Side(H, n, j)) = To(H, n, Side(H, n, j))
    BY <2>1, <2>2 DEF Splices
  <2> QED
    BY <1>3, <2>3 DEF Child
<1>5. CASE c0 \notin Path(H, j)
  <2> DEFINE D == {n \in Path(H, j) : n \in Path(H2, j)}
  <2>1. ASSUME NEW n \in D, Internal(H, n) PROVE Child(H, n, j) \in D
    <3>1. n \in Inners(H) /\ Child(H, n, j) \in Path(H, j)
      BY <1>1, <1>2, <2>1, PathBelow DEF Inners
    <3>2. ~(n = a /\ Side(H, n, j) = sa)
      BY <1>1, <1>5, <3>1 DEF Child
    <3>3. Child(H2, n, j) \in Path(H2, j)
      BY <1>3, <2>1, PathBelow
    <3> QED
      BY <1>4, <3>1, <3>2, <3>3
  <2> HIDE DEF D
  <2>2. S \in D /\ D \in SUBSET Made(H)
    BY <1>2 DEF D
  <2>3. Path(H, j) \subseteq D
    BY <2>1, <2>2, WalkLeast DEF Path, Closed
  <2> QED
    BY <2>3 DEF D
<1>6. CASE c0 \in Path(H, j)
  <2>1. a \in Path(H, j) /\ Side(H, a, j) = sa
    <3>1. c0 # S
      BY <1>1
    <3>2. PICK n \in Path(H, j) : Internal(H, n) /\ Child(H, n, j) = c0
      BY <1>1, <1>6, <3>1, PathFrom
    <3>3. n \in Below(H, S) /\ Side(H, n, j) \in Sides /\ Internal(H, a)
      BY <1>1, <1>2, SidesAre DEF Inners
    <3>4. n = a /\ Side(H, n, j) = sa
      BY <1>1, <3>2, <3>3 DEF Single, Child
    <3> QED
      BY <3>4
  <2>2. a \in Path(H2, j)
    <3> DEFINE D == {n \in Path(H, j) : n \in Path(H2, j) \/ a \in Path(H2, j)}
    <3>1. ASSUME NEW n \in D, Internal(H, n) PROVE Child(H, n, j) \in D
      <4>1. n \in Inners(H) /\ Child(H, n, j) \in Path(H, j)
        BY <1>1, <1>2, <3>1, PathBelow DEF Inners
      <4>2. CASE n = a
        BY <3>1, <4>1, <4>2
      <4>3. CASE n # a
        <5>1. n \in Path(H2, j) => Child(H2, n, j) \in Path(H2, j)
          BY <1>3, <3>1, PathBelow
        <5> QED
          BY <1>4, <3>1, <4>1, <4>3, <5>1
      <4> QED
        BY <4>2, <4>3
    <3> HIDE DEF D
    <3>2. S \in D /\ D \in SUBSET Made(H)
      BY <1>2 DEF D
    <3>3. Path(H, j) \subseteq D
      BY <3>1, <3>2, WalkLeast DEF Path, Closed
    <3> QED
      BY <2>1, <3>3 DEF D
  <2>3. x \in Path(H2, j)
    <3>1. Child(H2, a, j) = x
      BY <1>3, <2>1 DEF Child, Splices
    <3> QED
      BY <1>1, <1>3, <2>2, <3>1, PathBelow DEF Inners
  <2> DEFINE D == {n \in Made(H) : n \in Path(H2, j) \/ n \in C \/ n \in Off(H, k, C, p, q)}
  <2>4. ASSUME NEW n \in D, Internal(H, n) PROVE Child(H, n, j) \in D
    <3>1. n \in Inners(H) /\ Child(H, n, j) \in Made(H) /\ n \notin Off(H, k, C, p, q)
      BY <1>1, <2>4, EdgeTypes, SplicesTypes DEF Inners
    <3>2. CASE n \in C
      <4>1. st(n) \in Sides /\ To(H, n, st(n)) \in C \cup {x} /\ Side(H, n, j) \in Sides
        BY <3>2, SplicesTypes, SidesAre
      <4>2. Side(H, n, j) = st(n) \/ Side(H, n, j) = Other(st(n))
        BY <4>1, SidesAre
      <4>3. To(H, n, Other(st(n))) \in Off(H, k, C, p, q)
        BY <3>2 DEF Off
      <4> HIDE DEF st
      <4> QED
        BY <2>3, <3>1, <4>1, <4>2, <4>3 DEF Child
    <3>3. CASE n \notin C
      <4>1. n \in Path(H2, j)
        BY <2>4, <3>1, <3>3
      <4>2. Child(H2, n, j) \in Path(H2, j)
        BY <1>3, <2>4, <4>1, PathBelow
      <4>3. CASE n = a /\ Side(H, n, j) = sa
        BY <1>1, <3>1, <4>3 DEF Child
      <4>4. CASE ~(n = a /\ Side(H, n, j) = sa)
        BY <1>4, <3>1, <4>2, <4>4
      <4> QED
        BY <4>3, <4>4
    <3> QED
      BY <3>2, <3>3
  <2> HIDE DEF D
  <2>5. S \in D /\ D \in SUBSET Made(H)
    BY <1>2 DEF D
  <2>6. Path(H, j) \subseteq D
    BY <2>4, <2>5, WalkLeast DEF Path, Closed
  <2> QED
    BY <2>6 DEF D
<1> QED
  BY <1>5, <1>6
\* The tree without them is a tree.
LEMMA SplicesTree ==
  ASSUME Names, NEW H, TreeInv(H), NEW H2, Shape(H2), NEW k, NEW a, NEW c0, NEW C, NEW p, NEW q,
         Splices(H, H2, k, a, c0, C, p, q)
  PROVE  TreeInv(H2)
<1> DEFINE st(n) == Stay(H, k, p, q, n)
           x == To(H, p, q)
           sa == Side(H, a, k)
<1>1. /\ Shape(H) /\ Rooted(H) /\ AtTop(H) /\ Single(H) /\ OnPath(H) /\ MarksOK(H) /\ Founded(H)
      /\ LeavesNamed(H)
  BY DEF TreeInv
<1>2. /\ C \subseteq Below(H, S) /\ C \subseteq Inners(H) /\ a \in Inners(H) /\ a \in Below(H, S)
      /\ a \notin C /\ x \in Below(H, S) \ C /\ x \in Made(H) /\ sa \in Sides
  BY <1>1, SplicesTypes, SidesAre, PathBelow
<1>3. c0 \in C /\ p \in C /\ q \in Sides /\ To(H, a, sa) = c0 /\ To(H2, a, sa) = x
  BY DEF Splices, Segment, Child
<1>4. /\ H2.key = H.key /\ Made(H2) = Made(H) /\ Inners(H2) = Inners(H)
      /\ \A n : Internal(H2, n) <=> Internal(H, n)
  BY DEF Splices, Made, Inners
<1>5. \A n \in Inners(H), s \in Sides : ~(n = a /\ s = sa) =>
        /\ To(H2, n, s) = To(H, n, s)
        /\ Flagged(H2, n, s) <=> Flagged(H, n, s)
        /\ Tagged(H2, n, s) <=> Tagged(H, n, s)
  BY DEF Splices
<1>6. a # R /\ p # R /\ S \in Inners(H) /\ R \in Inners(H)
  BY <1>1, <1>2, <1>3, RootAlone DEF Shape, Rooted
<1>7. \A n \in Inners(H), s \in Sides : To(H, n, s) \in Made(H)
  BY <1>1, EdgeTypes DEF Inners
<1>8. c0 \in Inners(H) /\ Internal(H, c0) /\ Internal(H, p) /\ p \in Inners(H)
  BY <1>2, <1>3 DEF Inners
<1>9. Flagged(H2, a, sa) => ~Internal(H, x) /\ H.key[x] \in Keys
  BY <1>1, <1>3, <1>8 DEF Splices, MarksOK
<1>10. \A n \in C : \A s \in Sides : Marked(H, n, s)
  BY SplicesTypes
<1> HIDE DEF sa
<1>11. Rooted(H2)
  <2>1. To(H2, R, "L") = S
    BY <1>1, <1>5, <1>6 DEF Rooted, Sides
  <2>2. ASSUME NEW n \in {R, S}
        PROVE  ~Internal(H2, To(H2, n, "R")) /\ H2.key[To(H2, n, "R")] = Inf
    <3>1. n \in Inners(H) /\ ~Internal(H, To(H, n, "R")) /\ H.key[To(H, n, "R")] = Inf
      BY <1>1, <1>6 DEF Rooted
    <3>2. ~(n = a /\ "R" = sa)
      BY <1>3, <1>8, <3>1
    <3> QED
      BY <1>4, <1>5, <3>1, <3>2 DEF Sides
  <2>3. ASSUME NEW n \in Inners(H), NEW s \in Sides
        PROVE  To(H2, n, s) # R /\ (To(H2, n, s) = S => n = R)
    <3>1. CASE n = a /\ s = sa
      BY <1>1, <1>3, <1>6, <1>8, <3>1 DEF Rooted
    <3>2. CASE ~(n = a /\ s = sa)
      BY <1>1, <1>5, <3>2 DEF Rooted
    <3> QED
      BY <3>1, <3>2
  <2> QED
    BY <1>4, <1>6, <2>1, <2>2, <2>3 DEF Rooted
<1>12. AtTop(H2)
  <2> DEFINE top == To(H, S, "L")
  <2>1. top \in Made(H) /\ H.key[top] = Inf /\ (Internal(H, top) => ~Internal(H, To(H, top, "R")) /\ H.key[To(H, top, "R")] = Inf)
    BY <1>1, <1>6, <1>7 DEF AtTop, Sides
  <2>2. CASE a = S /\ sa = "L"
    <3>1. c0 = top
      BY <1>3, <2>2
    <3>2. ~Internal(H, To(H, top, "R")) /\ H.key[To(H, top, "R")] = Inf
      BY <1>8, <2>1, <3>1
    <3>3. st(c0) \in Sides /\ To(H, c0, st(c0)) \in C \cup {x} /\ Flagged(H, c0, Other(st(c0)))
          /\ Other(st(c0)) \in Sides
      BY <1>3, SplicesTypes, SidesAre
    <3>4. H.key[To(H, c0, Other(st(c0)))] \in Keys
      BY <1>1, <1>8, <3>3 DEF MarksOK
    <3>5. Inf \notin Keys
      BY DEF Names
    <3>6. Other(st(c0)) # "R"
      BY <3>1, <3>2, <3>4, <3>5
    <3>7. st(c0) = "R"
      BY <3>3, <3>6, SidesAre DEF Sides, Other
    <3>8. To(H, c0, "R") \notin C
      BY <1>2, <3>1, <3>2 DEF Inners
    <3>9. x = To(H, top, "R")
      BY <3>1, <3>3, <3>7, <3>8
    <3> QED
      BY <1>3, <1>4, <2>2, <3>2, <3>9 DEF AtTop
  <2>3. CASE ~(a = S /\ sa = "L")
    <3>1. To(H2, S, "L") = top
      BY <1>5, <1>6, <2>3 DEF Sides
    <3>2. ASSUME Internal(H, top)
          PROVE  To(H2, top, "R") = To(H, top, "R")
      <4>1. top \in Inners(H) /\ ~Internal(H, To(H, top, "R"))
        BY <2>1, <3>2 DEF Inners
      <4>2. ~(top = a /\ "R" = sa)
        BY <1>3, <1>8, <4>1
      <4> QED
        BY <1>5, <4>1, <4>2 DEF Sides
    <3> QED
      BY <1>4, <2>1, <3>1, <3>2 DEF AtTop
  <2> QED
    BY <2>2, <2>3
<1>13. Below(H2, S) \subseteq Below(H, S) \ C /\ Below(H, S) \subseteq Made(H)
       /\ \A z \in Off(H, k, C, p, q) : z \notin Below(H2, S)
  BY <1>1, SplicesBelow, PathBelow
<1>14. Single(H2)
  <2> SUFFICES ASSUME NEW n \in Below(H2, S), NEW j \in Below(H2, S), NEW s \in Sides, NEW r \in Sides,
                      Internal(H2, n), Internal(H2, j), To(H2, n, s) = To(H2, j, r)
               PROVE  n = j /\ s = r
    BY DEF Single
  <2>1. n \in Below(H, S) /\ n \notin C /\ n \in Inners(H) /\ Internal(H, n)
    BY <1>4, <1>13 DEF Inners
  <2>2. j \in Below(H, S) /\ j \notin C /\ j \in Inners(H) /\ Internal(H, j)
    BY <1>4, <1>13 DEF Inners
  <2>3. ASSUME NEW i \in Below(H, S), Internal(H, i), NEW t \in Sides, To(H, i, t) = x
        PROVE  i \in C
    BY <1>1, <1>2, <1>3, <1>8, <2>3 DEF Single
  <2>4. CASE n = a /\ s = sa
    <3>1. ~(j = a /\ r = sa) => To(H, j, r) = x
      BY <1>3, <1>5, <2>2, <2>4
    <3> QED
      BY <2>2, <2>3, <2>4, <3>1
  <2>5. CASE j = a /\ r = sa
    <3>1. ~(n = a /\ s = sa) => To(H, n, s) = x
      BY <1>3, <1>5, <2>1, <2>5
    <3> QED
      BY <2>1, <2>3, <2>5, <3>1
  <2>6. CASE ~(n = a /\ s = sa) /\ ~(j = a /\ r = sa)
    <3>1. To(H, n, s) = To(H, j, r)
      BY <1>5, <2>1, <2>2, <2>6
    <3> QED
      BY <1>1, <2>1, <2>2, <3>1 DEF Single
  <2> QED
    BY <2>4, <2>5, <2>6
<1>15. OnPath(H2)
  <2> SUFFICES ASSUME NEW w \in Below(H2, S), ~Internal(H2, w), H2.key[w] \in Keys
               PROVE  w \in Path(H2, H2.key[w])
    BY DEF OnPath
  <2>1. w \in Below(H, S) /\ ~Internal(H, w) /\ H2.key[w] = H.key[w] /\ w \notin C
    BY <1>4, <1>13
  <2>2. w \in Path(H, H.key[w]) /\ w \notin Off(H, k, C, p, q)
    BY <1>1, <1>13, <2>1 DEF OnPath
  <2> QED
    BY <2>1, <2>2, SplicesPaths
<1>16. MarksOK(H2)
  <2> SUFFICES ASSUME NEW n \in Inners(H), NEW s \in Sides
               PROVE  /\ Flagged(H2, n, s) => ~Internal(H, To(H2, n, s)) /\ H.key[To(H2, n, s)] \in Keys
                      /\ Tagged(H2, n, s) => Flagged(H2, n, Other(s))
    BY <1>4 DEF MarksOK
  <2>1. CASE n = a /\ s = sa
    BY <1>3, <1>9, <2>1 DEF Splices, sa
  <2>2. CASE ~(n = a /\ s = sa)
    <3>1. /\ To(H2, n, s) = To(H, n, s)
          /\ Flagged(H2, n, s) <=> Flagged(H, n, s)
          /\ Tagged(H2, n, s) <=> Tagged(H, n, s)
      BY <1>5, <2>2
    <3>2. ASSUME Tagged(H, n, s) PROVE Flagged(H2, n, Other(s))
      <4>1. Flagged(H, n, Other(s)) /\ Other(s) \in Sides
        BY <1>1, <3>2, SidesAre DEF MarksOK
      <4>2. ~(n = a /\ Other(s) = sa)
        BY <4>1 DEF Splices, Marked, sa
      <4> QED
        BY <1>5, <4>1, <4>2
    <3> QED
      BY <1>1, <3>1, <3>2 DEF MarksOK
  <2> QED
    BY <2>1, <2>2
<1>17. Founded(H2)
  <2> SUFFICES ASSUME NEW Z \in SUBSET Inners(H), \A n \in Z : \E s \in Sides : To(H2, n, s) \in Z
               PROVE  Z = {}
    BY <1>4 DEF Founded
  <2>1. ASSUME NEW n \in Z, \A s \in Sides : To(H, n, s) \notin Z
        PROVE  n = a /\ x \in Z
    BY <1>3, <1>5, <2>1
  <2>2. \A n \in C : st(n) \in Sides /\ To(H, n, st(n)) \in C \cup {x}
    BY SplicesTypes
  <2>3. CASE x \in Z
    <3>1. \A n \in Z \cup C : \E s \in Sides : To(H, n, s) \in Z \cup C
      <4> SUFFICES ASSUME NEW n \in Z \cup C PROVE \E s \in Sides : To(H, n, s) \in Z \cup C
        OBVIOUS
      <4>1. CASE n \in C
        BY <2>2, <2>3, <4>1
      <4>2. CASE n \notin C
        BY <1>2, <1>3, <2>1, <4>2
      <4> QED
        BY <4>1, <4>2
    <3>2. Z \cup C = {}
      BY <1>1, <1>2, <3>1 DEF Founded
    <3> QED
      BY <3>2
  <2>4. CASE x \notin Z
    BY <1>1, <2>1, <2>4 DEF Founded
  <2> QED
    BY <2>3, <2>4
<1>18. LeavesNamed(H2)
  BY <1>1, <1>4 DEF LeavesNamed
<1> QED
  BY <1>11, <1>12, <1>14, <1>15, <1>16, <1>17, <1>18 DEF TreeInv

\* The contents are without the keys of the leaves that are cut off, and as they
\* were for all others.
LEMMA SplicesValues ==
  ASSUME Names, NEW H, TreeInv(H), NEW H2, Shape(H2), NEW k, NEW a, NEW c0, NEW C, NEW p, NEW q,
         Splices(H, H2, k, a, c0, C, p, q), NEW j \in Keys
  PROVE  /\ End(H, j) \in Off(H, k, C, p, q) => Value(H2, j) = None
         /\ End(H, j) \notin Off(H, k, C, p, q) => End(H2, j) = End(H, j) /\ Value(H2, j) = Value(H, j)
<1>1. Shape(H) /\ Founded(H) /\ Founded(H2) /\ OnPath(H)
  BY SplicesTree DEF TreeInv
<1>2. H2.key = H.key /\ \A n : Internal(H2, n) <=> Internal(H, n)
  BY DEF Splices
<1> DEFINE w == End(H, j)
           w2 == End(H2, j)
<1>3. w \in Path(H, j) /\ ~Internal(H, w) /\ w2 \in Path(H2, j) /\ ~Internal(H, w2)
  BY <1>1, <1>2, EndIs
<1>4. C \subseteq Inners(H) /\ Below(H2, S) \subseteq Below(H, S)
      /\ \A z \in Off(H, k, C, p, q) : z \notin Below(H2, S)
  BY SplicesTypes, SplicesBelow
<1>5. ASSUME w \in Off(H, k, C, p, q)
      PROVE  Value(H2, j) = None
  <2>1. w2 \in Below(H2, S) /\ w2 \in Below(H, S) /\ w2 # w
    BY <1>3, <1>4, <1>5, PathBelow
  <2>2. ASSUME H.key[w2] = j PROVE FALSE
    <3>1. w2 \in Path(H, j)
      BY <1>1, <1>3, <2>1, <2>2 DEF OnPath
    <3> QED
      BY <1>1, <1>3, <2>1, <3>1, OneEnd
  <2> QED
    BY <1>2, <2>2 DEF Value
<1>6. ASSUME w \notin Off(H, k, C, p, q)
      PROVE  w2 = w /\ Value(H2, j) = Value(H, j)
  <2>1. w \in Path(H2, j)
    BY <1>3, <1>4, <1>6, SplicesPaths DEF Inners
  <2>2. w2 = w
    BY <1>1, <1>2, <1>3, <2>1, EndIs
  <2> QED
    BY <1>2, <2>2 DEF Value
<1> QED
  BY <1>5, <1>6
-----------------------------------------------------------------------------
(* What every step keeps *)

\* Both edges are marked, and do not change any more.
Frozen(H, n) == Internal(H, n) /\ \A s \in Sides : Marked(H, n, s)

Frame(H, H2) ==
  /\ \A n \in Made(H) : n \in Made(H2) /\ H2.key[n] = H.key[n] /\ (Internal(H2, n) <=> Internal(H, n))
  /\ \A n \in Inners(H), s \in Sides :
       /\ Flagged(H, n, s) => Flagged(H2, n, s)
       /\ Tagged(H, n, s) => Tagged(H2, n, s)
       /\ Marked(H, n, s) => To(H2, n, s) = To(H, n, s)
  /\ \A j \in Keys, n \in Inners(H) : n \in Path(H, j) => n \in Path(H2, j) \/ Frozen(H, n)
  /\ \A n \in Made(H) : n \in Below(H2, S) => n \in Below(H, S)
  /\ \A n \in Below(H2, S), s \in Sides :
       Internal(H2, n) /\ ~Internal(H2, To(H2, n, s)) /\ To(H2, n, s) \in Made(H) =>
         \E m \in Below(H, S), r \in Sides :
           /\ Internal(H, m) /\ To(H, m, r) = To(H2, n, s)
           /\ Flagged(H, m, r) => Flagged(H2, n, s)

\* No leaf is flagged in a step from H to H2.
FlagsStay(H, H2) ==
  \A n \in Below(H2, S), s \in Sides : Internal(H2, n) /\ Flagged(H2, n, s) =>
    \E m \in Below(H, S), r \in Sides :
      Internal(H, m) /\ To(H, m, r) = To(H2, n, s) /\ Flagged(H, m, r)

LEMMA MarkFrame ==
  ASSUME NEW H, Shape(H), NEW H2, SameWays(H, H2),
         \A n \in Inners(H), s \in Sides : /\ Flagged(H, n, s) => Flagged(H2, n, s)
                                           /\ Tagged(H, n, s) => Tagged(H2, n, s)
  PROVE  Frame(H, H2)
<1>1. /\ Made(H2) = Made(H) /\ \A k : Path(H2, k) = Path(H, k)
      /\ Below(H2, S) = Below(H, S) /\ Below(H, S) \subseteq Made(H)
  BY SameWalks, PathBelow
<1>2. \A n : Internal(H2, n) <=> Internal(H, n)
  BY DEF SameWays
<1>3. ASSUME NEW n \in Below(H, S), NEW s \in Sides, Internal(H, n)
      PROVE  /\ To(H2, n, s) = To(H, n, s) 
             /\ Flagged(H, n, s) => Flagged(H2, n, s)
  BY <1>1, <1>3 DEF SameWays, Inners
<1> QED
  BY <1>1, <1>2, <1>3 DEF Frame, SameWays

LEMMA GrowsFrame ==
  ASSUME Names, NEW H, TreeInv(H), NEW H2, Shape(H2), NEW k, NEW p, NEW m, NEW y, NEW z,
         Grows(H, H2, k, p, m, y, z)
  PROVE  Frame(H, H2)
<1> DEFINE q == Side(H, p, k)
<1>1. /\ Shape(H) /\ p \in Inners(H) /\ m \in Made(H) /\ ~Internal(H, m) /\ p \in Below(H, S)
      /\ q \in Sides /\ To(H, p, q) = m /\ y \notin Made(H) /\ z \notin Made(H)
      /\ Made(H2) = Made(H) \cup {y, z}
  BY GrowsTypes DEF Grows, Child
<1>2. \A n \in Made(H) : n \in Made(H2) /\ H2.key[n] = H.key[n] /\ (Internal(H2, n) <=> Internal(H, n))
  BY DEF Grows
<1>3. ASSUME NEW n \in Inners(H), NEW s \in Sides
      PROVE  /\ Flagged(H, n, s) => Flagged(H2, n, s)
             /\ Tagged(H, n, s) => Tagged(H2, n, s)
             /\ Marked(H, n, s) => To(H2, n, s) = To(H, n, s)
  BY DEF Grows, Marked
<1>4. \A j \in Keys, n \in Inners(H) : n \in Path(H, j) => n \in Path(H2, j)
  BY <1>1, GrowsPaths DEF Inners
<1>5. Below(H2, S) = Below(H, S) \cup {y, z}
  BY GrowsBelow
<1>6. ASSUME NEW n \in Below(H2, S), NEW s \in Sides,
             Internal(H2, n), ~Internal(H2, To(H2, n, s)), To(H2, n, s) \in Made(H)
      PROVE  \E i \in Below(H, S), r \in Sides :
               /\ Internal(H, i) /\ To(H, i, r) = To(H2, n, s)
               /\ Flagged(H, i, r) => Flagged(H2, n, s)
  <2>1. CASE n = y
    <3>1. To(H2, n, s) = m
      BY <1>1, <1>6, <2>1, GrowsSides
    <3>2. ~Flagged(H, p, q) /\ Internal(H, p)
      BY DEF Grows, Marked
    <3> HIDE DEF q
    <3> QED
      BY <1>1, <3>1, <3>2
  <2>2. CASE n = p /\ s = q
    BY <1>1, <1>6, <2>2 DEF Grows
  <2>3. CASE n # y /\ ~(n = p /\ s = q)
    <3>1. n \in Below(H, S) /\ n \in Made(H) /\ Internal(H, n)
      BY <1>1, <1>2, <1>5, <1>6, <2>3, PathBelow DEF Grows
    <3>2. To(H2, n, s) = To(H, n, s) /\ (Flagged(H2, n, s) <=> Flagged(H, n, s))
      BY <2>3, <3>1 DEF Grows, Inners
    <3> QED
      BY <3>1, <3>2
  <2> QED
    BY <2>1, <2>2, <2>3
<1> QED
  BY <1>1, <1>2, <1>3, <1>4, <1>5, <1>6 DEF Frame

LEMMA SplicesFrame ==
  ASSUME Names, NEW H, TreeInv(H), NEW H2, Shape(H2), NEW k, NEW a, NEW c0, NEW C, NEW p, NEW q,
         Splices(H, H2, k, a, c0, C, p, q)
  PROVE  Frame(H, H2)
<1> DEFINE sa == Side(H, a, k)
<1>1. /\ Shape(H) /\ C \subseteq Below(H, S) /\ C \subseteq Inners(H) /\ a \in Inners(H) /\ a \notin C
      /\ Below(H, S) \subseteq Made(H)
  BY SplicesTypes, PathBelow
<1>2. Made(H2) = Made(H) /\ H2.key = H.key /\ \A n : Internal(H2, n) <=> Internal(H, n)
  BY DEF Splices, Made
<1>3. \A n \in Inners(H), s \in Sides : ~(n = a /\ s = sa) =>
        /\ To(H2, n, s) = To(H, n, s)
        /\ Flagged(H2, n, s) <=> Flagged(H, n, s)
        /\ Tagged(H2, n, s) <=> Tagged(H, n, s)
  BY DEF Splices
<1>4. ~Flagged(H, a, sa) /\ ~Tagged(H, a, sa)
  BY DEF Splices, Marked
<1>5. p \in C /\ q \in Sides /\ To(H2, a, sa) = To(H, p, q) /\ (Flagged(H2, a, sa) <=> Flagged(H, p, q))
  BY DEF Splices, Segment
<1> HIDE DEF sa
<1>6. ASSUME NEW n \in Inners(H), NEW s \in Sides
      PROVE  /\ Flagged(H, n, s) => Flagged(H2, n, s)
             /\ Tagged(H, n, s) => Tagged(H2, n, s)
             /\ Marked(H, n, s) => To(H2, n, s) = To(H, n, s)
  BY <1>3, <1>4 DEF Marked
<1>7. ASSUME NEW j \in Keys, NEW n \in Inners(H), n \in Path(H, j)
      PROVE  n \in Path(H2, j) \/ Frozen(H, n)
  <2>1. n \in C => Frozen(H, n)
    BY <1>7, SplicesTypes DEF Frozen, Inners
  <2> QED
    BY <1>7, <2>1, SplicesPaths, SplicesTypes DEF Inners
<1>8. Below(H2, S) \subseteq Below(H, S)
  BY SplicesBelow
<1>9. ASSUME NEW n \in Below(H2, S), NEW s \in Sides, Internal(H2, n)
      PROVE  \E i \in Below(H, S), r \in Sides :
               /\ Internal(H, i) /\ To(H, i, r) = To(H2, n, s)
               /\ Flagged(H, i, r) => Flagged(H2, n, s)
  <2>1. CASE n = a /\ s = sa
    BY <1>1, <1>5, <2>1 DEF Inners
  <2>2. CASE ~(n = a /\ s = sa)
    BY <1>1, <1>2, <1>3, <1>8, <1>9, <2>2 DEF Inners
  <2> QED
    BY <2>1, <2>2
<1> QED
  BY <1>1, <1>2, <1>6, <1>7, <1>8, <1>9 DEF Frame

LEMMA GrowsFlags ==
  ASSUME Names, NEW H, TreeInv(H), NEW H2, Shape(H2), NEW k, NEW p, NEW m, NEW y, NEW z,
         Grows(H, H2, k, p, m, y, z)
  PROVE  FlagsStay(H, H2)
<1>1. Below(H2, S) = Below(H, S) \cup {y, z} /\ Below(H, S) \subseteq Made(H)
  BY GrowsBelow, GrowsTypes, PathBelow
<1>2. SUFFICES ASSUME NEW n \in Below(H2, S), NEW s \in Sides, Internal(H2, n), Flagged(H2, n, s)
               PROVE  \E i \in Below(H, S), r \in Sides :
                        Internal(H, i) /\ To(H, i, r) = To(H2, n, s) /\ Flagged(H, i, r)
  BY DEF FlagsStay
<1>3. n # y /\ n # z /\ ~(n = p /\ s = Side(H, p, k))
  BY <1>2 DEF Grows, Marked
<1>4. n \in Below(H, S) /\ n \in Inners(H) /\ Internal(H, n)
  BY <1>1, <1>2, <1>3 DEF Grows, Inners
<1>5. To(H2, n, s) = To(H, n, s) /\ (Flagged(H2, n, s) <=> Flagged(H, n, s))
  BY <1>3, <1>4 DEF Grows
<1> QED
  BY <1>2, <1>4, <1>5

LEMMA SplicesFlags ==
  ASSUME Names, NEW H, TreeInv(H), NEW H2, Shape(H2), NEW k, NEW a, NEW c0, NEW C, NEW p, NEW q,
         Splices(H, H2, k, a, c0, C, p, q)
  PROVE  FlagsStay(H, H2)
<1>1. /\ Below(H2, S) \subseteq Below(H, S) /\ Below(H, S) \subseteq Made(H)
      /\ C \subseteq Below(H, S) /\ C \subseteq Inners(H)
  BY SplicesBelow, SplicesTypes, PathBelow
<1>2. SUFFICES ASSUME NEW n \in Below(H2, S), NEW s \in Sides, Internal(H2, n), Flagged(H2, n, s)
               PROVE  \E i \in Below(H, S), r \in Sides :
                        Internal(H, i) /\ To(H, i, r) = To(H2, n, s) /\ Flagged(H, i, r)
  BY DEF FlagsStay
<1>3. n \in Below(H, S) /\ n \in Inners(H) /\ Internal(H, n)
  BY <1>1, <1>2 DEF Splices, Inners
<1>4. CASE n = a /\ s = Side(H, a, k)
  <2>1. p \in Below(H, S) /\ Internal(H, p) /\ q \in Sides
    BY <1>1 DEF Splices, Segment, Inners
  <2>2. To(H2, n, s) = To(H, p, q) /\ Flagged(H, p, q)
    BY <1>2, <1>4 DEF Splices
  <2> QED
    BY <2>1, <2>2
<1>5. CASE ~(n = a /\ s = Side(H, a, k))
  BY <1>2, <1>3, <1>5 DEF Splices
<1> QED
  BY <1>4, <1>5
-----------------------------------------------------------------------------
(* Threads.  c is the call of a thread, and mine the leaf that it has flagged. *)

Stands(H, n, k) == n \in Inners(H) /\ (n \in Path(H, k) \/ Frozen(H, n))

\* The call may end at leaf z.
Right(H, c, mine, z) ==
  IF mine = None THEN (IF H.key[z] = c.key THEN z[2] ELSE None) \in c.seen
  ELSE z = mine \/ c.took # None

\* A search from n on comes to such a leaf, whatever has been cut off behind it.
Tracks(H, c, mine, G) ==
  \A g \in G :
    IF Internal(H, g)
    THEN \/ g \in Path(H, c.key)
         \/ /\ Frozen(H, g) /\ Child(H, g, c.key) \in G
            /\ mine # None /\ Child(H, g, c.key) = mine => Flagged(H, g, Side(H, g, c.key))
    ELSE Right(H, c, mine, g)

Track(H, c, mine, n) == \E G \in SUBSET Made(H) : n \in G /\ Tracks(H, c, mine, G)

\* An open call, which has seen the contents as they are.
Running(H, c) ==
  /\ c \in Map!Calls /\ c.op \in {"get", "insert", "remove"} /\ c.answer = Pending
  /\ c.took = None => Value(H, c.key) \in c.seen

\* The leaf that a removal has flagged is there until the removal takes effect.
MineOK(H, c, mine) ==
  /\ c.op = "remove" /\ mine \in Made(H) /\ ~Internal(H, mine) /\ H.key[mine] = c.key
  /\ c.took \in {None, mine[2]} /\ (c.took = None <=> mine \in Below(H, S))
  /\ \A n \in Below(H, S), s \in Sides : Internal(H, n) /\ To(H, n, s) = mine => Flagged(H, n, s)

\* A call of a thread that has flagged the leaf mine, or has not flagged any.
Held(H, c, mine) == Running(H, c) /\ IF mine = None THEN c.took = None ELSE MineOK(H, c, mine)

\* The call c, when the heap is H2 and the leaves that cannot be reached are gone.
After(H2, mine, c) ==
  IF c = None \/ c.answer # Pending \/ c.took # None THEN c
  ELSE IF mine # None /\ mine \notin Below(H2, S) THEN [c EXCEPT !.took = mine[2]]
  ELSE [c EXCEPT !.seen = @ \cup {Value(H2, c.key)}]

LEMMA ValueIs ==
  ASSUME Names, NEW H, TreeInv(H), NEW k \in Keys
  PROVE  /\ Value(H, k) \in Keys \cup Threads \cup {None}
         /\ H.key[End(H, k)] = k => Value(H, k) # None
<1>1. End(H, k) \in Made(H) /\ ~Internal(H, End(H, k))
  BY EndIs, PathBelow DEF TreeInv
<1>2. H.key[End(H, k)] = k => End(H, k)[2] \in Keys \cup Threads
  BY <1>1 DEF TreeInv, LeavesNamed
<1> QED
  BY <1>2 DEF Value, Names

LEMMA CallIs ==
  ASSUME Names, NEW c \in Map!Calls
  PROVE  /\ c # None /\ c.op \in Map!Ops /\ c.key \in Keys /\ c.seen \subseteq Keys \cup Threads \cup {None}
         /\ c.took \in Keys \cup Threads \cup {None} /\ c.answer \in Keys \cup Threads \cup {None, Pending}
BY DEF Map!Calls, Map!Values, Names

\* A call with another took, seen or answer.
LEMMA CallWith ==
  ASSUME Names, NEW c \in Map!Calls, NEW v \in Keys \cup Threads \cup {None}, NEW d
  PROVE  /\ d = [c EXCEPT !.took = v] =>
              /\ d \in Map!Calls /\ d.op = c.op /\ d.key = c.key /\ d.seen = c.seen
              /\ d.answer = c.answer /\ d.took = v
         /\ d = [c EXCEPT !.seen = c.seen \cup {v}] =>
              /\ d \in Map!Calls /\ d.op = c.op /\ d.key = c.key /\ d.seen = c.seen \cup {v}
              /\ d.answer = c.answer /\ d.took = c.took
         /\ d = [c EXCEPT !.answer = v] =>
              /\ d \in Map!Calls /\ d.op = c.op /\ d.key = c.key /\ d.seen = c.seen
              /\ d.answer = v /\ d.took = c.took
<1>1. d = [c EXCEPT !.took = v] =>
        /\ d \in Map!Calls /\ d.op = c.op /\ d.key = c.key /\ d.seen = c.seen
        /\ d.answer = c.answer /\ d.took = v
  BY DEF Map!Calls, Map!Values
<1>2. d = [c EXCEPT !.seen = c.seen \cup {v}] =>
        /\ d \in Map!Calls /\ d.op = c.op /\ d.key = c.key /\ d.seen = c.seen \cup {v}
        /\ d.answer = c.answer /\ d.took = c.took
  BY DEF Map!Calls, Map!Values
<1>3. d = [c EXCEPT !.answer = v] =>
        /\ d \in Map!Calls /\ d.op = c.op /\ d.key = c.key /\ d.seen = c.seen
        /\ d.answer = v /\ d.took = c.took
  BY DEF Map!Calls, Map!Values
<1> QED
  BY <1>1, <1>2, <1>3

LEMMA AfterIs ==
  ASSUME Names, NEW H2, TreeInv(H2), NEW mine, NEW c \in Map!Calls, c.answer = Pending,
         mine # None => mine[2] \in Keys \cup Threads,
         NEW d, d = After(H2, mine, c)
  PROVE  /\ d \in Map!Calls /\ d.op = c.op /\ d.key = c.key /\ d.answer = Pending /\ c.seen \subseteq d.seen
         /\ c.took # None => d = c
         /\ c.took = None => 
              IF mine # None /\ mine \notin Below(H2, S) THEN d.took = mine[2] /\ d.took # None
              ELSE d.took = None /\ Value(H2, c.key) \in d.seen
<1>1. c # None /\ c.key \in Keys
  BY CallIs
<1>2. Value(H2, c.key) \in Keys \cup Threads \cup {None}
  BY <1>1, ValueIs
<1>3. CASE c.took # None
  BY <1>3 DEF After
<1>4. CASE c.took = None /\ mine # None /\ mine \notin Below(H2, S)
  <2> DEFINE v == mine[2]
  <2>1. d = [c EXCEPT !.took = v] /\ v \in Keys \cup Threads \cup {None} /\ v # None
    BY <1>1, <1>4 DEF After, Names
  <2> HIDE DEF v
  <2>2. /\ d \in Map!Calls /\ d.op = c.op /\ d.key = c.key /\ d.seen = c.seen
        /\ d.answer = c.answer /\ d.took = v
    BY <2>1, CallWith
  <2> QED
    BY <1>4, <2>1, <2>2 DEF v
<1>5. CASE c.took = None /\ ~(mine # None /\ mine \notin Below(H2, S))
  <2> DEFINE v == Value(H2, c.key)
  <2>1. d = [c EXCEPT !.seen = c.seen \cup {v}] /\ v \in Keys \cup Threads \cup {None}
    BY <1>1, <1>2, <1>5 DEF After
  <2> HIDE DEF v
  <2>2. /\ d \in Map!Calls /\ d.op = c.op /\ d.key = c.key /\ d.seen = c.seen \cup {v}
        /\ d.answer = c.answer /\ d.took = c.took
    BY <2>1, CallWith
  <2> QED
    BY <1>5, <2>2 DEF v
<1> QED
  BY <1>3, <1>4, <1>5

LEMMA MineNamed ==
  ASSUME Names, NEW H, TreeInv(H), NEW c, NEW mine, Held(H, c, mine), mine # None
  PROVE  /\ mine[2] \in Keys \cup Threads /\ mine[2] # None /\ mine = Leaf(mine[2])
         /\ mine \in Made(H) /\ ~Internal(H, mine) /\ H.key[mine] = c.key /\ c.key \in Keys
         /\ mine \in Below(H, S) => mine \in Path(H, c.key)
<1>1. mine \in Made(H) /\ ~Internal(H, mine) /\ H.key[mine] = c.key
  BY DEF Held, MineOK
<1>2. c.key \in Keys
  BY CallIs DEF Held, Running
<1>3. mine[2] \in Keys \cup Threads /\ mine = Leaf(mine[2])
  BY <1>1, <1>2 DEF TreeInv, LeavesNamed
<1>4. mine \in Below(H, S) => mine \in Path(H, c.key)
  BY <1>1, <1>2 DEF TreeInv, OnPath
<1> QED
  BY <1>1, <1>2, <1>3, <1>4 DEF Names

\* In a step of another thread, or of its own, the call and the leaf stay so.
LEMMA HeldKeeps ==
  ASSUME Names, NEW H, TreeInv(H), NEW H2, TreeInv(H2), Frame(H, H2), NEW c, NEW mine, Held(H, c, mine),
         NEW d, d = After(H2, mine, c)
  PROVE  /\ Held(H2, d, mine) /\ d.op = c.op /\ d.key = c.key /\ c.seen \subseteq d.seen
         /\ c.took # None => d.took # None
<1>1. c \in Map!Calls /\ c.answer = Pending /\ c.op \in {"get", "insert", "remove"}
  BY DEF Held, Running
<1>2. mine # None => mine[2] \in Keys \cup Threads
  BY MineNamed
<1>3. /\ d \in Map!Calls /\ d.op = c.op /\ d.key = c.key /\ d.answer = Pending /\ c.seen \subseteq d.seen
      /\ c.took # None => d = c
      /\ c.took = None => 
           IF mine # None /\ mine \notin Below(H2, S) THEN d.took = mine[2] /\ d.took # None
           ELSE d.took = None /\ Value(H2, c.key) \in d.seen
  BY <1>1, <1>2, AfterIs
<1>4. Running(H2, d)
  BY <1>1, <1>3 DEF Running
<1>5. mine = None => d.took = None
  BY <1>3 DEF Held
<1>6. ASSUME mine # None
      PROVE  MineOK(H2, d, mine)
  <2>1. MineOK(H, c, mine)
    BY <1>6 DEF Held
  <2>2. mine \in Made(H2) /\ ~Internal(H2, mine) /\ H2.key[mine] = c.key
    BY <2>1 DEF MineOK, Frame
  <2>3. mine \in Below(H2, S) => mine \in Below(H, S)
    BY <2>1 DEF MineOK, Frame
  <2>4. d.took \in {None, mine[2]} /\ (d.took = None <=> mine \in Below(H2, S))
    BY <1>3, <1>6, <2>1, <2>3 DEF MineOK
  <2>5. ASSUME NEW n \in Below(H2, S), NEW s \in Sides, Internal(H2, n), To(H2, n, s) = mine
        PROVE  Flagged(H2, n, s)
    <3>1. PICK m \in Below(H, S), r \in Sides :
            /\ Internal(H, m) /\ To(H, m, r) = mine
            /\ Flagged(H, m, r) => Flagged(H2, n, s)
      BY <2>1, <2>2, <2>5 DEF MineOK, Frame
    <3> QED
      BY <2>1, <3>1 DEF MineOK
  <2> QED
    BY <1>3, <2>1, <2>2, <2>4, <2>5 DEF MineOK
<1> QED
  BY <1>3, <1>4, <1>5, <1>6 DEF Held

\* The leaf where a search ends at once is one where the call may end.
LEMMA PathRight ==
  ASSUME Names, NEW H, TreeInv(H), NEW c, NEW mine, Held(H, c, mine),
         NEW z \in Path(H, c.key), ~Internal(H, z)
  PROVE  Right(H, c, mine, z)
<1>1. c.key \in Keys /\ Shape(H) /\ Founded(H)
  BY CallIs DEF Held, Running, TreeInv
<1>2. CASE mine = None
  <2>1. End(H, c.key) = z
    BY <1>1, EndIs
  <2>2. Value(H, c.key) \in c.seen
    BY <1>2 DEF Held, Running
  <2> QED
    BY <1>2, <2>1, <2>2 DEF Right, Value
<1>3. CASE mine # None
  <2>1. c.took = None => mine \in Path(H, c.key) /\ ~Internal(H, mine)
    BY <1>3, MineNamed DEF Held, MineOK
  <2> QED
    BY <1>1, <1>3, <2>1, OneEnd DEF Right
<1> QED
  BY <1>2, <1>3

LEMMA RightKeeps ==
  ASSUME NEW H, NEW H2, Frame(H, H2), NEW c, NEW d, NEW mine, NEW z \in Made(H), Right(H, c, mine, z),
         d.key = c.key, c.seen \subseteq d.seen, c.took # None => d.took # None
  PROVE  Right(H2, d, mine, z)
BY DEF Right, Frame

\* A node whose edges are both marked stays as it is.
LEMMA FrozenKeeps ==
  ASSUME NEW H, NEW H2, Frame(H, H2), NEW n \in Made(H), Frozen(H, n)
  PROVE  /\ Frozen(H2, n) /\ Internal(H2, n)
         /\ \A k : Side(H2, n, k) = Side(H, n, k) /\ Child(H2, n, k) = Child(H, n, k)
         /\ \A s \in Sides : Flagged(H, n, s) => Flagged(H2, n, s)
<1>1. n \in Inners(H) /\ Internal(H2, n) /\ H2.key[n] = H.key[n]
  BY DEF Frozen, Inners, Frame
<1>2. \A s \in Sides : /\ Flagged(H, n, s) => Flagged(H2, n, s)
                       /\ Marked(H2, n, s) /\ To(H2, n, s) = To(H, n, s)
  BY <1>1 DEF Frame, Frozen, Marked
<1>3. \A k : Side(H2, n, k) = Side(H, n, k)
  BY <1>1 DEF Side
<1> QED
  BY <1>1, <1>2, <1>3, SidesAre DEF Frozen, Child

LEMMA TrackKeeps ==
  ASSUME Names, NEW H, TreeInv(H), NEW H2, TreeInv(H2), Frame(H, H2), NEW c, NEW mine, Held(H, c, mine),
         NEW d, d = After(H2, mine, c), NEW n, Track(H, c, mine, n)
  PROVE  Track(H2, d, mine, n)
<1> DEFINE k == c.key
<1>1. PICK G \in SUBSET Made(H) : n \in G /\ Tracks(H, c, mine, G)
  BY DEF Track
<1> DEFINE G2 == G \cup Path(H, k)
<1>2. /\ k \in Keys /\ Shape(H) /\ Path(H, k) \subseteq Made(H) /\ Path(H, k) \subseteq Below(H, S)
      /\ \A g \in Path(H, k) : Internal(H, g) => Child(H, g, k) \in Path(H, k)
  BY CallIs, PathBelow DEF Held, Running, TreeInv
<1>3. /\ d.key = k /\ c.seen \subseteq d.seen /\ (c.took # None => d.took # None)
  BY HeldKeeps
<1>4. \A g \in Made(H) : g \in Made(H2) /\ (Internal(H2, g) <=> Internal(H, g))
  BY DEF Frame
<1> HIDE DEF k
<1>5. ASSUME NEW g \in G2, ~Internal(H, g)
      PROVE  Right(H2, d, mine, g)
  <2>1. Right(H, c, mine, g)
    BY <1>1, <1>5, PathRight DEF Tracks, k
  <2> QED
    BY <1>2, <1>3, <2>1, RightKeeps DEF k
<1>6. ASSUME NEW g \in G2, Internal(H, g), g \notin Path(H2, k)
      PROVE  /\ Frozen(H2, g) /\ Child(H2, g, k) \in G2
             /\ mine # None /\ Child(H2, g, k) = mine => Flagged(H2, g, Side(H2, g, k))
  <2>1. /\ Frozen(H, g) /\ Child(H, g, k) \in G2
        /\ mine # None /\ Child(H, g, k) = mine => Flagged(H, g, Side(H, g, k))
    <3>1. CASE g \in Path(H, k)
      <4>1. Frozen(H, g)
        BY <1>2, <1>6, <3>1 DEF Frame, Inners
      <4>2. ASSUME mine # None, Child(H, g, k) = mine
            PROVE  Flagged(H, g, Side(H, g, k))
        BY <1>2, <1>6, <3>1, <4>2, SidesAre DEF Held, MineOK, Child
      <4> QED
        BY <1>2, <1>6, <3>1, <4>1, <4>2
    <3>2. CASE g \notin Path(H, k)
      BY <1>1, <1>6, <3>2 DEF Tracks, k
    <3> QED
      BY <3>1, <3>2
  <2>2. g \in Made(H)
    BY <1>2
  <2>3. /\ Frozen(H2, g) /\ Side(H2, g, k) = Side(H, g, k) /\ Child(H2, g, k) = Child(H, g, k)
        /\ \A s \in Sides : Flagged(H, g, s) => Flagged(H2, g, s)
    BY <2>1, <2>2, FrozenKeeps
  <2> QED
    BY <2>1, <2>3, SidesAre
<1>7. Tracks(H2, d, mine, G2)
  BY <1>2, <1>3, <1>4, <1>5, <1>6 DEF Tracks
<1>8. G2 \in SUBSET Made(H2) /\ n \in G2
  BY <1>1, <1>2, <1>4
<1> QED
  BY <1>7, <1>8 DEF Track

-----------------------------------------------------------------------------
(* Seek records *)

\* From node a, where the record's ancestor edge is, tagged edges lead to p.
Ahead(H, k, l, p) ==
  \E a, C : /\ l.above = <<a, Side(H, a, k)>> /\ Stands(H, a, k)
            /\ Segment(H, k, l.successor, p, C)

SeekOK(H, c, l) ==
  /\ l = [pc |-> l.pc, mine |-> l.mine, above |-> l.above, successor |-> l.successor,
          edge |-> l.edge, leaf |-> l.leaf, tagged |-> l.tagged]
  /\ l.leaf \in Made(H)
  /\ \E p : /\ Stands(H, p, c.key) /\ l.edge = <<p, Side(H, p, c.key)>>
            /\ p = S => H.key[l.leaf] = Inf
            /\ c.op # "get" => p = S \/ Ahead(H, c.key, l, p)
            /\ l.tagged => Tagged(H, p, Side(H, p, c.key)) /\ Child(H, p, c.key) = l.leaf

\* The marked edge that the record ends with.
LookOK(H, l) ==
  LET e == H.edge[l.edge] IN
  /\ e.flag \/ e.tag
  /\ l.mine # None => e.flag /\ e.to = l.mine

\* A record for cleanup.
EraseOK(H, c, l) ==
  /\ l = [pc |-> l.pc, mine |-> l.mine, above |-> l.above, successor |-> l.successor,
          edge |-> l.edge]
  /\ \E p \in Inners(H), q \in Sides :
       /\ l.edge = <<p, q>> /\ Ahead(H, c.key, l, p) /\ Flagged(H, p, Other(q))
       /\ l.mine # None => To(H, p, Other(q)) = l.mine
       /\ l.pc = "splice" => Tagged(H, p, q)

\* Where thread u may be, with its call c.
ThreadOK(H, u, l, c) ==
  \/ l.pc = "idle" /\ l.mine = None /\ c = None
  \/ l.pc = "done" /\ l.mine = None /\ c \in Map!Calls /\ c.answer # Pending
  \/ l.pc = "true" /\ l.mine = None /\ Running(H, c) /\ c.op = "insert" /\ c.took = u
  \/ l.pc = "start" /\ Held(H, c, l.mine)
  \/ /\ l.pc = "seek" /\ Held(H, c, l.mine) /\ SeekOK(H, c, l)
     /\ Internal(H, l.leaf) /\ Track(H, c, l.mine, l.leaf)
  \/ /\ l.pc = "link" /\ Held(H, c, l.mine) /\ SeekOK(H, c, l)
     /\ c.op = "insert" /\ l.mine = None /\ ~Internal(H, l.leaf) /\ H.key[l.leaf] # c.key
  \/ /\ l.pc = "flag" /\ Held(H, c, l.mine) /\ SeekOK(H, c, l)
     /\ c.op = "remove" /\ l.mine = None /\ ~Internal(H, l.leaf) /\ H.key[l.leaf] = c.key
  \/ /\ l.pc = "look" /\ Held(H, c, l.mine) /\ SeekOK(H, c, l)
     /\ c.op # "get" /\ LookOK(H, l)
  \/ /\ l.pc \in {"tag", "splice"} /\ Held(H, c, l.mine) /\ EraseOK(H, c, l)
     /\ c.op # "get"

LEMMA StandsKeeps ==
  ASSUME NEW H, NEW H2, Frame(H, H2), NEW k \in Keys, NEW n, Stands(H, n, k)
  PROVE  Stands(H2, n, k) /\ Side(H2, n, k) = Side(H, n, k) /\ n \in Inners(H)
<1>1. n \in Inners(H) /\ n \in Made(H) /\ Internal(H, n)
  BY DEF Stands, Inners
<1>2. n \in Inners(H2) /\ Side(H2, n, k) = Side(H, n, k)
  BY <1>1 DEF Frame, Inners, Side
<1>3. n \in Path(H2, k) \/ Frozen(H2, n)
  BY <1>1, FrozenKeeps DEF Stands, Frame
<1> QED
  BY <1>1, <1>2, <1>3 DEF Stands

LEMMA SegmentKeeps ==
  ASSUME NEW H, NEW H2, Frame(H, H2), NEW k, NEW c0, NEW p, NEW C, Segment(H, k, c0, p, C)
  PROVE  Segment(H2, k, c0, p, C)
<1>1. C \subseteq Inners(H) /\ c0 \in C /\ p \in C
  BY DEF Segment
<1>2. C \subseteq Inners(H2)
  BY <1>1 DEF Frame, Inners
<1>3. ASSUME NEW n \in C \ {p}
      PROVE  /\ Tagged(H2, n, Side(H2, n, k)) /\ Child(H2, n, k) \in C
             /\ Child(H2, n, k) = Child(H, n, k)
  <2>1. Tagged(H, n, Side(H, n, k)) /\ Child(H, n, k) \in C /\ n \in Inners(H)
    BY <1>1 DEF Segment
  <2>2. Side(H2, n, k) = Side(H, n, k)
    BY <2>1 DEF Frame, Inners, Side
  <2> QED
    BY <2>1, <2>2, SidesAre DEF Frame, Marked, Child
<1>4. ASSUME NEW D \in SUBSET C, c0 \in D, \A n \in D \ {p} : Child(H2, n, k) \in D
      PROVE  D = C
  <2>1. \A n \in D \ {p} : Child(H, n, k) \in D
    BY <1>3, <1>4
  <2> QED
    BY <1>4, <2>1 DEF Segment
<1> QED
  BY <1>1, <1>2, <1>3, <1>4 DEF Segment

LEMMA SegmentStart ==
  ASSUME NEW H, NEW k, NEW n \in Inners(H)
  PROVE  Segment(H, k, n, n, {n})
BY DEF Segment

\* One tagged edge further.
LEMMA SegmentGoesOn ==
  ASSUME NEW H, Founded(H), NEW k, NEW c0, NEW p, NEW C, Segment(H, k, c0, p, C),
         Tagged(H, p, Side(H, p, k)), NEW n \in Inners(H), Child(H, p, k) = n
  PROVE  Segment(H, k, c0, n, C \cup {n})
<1>1. C \subseteq Inners(H) /\ c0 \in C /\ p \in C
      /\ \A m \in C \ {p} : Tagged(H, m, Side(H, m, k)) /\ Child(H, m, k) \in C
  BY DEF Segment
<1>2. n \notin C
  <2> SUFFICES ASSUME n \in C PROVE FALSE
    OBVIOUS
  <2>1. \A m \in C : Child(H, m, k) \in C
    BY <1>1
  <2>2. \A m \in C : \E s \in Sides : To(H, m, s) \in C
    BY <2>1, SidesAre DEF Child
  <2> QED
    BY <1>1, <2>2 DEF Founded
<1>3. \A m \in (C \cup {n}) \ {n} : Tagged(H, m, Side(H, m, k)) /\ Child(H, m, k) \in C \cup {n}
  BY <1>1
<1>4. ASSUME NEW D \in SUBSET (C \cup {n}), c0 \in D, \A m \in D \ {n} : Child(H, m, k) \in D
      PROVE  D = C \cup {n}
  <2> DEFINE E == D \cap C
  <2>1. c0 \in E /\ E \in SUBSET C /\ \A m \in E \ {p} : Child(H, m, k) \in E
    BY <1>1, <1>2, <1>4
  <2>2. E = C
    BY <2>1 DEF Segment
  <2>3. p \in D /\ p # n
    BY <1>1, <1>2, <2>2
  <2>4. n \in D
    BY <1>4, <2>3
  <2> QED
    BY <2>2, <2>4
<1> QED
  BY <1>1, <1>3, <1>4 DEF Segment

LEMMA AheadKeeps ==
  ASSUME NEW H, NEW H2, Frame(H, H2), NEW k \in Keys, NEW l, NEW p, Ahead(H, k, l, p)
  PROVE  Ahead(H2, k, l, p)
<1>1. PICK a, C : /\ l.above = <<a, Side(H, a, k)>> /\ Stands(H, a, k)
                  /\ Segment(H, k, l.successor, p, C)
  BY DEF Ahead
<1>2. Stands(H2, a, k) /\ Side(H2, a, k) = Side(H, a, k)
  BY <1>1, StandsKeeps
<1>3. Segment(H2, k, l.successor, p, C)
  BY <1>1, SegmentKeeps
<1> QED
  BY <1>1, <1>2, <1>3 DEF Ahead

LEMMA SeekKeeps ==
  ASSUME NEW H, NEW H2, Frame(H, H2), NEW c, NEW d, c.key \in Keys, d.key = c.key, d.op = c.op,
         NEW l, SeekOK(H, c, l)
  PROVE  SeekOK(H2, d, l)
<1> DEFINE k == c.key
<1>1. PICK p : /\ Stands(H, p, k) /\ l.edge = <<p, Side(H, p, k)>>
               /\ p = S => H.key[l.leaf] = Inf
               /\ c.op # "get" => p = S \/ Ahead(H, k, l, p)
               /\ l.tagged => Tagged(H, p, Side(H, p, k)) /\ Child(H, p, k) = l.leaf
  BY DEF SeekOK
<1>2. l.leaf \in Made(H)
  BY DEF SeekOK
<1> HIDE DEF k
<1>3. Stands(H2, p, k) /\ Side(H2, p, k) = Side(H, p, k) /\ p \in Inners(H)
  BY <1>1, StandsKeeps DEF k
<1>4. l.leaf \in Made(H2) /\ H2.key[l.leaf] = H.key[l.leaf]
  BY <1>2 DEF Frame
<1>5. c.op # "get" => p = S \/ Ahead(H2, k, l, p)
  BY <1>1, AheadKeeps DEF k
<1>6. l.tagged => Tagged(H2, p, Side(H2, p, k)) /\ Child(H2, p, k) = l.leaf
  BY <1>1, <1>3, SidesAre DEF Frame, Marked, Child
<1>7. \E r : /\ Stands(H2, r, k) /\ l.edge = <<r, Side(H2, r, k)>>
             /\ r = S => H2.key[l.leaf] = Inf
             /\ c.op # "get" => r = S \/ Ahead(H2, k, l, r)
             /\ l.tagged => Tagged(H2, r, Side(H2, r, k)) /\ Child(H2, r, k) = l.leaf
  <2> WITNESS p
  <2> QED
    BY <1>1, <1>3, <1>4, <1>5, <1>6
<1>8. l = [pc |-> l.pc, mine |-> l.mine, above |-> l.above, successor |-> l.successor,
           edge |-> l.edge, leaf |-> l.leaf, tagged |-> l.tagged]
  BY DEF SeekOK
<1> QED
  BY <1>4, <1>7, <1>8 DEF SeekOK, k

LEMMA LookKeeps ==
  ASSUME NEW H, NEW H2, Frame(H, H2), NEW c, NEW l, SeekOK(H, c, l), LookOK(H, l)
  PROVE  LookOK(H2, l)
<1>1. PICK p : Stands(H, p, c.key) /\ l.edge = <<p, Side(H, p, c.key)>>
  BY DEF SeekOK
<1> DEFINE s == Side(H, p, c.key)
<1>2. p \in Inners(H) /\ s \in Sides /\ l.edge = <<p, s>>
  BY <1>1, SidesAre DEF Stands
<1> HIDE DEF s
<1>3. /\ Flagged(H, p, s) \/ Tagged(H, p, s)
      /\ l.mine # None => Flagged(H, p, s) /\ To(H, p, s) = l.mine
  BY <1>2 DEF LookOK, Flagged, Tagged, To
<1>4. /\ Flagged(H2, p, s) \/ Tagged(H2, p, s)
      /\ l.mine # None => Flagged(H2, p, s) /\ To(H2, p, s) = l.mine
  BY <1>2, <1>3 DEF Frame, Marked
<1> QED
  BY <1>2, <1>4 DEF LookOK, Flagged, Tagged, To

LEMMA EraseKeeps ==
  ASSUME NEW H, NEW H2, Frame(H, H2), NEW c, NEW d, c.key \in Keys, d.key = c.key,
         NEW l, EraseOK(H, c, l)
  PROVE  EraseOK(H2, d, l)
<1> DEFINE k == c.key
<1>1. PICK p \in Inners(H), q \in Sides :
        /\ l.edge = <<p, q>> /\ Ahead(H, k, l, p) /\ Flagged(H, p, Other(q))
        /\ l.mine # None => To(H, p, Other(q)) = l.mine
        /\ l.pc = "splice" => Tagged(H, p, q)
  BY DEF EraseOK
<1> HIDE DEF k
<1>2. p \in Inners(H2)
  BY DEF Frame, Inners
<1>3. Ahead(H2, k, l, p)
  BY <1>1, AheadKeeps DEF k
<1>4. /\ Flagged(H2, p, Other(q)) /\ To(H2, p, Other(q)) = To(H, p, Other(q))
      /\ Tagged(H, p, q) => Tagged(H2, p, q)
  BY <1>1, SidesAre DEF Frame, Marked
<1>5. l = [pc |-> l.pc, mine |-> l.mine, above |-> l.above, successor |-> l.successor,
           edge |-> l.edge]
  BY DEF EraseOK
<1> QED
  BY <1>1, <1>2, <1>3, <1>4, <1>5 DEF EraseOK, k

\* What a thread knows it goes on knowing in the steps of the others.
LEMMA ThreadKeeps ==
  ASSUME Names, NEW H, TreeInv(H), NEW H2, TreeInv(H2), Frame(H, H2), NEW u \in Threads,
         NEW l, NEW c, ThreadOK(H, u, l, c), NEW d, d = After(H2, l.mine, c)
  PROVE  ThreadOK(H2, u, l, d)
<1>1. CASE l.pc = "idle" /\ l.mine = None /\ c = None
  BY <1>1 DEF ThreadOK, After
<1>2. CASE l.pc = "done" /\ l.mine = None /\ c \in Map!Calls /\ c.answer # Pending
  BY <1>2 DEF ThreadOK, After
<1>3. CASE l.pc = "true" /\ l.mine = None /\ Running(H, c) /\ c.op = "insert" /\ c.took = u
  <2>1. c.took # None
    BY <1>3 DEF Names
  <2>2. d = c /\ Running(H2, d)
    BY <1>3, <2>1 DEF After, Running
  <2> QED
    BY <1>3, <2>2 DEF ThreadOK
<1>4. ASSUME Held(H, c, l.mine)
      PROVE  /\ Held(H2, d, l.mine) /\ d.op = c.op /\ d.key = c.key /\ c.key \in Keys
             /\ SeekOK(H, c, l) => SeekOK(H2, d, l)
             /\ SeekOK(H, c, l) /\ LookOK(H, l) => LookOK(H2, l)
             /\ EraseOK(H, c, l) => EraseOK(H2, d, l)
             /\ SeekOK(H, c, l) => /\ Internal(H2, l.leaf) <=> Internal(H, l.leaf)
                                   /\ H2.key[l.leaf] = H.key[l.leaf]
             /\ Track(H, c, l.mine, l.leaf) => Track(H2, d, l.mine, l.leaf)
  <2>1. Held(H2, d, l.mine) /\ d.op = c.op /\ d.key = c.key
    BY <1>4, HeldKeeps
  <2>2. c.key \in Keys
    BY <1>4, CallIs DEF Held, Running
  <2>3. SeekOK(H, c, l) => SeekOK(H2, d, l)
    BY <2>1, <2>2, SeekKeeps
  <2>4. EraseOK(H, c, l) => EraseOK(H2, d, l)
    BY <2>1, <2>2, EraseKeeps
  <2>5. SeekOK(H, c, l) => /\ Internal(H2, l.leaf) <=> Internal(H, l.leaf)
                           /\ H2.key[l.leaf] = H.key[l.leaf]
    BY DEF SeekOK, Frame
  <2>6. Track(H, c, l.mine, l.leaf) => Track(H2, d, l.mine, l.leaf)
    BY <1>4, TrackKeeps
  <2>7. SeekOK(H, c, l) /\ LookOK(H, l) => LookOK(H2, l)
    BY LookKeeps
  <2> QED
    BY <2>1, <2>2, <2>3, <2>4, <2>5, <2>6, <2>7
<1>5. CASE l.pc \in {"start", "seek"} /\ Held(H, c, l.mine)
  BY <1>4, <1>5 DEF ThreadOK
<1>6. CASE l.pc \in {"link", "flag"} /\ Held(H, c, l.mine)
  BY <1>4, <1>6 DEF ThreadOK
<1>7. CASE l.pc \in {"look", "tag", "splice"} /\ Held(H, c, l.mine)
  BY <1>4, <1>7 DEF ThreadOK
<1> QED
  BY <1>1, <1>2, <1>3, <1>5, <1>6, <1>7 DEF ThreadOK

-----------------------------------------------------------------------------
(* The inductive invariant *)

\* Every flagged edge that can be reached leads to the leaf of a removal,
Owned ==
  \A n \in Below(heap, S), s \in Sides : Internal(heap, n) /\ Flagged(heap, n, s) =>
    \E u \in Threads : local[u].mine = To(heap, n, s)

\* and of one only.
Apart ==
  \A u, v \in Threads :
    u # v /\ local[u].mine # None /\ local[u].mine = local[v].mine => local[u].mine \notin Below(heap, S)

\* The nodes of an insertion are new.
Unmade ==
  \A u \in Threads : call[u] = None \/ (call[u].op = "insert" /\ call[u].took = None) =>
    Leaf(u) \notin Made(heap) /\ Inner(u) \notin Made(heap)

TreeMade ==
  /\ TreeInv(heap)
  /\ local = [u \in Threads |-> local[u]] /\ call = [u \in Threads |-> call[u]]
  /\ \A u \in Threads : ThreadOK(heap, u, local[u], call[u])
  /\ Owned /\ Apart /\ Unmade

LEMMA MineHeld ==
  ASSUME TreeMade, NEW u \in Threads, local[u].mine # None
  PROVE  Held(heap, call[u], local[u].mine)
<1>1. ThreadOK(heap, u, local[u], call[u])
  BY DEF TreeMade
<1> QED
  BY <1>1 DEF ThreadOK

\* Only its own thread begins a call.
LEMMA AfterOld ==
  ASSUME Names, NEW H, TreeInv(H), NEW H2, TreeInv(H2), NEW u, NEW l, NEW c, ThreadOK(H, u, l, c),
         NEW d, d = After(H2, l.mine, c)
  PROVE  /\ d = None <=> c = None
         /\ d # None => d.op = c.op /\ d.key = c.key /\ (d.answer = Pending <=> c.answer = Pending)
         /\ d # None /\ d.took = None => c.took = None
<1>1. CASE c = None \/ c.answer # Pending
  BY <1>1 DEF After
<1>2. CASE c # None /\ c.answer = Pending
  <2>1. c \in Map!Calls
    BY <1>2 DEF ThreadOK, Held, Running
  <2>2. l.mine # None => l.mine[2] \in Keys \cup Threads
    <3>1. l.mine # None => Held(H, c, l.mine)
      BY DEF ThreadOK
    <3> QED
      BY <3>1, MineNamed
  <2>3. /\ d \in Map!Calls /\ d.op = c.op /\ d.key = c.key /\ d.answer = Pending
        /\ c.took # None => d = c
    BY <1>2, <2>1, <2>2, AfterIs
  <2> QED
    BY <1>2, <2>3, CallIs
<1> QED
  BY <1>1, <1>2

\* From H to H2 a thread exchanges its leaf mine for mine2.
FlagsGo(H, H2, mine, mine2) ==
  \A n \in Below(H2, S), s \in Sides : Internal(H2, n) /\ Flagged(H2, n, s) =>
    \/ To(H2, n, s) = mine2
    \/ /\ To(H2, n, s) # mine
       /\ \E m \in Below(H, S), r \in Sides :
            Internal(H, m) /\ To(H, m, r) = To(H2, n, s) /\ Flagged(H, m, r)

\* Thread t goes to l with call c.
LEMMA StepMade ==
  ASSUME Names, TreeMade, NEW t \in Threads, NEW l, NEW c,
         TreeInv(heap'), Frame(heap, heap'),
         local' = [local EXCEPT ![t] = l],
         call' = [u \in Threads |-> IF u = t THEN c ELSE After(heap', local[u].mine, call[u])],
         ThreadOK(heap', t, l, c),
         FlagsGo(heap, heap', local[t].mine, l.mine),
         l.mine \in {None, local[t].mine} \/ \A u \in Threads \ {t} : local[u].mine # l.mine,
         Made(heap') \subseteq Made(heap) \cup {Leaf(t), Inner(t)},
         c = None \/ (c.op = "insert" /\ c.took = None) =>
           Leaf(t) \notin Made(heap') /\ Inner(t) \notin Made(heap')
  PROVE  TreeMade'
<1>1. /\ local'[t] = l /\ call'[t] = c /\ \A u \in Threads \ {t} : local'[u] = local[u]
      /\ \A u \in Threads \ {t} : call'[u] = After(heap', local[u].mine, call[u])
  BY DEF TreeMade
<1>2. \A u \in Threads : ThreadOK(heap, u, local[u], call[u])
  BY DEF TreeMade
<1>3. TreeInv(heap)
  BY DEF TreeMade
<1>4. ASSUME NEW u \in Threads PROVE ThreadOK(heap', u, local'[u], call'[u])
  <2>1. CASE u = t
    BY <1>1, <2>1
  <2>2. CASE u # t
    BY <1>1, <1>2, <1>3, <2>2, ThreadKeeps
  <2> QED
    BY <2>1, <2>2
<1>5. ASSUME NEW n \in Below(heap', S), NEW s \in Sides, Internal(heap', n), Flagged(heap', n, s)
      PROVE  \E u \in Threads : local'[u].mine = To(heap', n, s)
  <2>1. CASE To(heap', n, s) = l.mine
    BY <1>1, <2>1
  <2>2. CASE To(heap', n, s) # l.mine
    <3>1. PICK m \in Below(heap, S), r \in Sides :
            Internal(heap, m) /\ To(heap, m, r) = To(heap', n, s) /\ Flagged(heap, m, r)
      BY <1>5, <2>2 DEF FlagsGo
    <3>2. PICK u \in Threads : local[u].mine = To(heap, m, r)
      BY <3>1 DEF TreeMade, Owned
    <3>3. u # t
      BY <1>5, <2>2, <3>1, <3>2 DEF FlagsGo
    <3> QED
      BY <1>1, <3>1, <3>2, <3>3
  <2> QED
    BY <2>1, <2>2
<1>6. ASSUME NEW u \in Threads, NEW v \in Threads, u # v, local[u].mine # None,
             local[u].mine = local[v].mine
      PROVE  local[u].mine \notin Below(heap', S)
  <2>1. local[u].mine \notin Below(heap, S)
    BY <1>6 DEF TreeMade, Apart
  <2>2. local[u].mine \in Made(heap)
    BY <1>6, MineHeld DEF Held, MineOK
  <2> QED
    BY <2>1, <2>2 DEF Frame
<1>7. ASSUME NEW u \in Threads, NEW v \in Threads, u # v, local'[u].mine # None,
             local'[u].mine = local'[v].mine
      PROVE  local'[u].mine \notin Below(heap', S)
  <2>1. CASE u # t /\ v # t
    BY <1>1, <1>6, <1>7, <2>1
  <2>2. CASE u = t
    <3>1. l.mine # None /\ l.mine = local[v].mine /\ v # t
      BY <1>1, <1>7, <2>2
    <3>2. l.mine = local[t].mine
      BY <3>1
    <3> QED
      BY <1>1, <1>6, <2>2, <3>1, <3>2
  <2>3. CASE v = t
    <3>1. l.mine # None /\ l.mine = local[u].mine /\ u # t /\ local'[u].mine = local[u].mine
      BY <1>1, <1>7, <2>3
    <3>2. l.mine = local[t].mine
      BY <3>1
    <3> QED
      BY <1>6, <3>1, <3>2
  <2> QED
    BY <2>1, <2>2, <2>3
<1>8. ASSUME NEW u \in Threads, call'[u] = None \/ (call'[u].op = "insert" /\ call'[u].took = None)
      PROVE  Leaf(u) \notin Made(heap') /\ Inner(u) \notin Made(heap')
  <2>1. CASE u = t
    BY <1>1, <1>8, <2>1
  <2>2. CASE u # t
    <3>1. call[u] = None \/ (call[u].op = "insert" /\ call[u].took = None)
      BY <1>1, <1>2, <1>3, <1>8, <2>2, AfterOld
    <3>2. Leaf(u) \notin Made(heap) /\ Inner(u) \notin Made(heap)
      BY <3>1 DEF TreeMade, Unmade
    <3>3. {Leaf(u), Inner(u)} \cap {Leaf(t), Inner(t)} = {}
      BY <2>2 DEF Leaf, Inner
    <3> QED
      BY <3>2, <3>3
  <2> QED
    BY <2>1, <2>2
<1>9. local' = [u \in Threads |-> local'[u]] /\ call' = [u \in Threads |-> call'[u]]
  BY DEF TreeMade
<1> QED
  BY <1>4, <1>5, <1>7, <1>8, <1>9 DEF TreeMade, Owned, Apart, Unmade

-----------------------------------------------------------------------------
(* Steps of the map *)

LEMMA ContentsAre ==
  /\ \A k \in Keys : Contents[k] = Value(heap, k)
  /\ \A k \in Keys : Contents'[k] = Value(heap', k)
BY DEF Contents, Value

\* What the call of t may become.
MayBecome(t, takes, c) ==
  LET now == Map!Witnessed(t, takes) IN
  \/ c = now
  \/ call[t] = None /\ \E op \in Map!Ops, k \in Keys : c = Map!Fresh(op, k)
  \/ /\ Map!Open(t)
     /\ \E a \in Map!Values \cup {None} : Map!Permitted(now, a) /\ c = [now EXCEPT !.answer = a]

LEMMA MapMade ==
  ASSUME NEW t \in Threads, NEW c, NEW D \in SUBSET Map!Untaken, NEW takes \in [D -> Keys],
         Map!CanTake(takes), Contents' = Map!Changed(takes),
         call' = [u \in Threads |-> IF u = t THEN c ELSE Map!Witnessed(u, takes)],
         MayBecome(t, takes, c)
  PROVE  Map!Next
<1>1. ASSUME NEW u \in Threads
      PROVE  LET now == Map!Witnessed(u, takes) IN
             \/ call'[u] = now
             \/ /\ call[u] = None
                /\ \E op \in Map!Ops, k \in Keys : call'[u] = Map!Fresh(op, k)
             \/ /\ Map!Open(u)
                /\ \E a \in Map!Values \cup {None} :
                     Map!Permitted(now, a) /\ call'[u] = [now EXCEPT !.answer = a]
  <2>1. CASE u # t
    BY <2>1
  <2>2. CASE u = t
    BY <2>2 DEF MayBecome
  <2> QED
    BY <2>1, <2>2
<1>2. Map!Step(takes)
  BY <1>1 DEF Map!Step
<1> QED
  BY <1>2 DEF Map!Next

\* An open call that has not taken effect has seen the contents as they are, and
\* the leaf that it has flagged is there.
LEMMA OpenIs ==
  ASSUME Names, TreeMade, NEW u \in Threads, Map!Open(u), call[u].took = None
  PROVE  /\ Held(heap, call[u], local[u].mine) /\ call[u] \in Map!Calls /\ call[u].key \in Keys
         /\ call[u] # None /\ call[u].answer = Pending /\ call[u].op \in {"get", "insert", "remove"}
         /\ Value(heap, call[u].key) \in call[u].seen
         /\ local[u].mine # None => local[u].mine \in Below(heap, S) /\ call[u].op = "remove"
<1>1. ThreadOK(heap, u, local[u], call[u]) /\ call[u] # None /\ call[u].answer = Pending
  BY DEF TreeMade, Map!Open
<1>2. Held(heap, call[u], local[u].mine)
  BY <1>1 DEF ThreadOK, Names
<1>3. call[u] \in Map!Calls /\ call[u].key \in Keys
  BY <1>2, CallIs DEF Held, Running
<1> QED
  BY <1>1, <1>2, <1>3 DEF Held, Running, MineOK

LEMMA QuietCalls ==
  ASSUME Names, TreeMade, \A k \in Keys : Value(heap', k) = Value(heap, k),
         Below(heap', S) = Below(heap, S), NEW u \in Threads, NEW takes, DOMAIN takes = {}
  PROVE  /\ After(heap', local[u].mine, call[u]) = call[u]
         /\ Map!Witnessed(u, takes) = call[u]
<1> SUFFICES ASSUME Map!Open(u), call[u].took = None
             PROVE  /\ After(heap', local[u].mine, call[u]) = call[u]
                    /\ Map!Witnessed(u, takes) = call[u]
  BY DEF After, Map!Witnessed, Map!Open
<1> DEFINE c == call[u]
           v == Value(heap, c.key)
<1>1. /\ c \in Map!Calls /\ c.key \in Keys /\ c # None /\ c.answer = Pending
      /\ c.op \in {"get", "insert", "remove"} /\ v \in c.seen
      /\ local[u].mine # None => local[u].mine \in Below(heap, S)
  BY OpenIs
<1>2. c.seen \cup {v} = c.seen
  BY <1>1
<1>3. [c EXCEPT !.seen = c.seen \cup {v}] = c
  BY <1>1, <1>2 DEF Map!Calls
<1>4. After(heap', local[u].mine, c) = [c EXCEPT !.seen = c.seen \cup {Value(heap', c.key)}]
  BY <1>1 DEF After
<1>5. Map!Witnessed(u, takes) = [c EXCEPT !.seen = c.seen \cup {Contents'[c.key]}]
  BY <1>1 DEF Map!Witnessed, Map!Sight
<1>6. Value(heap', c.key) = v /\ Contents'[c.key] = v
  BY <1>1, ContentsAre
<1> HIDE DEF v, c
<1> QED
  BY <1>3, <1>4, <1>5, <1>6 DEF c

\* What it may become when no call takes effect.
BecomesStill(t, c) ==
  \/ c = call[t]
  \/ call[t] = None /\ \E op \in Map!Ops, k \in Keys : c = Map!Fresh(op, k)
  \/ /\ Map!Open(t)
     /\ \E a \in Map!Values \cup {None} :
          Map!Permitted(call[t], a) /\ c = [call[t] EXCEPT !.answer = a]

\* A step in which no key comes or goes.
LEMMA QuietMade ==
  ASSUME Names, TreeMade, NEW t \in Threads, NEW l, NEW c, TreeInv(heap'), Frame(heap, heap'),
         \A k \in Keys : Value(heap', k) = Value(heap, k), Below(heap', S) = Below(heap, S),
         Made(heap') = Made(heap),
         local' = [local EXCEPT ![t] = l], call' = [call EXCEPT ![t] = c], ThreadOK(heap', t, l, c),
         FlagsGo(heap, heap', local[t].mine, l.mine),
         l.mine \in {None, local[t].mine} \/ \A u \in Threads \ {t} : local[u].mine # l.mine,
         c = None \/ (c.op = "insert" /\ c.took = None) =>
           Leaf(t) \notin Made(heap') /\ Inner(t) \notin Made(heap')
  PROVE  /\ TreeMade' /\ Contents' = Contents
         /\ BecomesStill(t, c) => Map!Next
<1> DEFINE takes == [u \in {} |-> u]
<1>1. \A u \in Threads : /\ After(heap', local[u].mine, call[u]) = call[u]
                         /\ Map!Witnessed(u, takes) = call[u]
  BY QuietCalls
<1>2. takes \in [{} -> Keys] /\ {} \in SUBSET Map!Untaken /\ DOMAIN takes = {}
  OBVIOUS
<1>3. Contents' = Contents
  <2>1. \A k \in Keys : Contents'[k] = Contents[k]
    BY ContentsAre
  <2>2. Contents' = [k \in Keys |-> Contents'[k]] /\ Contents = [k \in Keys |-> Contents[k]]
    BY DEF Contents
  <2> QED
    BY <2>1, <2>2
<1> HIDE DEF takes
<1>4. /\ call' = [u \in Threads |-> IF u = t THEN c ELSE After(heap', local[u].mine, call[u])]
      /\ call' = [u \in Threads |-> IF u = t THEN c ELSE Map!Witnessed(u, takes)]
  BY <1>1 DEF TreeMade
<1>5. TreeMade'
  BY <1>4, StepMade
<1>6. Map!CanTake(takes) /\ Contents' = Map!Changed(takes)
  <2>1. Contents = [k \in Keys |-> Contents[k]]
    BY DEF Contents
  <2> QED
    BY <1>2, <1>3, <2>1 DEF Map!CanTake, Map!Changed
<1>7. ASSUME BecomesStill(t, c)
      PROVE  Map!Next
  <2>1. MayBecome(t, takes, c)
    BY <1>1, <1>7 DEF MayBecome, BecomesStill
  <2> QED
    BY <1>2, <1>4, <1>6, <2>1, MapMade
<1> QED
  BY <1>3, <1>5, <1>7

LEMMA SameFrame ==
  ASSUME NEW H, Shape(H)
  PROVE  Frame(H, H)
<1>1. SameWays(H, H)
  BY DEF SameWays
<1> QED
  BY <1>1, MarkFrame

\* A step that leaves the heap alone.
LEMMA StillMade ==
  ASSUME Names, TreeMade, NEW t \in Threads, NEW l, NEW c, UNCHANGED heap,
         local' = [local EXCEPT ![t] = l], call' = [call EXCEPT ![t] = c], ThreadOK(heap, t, l, c),
         \/ l.mine = local[t].mine
         \/ l.mine = None /\ local[t].mine \notin Below(heap, S),
         \/ call[t] = None \/ (call[t].op = "insert" /\ call[t].took = None)
         \/ ~(c = None \/ (c.op = "insert" /\ c.took = None))
         \/ Leaf(t) \notin Made(heap) /\ Inner(t) \notin Made(heap)
  PROVE  /\ TreeMade' /\ Contents' = Contents
         /\ BecomesStill(t, c) => Map!Next
<1>1. TreeInv(heap) /\ Shape(heap) /\ heap' = heap
  BY DEF TreeMade, TreeInv
<1>2. Frame(heap, heap') /\ Below(heap, S) \subseteq Made(heap)
  BY <1>1, SameFrame, PathBelow
<1>3. FlagsGo(heap, heap', local[t].mine, l.mine)
  <2>1. \A n \in Below(heap, S), s \in Sides : Internal(heap, n) => To(heap, n, s) \in Below(heap, S)
    BY <1>1, BelowClosed DEF Shape, Inners
  <2> QED
    BY <1>1, <2>1 DEF FlagsGo
<1>4. c = None \/ (c.op = "insert" /\ c.took = None) =>
        Leaf(t) \notin Made(heap') /\ Inner(t) \notin Made(heap')
  BY <1>1 DEF TreeMade, Unmade
<1>5. /\ TreeInv(heap') /\ \A k \in Keys : Value(heap', k) = Value(heap, k)
      /\ Below(heap', S) = Below(heap, S) /\ Made(heap') = Made(heap) /\ ThreadOK(heap', t, l, c)
      /\ l.mine \in {None, local[t].mine}
  BY <1>1
<1> QED
  BY <1>2, <1>3, <1>4, <1>5, QuietMade

LEMMA GoMade ==
  ASSUME Names, TreeMade, NEW t \in Threads, NEW l, UNCHANGED heap, Go(t, l),
         ThreadOK(heap, t, l, call[t]), l.mine = local[t].mine
  PROVE  TreeMade' /\ Map!Next
<1>1. call' = [call EXCEPT ![t] = call[t]] /\ local' = [local EXCEPT ![t] = l]
  BY DEF Go, TreeMade
<1>2. \/ call[t] = None \/ (call[t].op = "insert" /\ call[t].took = None)
      \/ ~(call[t] = None \/ (call[t].op = "insert" /\ call[t].took = None))
  OBVIOUS
<1> QED
  BY <1>1, <1>2, StillMade DEF BecomesStill

LEMMA AnswerMade ==
  ASSUME Names, TreeMade, NEW t \in Threads, UNCHANGED heap, NEW a \in Keys \cup Threads \cup {None},
         Answer(t, a), Map!Open(t), call[t] \in Map!Calls, Map!Permitted(call[t], a),
         local[t].mine = None \/ local[t].mine \notin Below(heap, S)
  PROVE  TreeMade' /\ Map!Next
<1> DEFINE l == [pc |-> "done", mine |-> None]
           c == [call[t] EXCEPT !.answer = a]
<1>1. /\ c \in Map!Calls /\ c.op = call[t].op /\ c.took = call[t].took /\ c.answer = a
      /\ c # None /\ call[t] # None
  BY CallWith, CallIs
<1>2. local' = [local EXCEPT ![t] = l] /\ call' = [call EXCEPT ![t] = c]
  BY DEF Answer
<1>3. ThreadOK(heap, t, l, c)
  BY <1>1 DEF ThreadOK, Names
<1>4. l.mine = None
  OBVIOUS
<1>5. a \in Map!Values \cup {None}
  BY DEF Map!Values
<1> HIDE DEF l
<1>6. BecomesStill(t, c)
  BY <1>5 DEF BecomesStill
<1>7. \/ call[t] = None \/ (call[t].op = "insert" /\ call[t].took = None)
      \/ ~(c = None \/ (c.op = "insert" /\ c.took = None))
  BY <1>1
<1>8. l.mine = local[t].mine \/ (l.mine = None /\ local[t].mine \notin Below(heap, S))
  BY <1>4
<1> HIDE DEF c
<1>9. TreeMade' /\ Map!Next
  BY <1>2, <1>3, <1>6, <1>7, <1>8, StillMade DEF c
<1> QED
  BY <1>9

-----------------------------------------------------------------------------
(* The actions that leave the heap alone *)

LEMMA FreshMade ==
  ASSUME Names, TreeMade, NEW t \in Threads, NEW op \in {"get", "insert", "remove"}, NEW k \in Keys,
         local[t].pc \in {"idle", "done"}, UNCHANGED heap,
         op = "insert" => Leaf(t) \notin Made(heap) /\ Inner(t) \notin Made(heap),
         call' = [call EXCEPT ![t] = Map!Fresh(op, k)],
         local' = [local EXCEPT ![t] = [pc |-> "start", mine |-> None]]
  PROVE  TreeMade' /\ Contents' = Contents /\ (call[t] = None => Map!Next)
<1> DEFINE c == Map!Fresh(op, k)
           l == [pc |-> "start", mine |-> None]
           v == Value(heap, k)
<1>1. v \in Keys \cup Threads \cup {None} /\ Contents[k] = v
  BY ValueIs, ContentsAre DEF TreeMade
<1>2. c = [op |-> op, key |-> k, seen |-> {v}, took |-> None, answer |-> Pending]
  BY <1>1 DEF Map!Fresh, Map!Sight
<1> HIDE DEF v
<1>3. /\ c \in Map!Calls /\ c.op = op /\ c.key = k /\ c.seen = {v} /\ c.took = None
      /\ c.answer = Pending
  BY <1>1, <1>2 DEF Map!Calls, Map!Ops, Map!Values
<1> HIDE DEF c
<1>4. Held(heap, c, None)
  BY <1>3 DEF Held, Running, v
<1>5. ThreadOK(heap, t, l, c)
  BY <1>4 DEF ThreadOK
<1>6. local[t].mine = None
  <2>1. ThreadOK(heap, t, local[t], call[t])
    BY DEF TreeMade
  <2> QED
    BY <2>1 DEF ThreadOK
<1>7. l.mine = local[t].mine
  BY <1>6
<1>8. ~(c = None \/ (c.op = "insert" /\ c.took = None)) \/ (Leaf(t) \notin Made(heap) /\ Inner(t) \notin Made(heap))
  BY <1>3, CallIs
<1>9. call[t] = None => BecomesStill(t, c)
  BY DEF BecomesStill, Map!Ops, c
<1>10. local' = [local EXCEPT ![t] = l] /\ call' = [call EXCEPT ![t] = c]
  BY DEF c
<1> HIDE DEF l
<1> QED
  BY <1>5, <1>7, <1>8, <1>9, <1>10, StillMade

LEMMA BeginMade ==
  ASSUME Names, TreeMade, NEW t \in Threads, Begin(t)
  PROVE  TreeMade' /\ Map!Next
<1>1. PICK op \in Map!Ops \ {"pop"}, k \in Keys : call' = [call EXCEPT ![t] = Map!Fresh(op, k)]
  BY DEF Begin
<1>2. op \in {"get", "insert", "remove"}
  BY DEF Map!Ops
<1>3. call[t] = None /\ heap' = heap /\ local' = [local EXCEPT ![t] = [pc |-> "start", mine |-> None]]
  BY DEF Begin
<1>4. Leaf(t) \notin Made(heap) /\ Inner(t) \notin Made(heap)
  BY <1>3 DEF TreeMade, Unmade
<1>5. local[t].pc \in {"idle", "done"}
  <2>1. ThreadOK(heap, t, local[t], call[t])
    BY DEF TreeMade
  <2>2. None \notin Map!Calls
    BY DEF Names
  <2> QED
    BY <1>3, <2>1, <2>2 DEF ThreadOK, Held, Running
<1> QED
  BY <1>1, <1>2, <1>3, <1>4, <1>5, FreshMade

\* A record that only changes where its thread is.
LEMMA SeekGoes ==
  ASSUME NEW H, NEW c, NEW l, SeekOK(H, c, l), NEW r,
         r = [pc |-> r.pc, mine |-> r.mine, above |-> l.above, successor |-> l.successor,
              edge |-> l.edge, leaf |-> l.leaf, tagged |-> l.tagged]
  PROVE  /\ SeekOK(H, c, r) /\ r.leaf = l.leaf /\ r.edge = l.edge
         /\ LookOK(H, l) /\ r.mine = l.mine => LookOK(H, r)
<1>1. /\ r.above = l.above /\ r.successor = l.successor
      /\ r.edge = l.edge /\ r.leaf = l.leaf /\ r.tagged = l.tagged
  OBVIOUS
<1>2. SeekOK(H, c, r)
  <2>1. r = [pc |-> r.pc, mine |-> r.mine, above |-> r.above, successor |-> r.successor,
             edge |-> r.edge, leaf |-> r.leaf, tagged |-> r.tagged]
    BY <1>1
  <2>2. \A p : Ahead(H, c.key, l, p) => Ahead(H, c.key, r, p)
    BY <1>1 DEF Ahead
  <2> QED
    BY <1>1, <2>1, <2>2 DEF SeekOK
<1> QED
  BY <1>1, <1>2 DEF LookOK

LEMMA SeekTurns ==
  ASSUME NEW H, NEW c, NEW l, SeekOK(H, c, l), NEW pc, NEW r, r = [l EXCEPT !.pc = pc]
  PROVE  /\ SeekOK(H, c, r) /\ r.pc = pc /\ r.mine = l.mine /\ r.leaf = l.leaf /\ r.edge = l.edge
         /\ LookOK(H, l) => LookOK(H, r)
<1>1. l = [pc |-> l.pc, mine |-> l.mine, above |-> l.above, successor |-> l.successor,
           edge |-> l.edge, leaf |-> l.leaf, tagged |-> l.tagged]
  BY DEF SeekOK
<1>2. r = [pc |-> pc, mine |-> l.mine, above |-> l.above, successor |-> l.successor,
           edge |-> l.edge, leaf |-> l.leaf, tagged |-> l.tagged]
  BY <1>1
<1>3. r.pc = pc /\ r.mine = l.mine
  BY <1>2
<1> QED
  BY <1>2, <1>3, SeekGoes

\* A seek has come to the record r.
LEMMA ReachedMade ==
  ASSUME Names, TreeMade, NEW t \in Threads, NEW r, UNCHANGED heap, Reached(t, r),
         Held(heap, call[t], local[t].mine), r.mine = local[t].mine, r.pc = "seek",
         SeekOK(heap, call[t], r),
         IF Internal(heap, r.leaf) THEN Track(heap, call[t], r.mine, r.leaf)
         ELSE /\ Right(heap, call[t], r.mine, r.leaf)
              /\ r.mine # None /\ r.leaf = r.mine => LookOK(heap, r)
  PROVE  TreeMade' /\ Map!Next
<1> DEFINE c == call[t]
           hit == heap.key[r.leaf] = c.key
           mine == r.mine
<1>1. /\ TreeInv(heap) /\ Held(heap, c, mine) /\ c \in Map!Calls /\ c.answer = Pending
      /\ c.op \in {"get", "insert", "remove"} /\ c.key \in Keys /\ c # None /\ r.leaf \in Made(heap)
  BY CallIs DEF TreeMade, Held, Running, SeekOK
<1>2. Map!Open(t)
  BY <1>1 DEF Map!Open
<1>3. CASE Internal(heap, r.leaf)
  <2>1. Go(t, r) /\ ThreadOK(heap, t, r, c)
    BY <1>1, <1>3 DEF Reached, ThreadOK
  <2> QED
    BY <2>1, GoMade
<1>4. CASE ~Internal(heap, r.leaf) /\ mine # None /\ r.leaf # mine
  <2> DEFINE a == mine[2]
  <2>1. Answer(t, a)
    BY <1>4 DEF Reached
  <2>2. a \in Keys \cup Threads /\ a # None
    BY <1>1, <1>4, MineNamed
  <2>3. c.op = "remove" /\ c.took = a /\ mine \notin Below(heap, S)
    BY <1>1, <1>4, <2>2 DEF Held, MineOK, Right
  <2> HIDE DEF a, mine
  <2>4. Map!Permitted(c, a)
    BY <2>2, <2>3 DEF Map!Permitted
  <2> QED
    BY <1>1, <1>2, <2>1, <2>2, <2>3, <2>4, AnswerMade DEF mine
<1>5. CASE ~Internal(heap, r.leaf) /\ mine # None /\ r.leaf = mine
  <2> DEFINE l == [r EXCEPT !.pc = "look"]
  <2>1. Go(t, l)
    BY <1>4, <1>5 DEF Reached
  <2>2. SeekOK(heap, c, l) /\ l.pc = "look" /\ l.mine = mine /\ LookOK(heap, l)
    BY <1>5, SeekTurns
  <2>3. c.op # "get"
    BY <1>1, <1>5 DEF Held, MineOK
  <2>4. ThreadOK(heap, t, l, c)
    BY <1>1, <2>2, <2>3 DEF ThreadOK
  <2> HIDE DEF l
  <2> QED
    BY <2>1, <2>2, <2>4, GoMade
<1>6. ASSUME ~Internal(heap, r.leaf), mine = None
      PROVE  /\ (IF hit THEN r.leaf[2] ELSE None) \in c.seen /\ c.took = None
             /\ local[t].mine = None /\ (hit => r.leaf[2] # None /\ r.leaf[2] \in Keys \cup Threads)
  <2>1. hit => r.leaf[2] \in Keys \cup Threads
    BY <1>1, <1>6 DEF TreeInv, LeavesNamed
  <2> QED
    BY <1>1, <1>6, <2>1 DEF Held, Right, Names
<1>7. CASE ~Internal(heap, r.leaf) /\ mine = None /\ c.op = "get"
  <2> DEFINE a == IF hit THEN r.leaf[2] ELSE None
  <2>1. Answer(t, a)
    BY <1>7 DEF Reached
  <2>2. a \in c.seen /\ a \in Keys \cup Threads \cup {None} /\ local[t].mine = None
    BY <1>6, <1>7
  <2> HIDE DEF a
  <2>3. Map!Permitted(c, a)
    BY <1>7, <2>2 DEF Map!Permitted
  <2> QED
    BY <1>1, <1>2, <2>1, <2>2, <2>3, AnswerMade
<1>8. CASE ~Internal(heap, r.leaf) /\ mine = None /\ c.op # "get" /\ (hit <=> (c.op = "insert"))
  <2>1. Answer(t, None)
    BY <1>8 DEF Reached
  <2>2. Map!Permitted(c, None)
    BY <1>6, <1>8 DEF Map!Permitted
  <2> QED
    BY <1>1, <1>2, <1>6, <1>8, <2>1, <2>2, AnswerMade
<1>9. CASE ~Internal(heap, r.leaf) /\ mine = None /\ c.op # "get" /\ ~(hit <=> (c.op = "insert"))
  <2> DEFINE pc == IF c.op = "insert" THEN "link" ELSE "flag"
             l == [r EXCEPT !.pc = pc]
  <2>1. Go(t, l)
    BY <1>9 DEF Reached
  <2>2. SeekOK(heap, c, l) /\ l.pc = pc /\ l.mine = None /\ l.leaf = r.leaf
    BY <1>9, SeekTurns
  <2> HIDE DEF l
  <2>3. ThreadOK(heap, t, l, c)
    BY <1>1, <1>9, <2>2 DEF ThreadOK
  <2> QED
    BY <1>6, <1>9, <2>1, <2>2, <2>3, GoMade
<1> QED
  BY <1>1, <1>3, <1>4, <1>5, <1>7, <1>8, <1>9

\* What is on the path can be tracked.
LEMMA PathTrack ==
  ASSUME Names, NEW H, TreeInv(H), NEW c, NEW mine, Held(H, c, mine), NEW n \in Path(H, c.key)
  PROVE  Track(H, c, mine, n)
<1>1. Tracks(H, c, mine, Path(H, c.key))
  BY PathRight DEF Tracks
<1>2. Path(H, c.key) \in SUBSET Made(H)
  BY PathBelow DEF TreeInv
<1> QED
  BY <1>1, <1>2 DEF Track

LEMMA StartMade ==
  ASSUME Names, TreeMade, NEW t \in Threads, Start(t)
  PROVE  TreeMade' /\ Map!Next
<1> DEFINE r == [pc |-> "seek", mine |-> local[t].mine,
                 above |-> <<R, "L">>, successor |-> S,
                 edge |-> <<S, "L">>, leaf |-> heap.edge[<<S, "L">>].to, tagged |-> FALSE]
           c == call[t]
           k == c.key
<1>1. local[t].pc = "start" /\ Reached(t, r) /\ heap' = heap
  BY DEF Start
<1>2. Held(heap, c, local[t].mine) /\ TreeInv(heap)
  <2>1. ThreadOK(heap, t, local[t], c) /\ TreeInv(heap)
    BY DEF TreeMade
  <2> QED
    BY <1>1, <2>1 DEF ThreadOK
<1>3. k \in Keys /\ Shape(heap) /\ S \in Inners(heap) /\ Internal(heap, S)
  BY <1>2, CallIs DEF Held, Running, TreeInv, Shape, Inners
<1>4. Side(heap, S, k) = "L" /\ r.leaf = Child(heap, S, k)
  BY <1>3, SideOfRoot DEF Child, To
<1>5. S \in Path(heap, k) /\ r.leaf \in Path(heap, k) /\ r.leaf \in Made(heap)
  BY <1>3, <1>4, PathBelow
<1>6. heap.key[r.leaf] = Inf
  BY <1>2 DEF TreeInv, AtTop, To
<1>7. SeekOK(heap, c, r)
  <2>1. Stands(heap, S, k) /\ r.edge = <<S, Side(heap, S, k)>>
    BY <1>3, <1>4, <1>5 DEF Stands
  <2> QED
    BY <1>5, <1>6, <2>1 DEF SeekOK
<1>8. IF Internal(heap, r.leaf) THEN Track(heap, c, r.mine, r.leaf)
      ELSE /\ Right(heap, c, r.mine, r.leaf)
           /\ r.mine # None /\ r.leaf = r.mine => LookOK(heap, r)
  <2>1. r.mine # None => heap.key[r.mine] \in Keys
    BY <1>2, MineNamed
  <2>2. Inf \notin Keys
    BY DEF Names
  <2> QED
    BY <1>2, <1>5, <1>6, <2>1, <2>2, PathTrack, PathRight
<1>9. r.mine = local[t].mine /\ r.pc = "seek"
  OBVIOUS
<1> HIDE DEF r
<1> QED
  BY <1>1, <1>2, <1>7, <1>8, <1>9, ReachedMade

\* One edge further from a node that is tracked.
LEMMA TrackGoesOn ==
  ASSUME Names, NEW H, TreeInv(H), NEW c, NEW mine, Held(H, c, mine), NEW n, Internal(H, n),
         Track(H, c, mine, n), NEW m, m = Child(H, n, c.key)
  PROVE  /\ Stands(H, n, c.key)
         /\ IF Internal(H, m) THEN Track(H, c, mine, m)
            ELSE /\ Right(H, c, mine, m)
                 /\ mine # None /\ m = mine => Flagged(H, n, Side(H, n, c.key))
<1>1. PICK G \in SUBSET Made(H) : n \in G /\ Tracks(H, c, mine, G)
  BY DEF Track
<1>2. Shape(H)
  BY DEF TreeInv
<1>3. CASE n \in Path(H, c.key)
  <2>1. Stands(H, n, c.key) /\ m \in Path(H, c.key) /\ n \in Below(H, S)
    BY <1>2, <1>3, PathBelow DEF Stands, Inners
  <2>2. mine # None /\ m = mine => Flagged(H, n, Side(H, n, c.key))
    BY <2>1, SidesAre DEF Held, MineOK, Child
  <2> QED
    BY <2>1, <2>2, PathTrack, PathRight
<1>4. CASE n \notin Path(H, c.key)
  <2>1. /\ Frozen(H, n) /\ m \in G
        /\ mine # None /\ m = mine => Flagged(H, n, Side(H, n, c.key))
    BY <1>1, <1>4 DEF Tracks
  <2>2. Stands(H, n, c.key)
    BY <1>1, <2>1 DEF Stands, Inners
  <2>3. Internal(H, m) => Track(H, c, mine, m)
    BY <1>1, <2>1 DEF Track
  <2>4. ~Internal(H, m) => Right(H, c, mine, m)
    BY <1>1, <2>1 DEF Tracks
  <2> QED
    BY <2>1, <2>2, <2>3, <2>4
<1> QED
  BY <1>3, <1>4

LEMMA SeekMade ==
  ASSUME Names, TreeMade, NEW t \in Threads, Seek(t)
  PROVE  TreeMade' /\ Map!Next
<1> DEFINE l == local[t]
           c == call[t]
           k == c.key
           n == l.leaf
           e == <<n, IF l.edge = <<S, "L">> THEN "L" ELSE Side(heap, n, k)>>
           stay == l.tagged \/ c.op = "get"
           r == [l EXCEPT
                  !.above = IF stay THEN @ ELSE l.edge,
                  !.successor = IF stay THEN @ ELSE n,
                  !.edge = e, !.leaf = heap.edge[e].to, !.tagged = heap.edge[e].tag]
           side == Side(heap, n, k)
           m == Child(heap, n, k)
<1>1. l.pc = "seek" /\ Reached(t, r) /\ heap' = heap
  BY DEF Seek
<1>2. /\ Held(heap, c, l.mine) /\ SeekOK(heap, c, l) /\ Internal(heap, n) /\ Track(heap, c, l.mine, n)
      /\ TreeInv(heap)
  <2>1. ThreadOK(heap, t, l, c) /\ TreeInv(heap)
    BY DEF TreeMade
  <2> QED
    BY <1>1, <2>1 DEF ThreadOK
<1>3. k \in Keys /\ Shape(heap) /\ n \in Made(heap) /\ n \in Inners(heap)
  BY <1>2, CallIs DEF Held, Running, TreeInv, SeekOK, Inners
<1>4. PICK p : /\ Stands(heap, p, k) /\ l.edge = <<p, Side(heap, p, k)>>
               /\ p = S => heap.key[n] = Inf
               /\ c.op # "get" => p = S \/ Ahead(heap, k, l, p)
               /\ l.tagged => Tagged(heap, p, Side(heap, p, k)) /\ Child(heap, p, k) = n
  BY <1>2 DEF SeekOK
<1>5. e = <<n, side>>
  <2>1. ASSUME l.edge = <<S, "L">> PROVE side = "L"
    <3>1. heap.key[n] = Inf
      BY <1>4, <2>1
    <3>2. k \in Nat /\ Inf \in Nat /\ k < Inf
      BY <1>3 DEF Names
    <3> QED
      BY <3>1, <3>2 DEF Side
  <2> QED
    BY <2>1
<1>6. heap.edge[e].to = m /\ heap.edge[e].tag = Tagged(heap, n, side) /\ side \in Sides /\ m \in Made(heap)
  BY <1>2, <1>3, <1>5, SidesAre, EdgeTypes DEF Child, To, Tagged
<1>7. /\ r = [pc |-> l.pc, mine |-> l.mine, above |-> IF stay THEN l.above ELSE l.edge,
              successor |-> IF stay THEN l.successor ELSE n, edge |-> <<n, side>>,
              leaf |-> m, tagged |-> Tagged(heap, n, side)]
  <2> DEFINE x == heap.edge[e].to
             y == heap.edge[e].tag
  <2>1. l = [pc |-> l.pc, mine |-> l.mine, above |-> l.above, successor |-> l.successor,
             edge |-> l.edge, leaf |-> l.leaf, tagged |-> l.tagged]
    BY <1>2 DEF SeekOK
  <2>2. x = m /\ y = Tagged(heap, n, side) /\ e = <<n, side>>
    BY <1>5, <1>6
  <2>3. r = [l EXCEPT
              !.above = IF stay THEN @ ELSE l.edge,
              !.successor = IF stay THEN @ ELSE n,
              !.edge = e, !.leaf = x, !.tagged = y]
    OBVIOUS
  <2> HIDE DEF l, n, e, stay, r, side, m, x, y
  <2>4. r = [pc |-> l.pc, mine |-> l.mine, above |-> IF stay THEN l.above ELSE l.edge,
             successor |-> IF stay THEN l.successor ELSE n, edge |-> e,
             leaf |-> x, tagged |-> y]
    BY <2>1, <2>3
  <2> QED
    BY <2>2, <2>4
<1>8. /\ r.pc = "seek" /\ r.mine = l.mine /\ r.edge = <<n, side>> /\ r.leaf = m
      /\ r.tagged = Tagged(heap, n, side)
      /\ r.above = (IF stay THEN l.above ELSE l.edge)
      /\ r.successor = (IF stay THEN l.successor ELSE n)
      /\ r = [pc |-> r.pc, mine |-> r.mine, above |-> r.above, successor |-> r.successor,
              edge |-> r.edge, leaf |-> r.leaf, tagged |-> r.tagged]
  <2> HIDE DEF l, n, e, stay, r, side, m
  <2> QED
    BY <1>1, <1>7
<1> HIDE DEF r
<1>9. /\ Stands(heap, n, k)
      /\ IF Internal(heap, m) THEN Track(heap, c, l.mine, m)
         ELSE /\ Right(heap, c, l.mine, m)
              /\ l.mine # None /\ m = l.mine => Flagged(heap, n, side)
  BY <1>2, TrackGoesOn
<1>10. SeekOK(heap, c, r)
  <2>1. n = S => heap.key[m] = Inf
    <3>1. Side(heap, S, k) = "L"
      BY <1>3, SideOfRoot
    <3> QED
      BY <1>2, <3>1 DEF TreeInv, AtTop, Child
  <2>2. ASSUME c.op # "get", ~l.tagged
        PROVE  Ahead(heap, k, r, n)
    <3>1. r.above = <<p, Side(heap, p, k)>> /\ r.successor = n
      BY <1>4, <1>8, <2>2
    <3>2. Segment(heap, k, n, n, {n})
      BY <1>3, SegmentStart
    <3> QED
      BY <1>4, <3>1, <3>2 DEF Ahead
  <2>3. ASSUME c.op # "get", l.tagged
        PROVE  Ahead(heap, k, r, n)
    <3>1. p # S
      BY <1>2, <1>4, <2>3, RootUnmarked, SidesAre DEF Marked
    <3>2. PICK a, C : /\ l.above = <<a, Side(heap, a, k)>> /\ Stands(heap, a, k)
                      /\ Segment(heap, k, l.successor, p, C)
      BY <1>4, <2>3, <3>1 DEF Ahead
    <3>3. r.above = l.above /\ r.successor = l.successor
      BY <1>8, <2>3
    <3>4. Segment(heap, k, l.successor, n, C \cup {n})
      BY <1>2, <1>3, <1>4, <2>3, <3>2, SegmentGoesOn DEF TreeInv
    <3> QED
      BY <3>2, <3>3, <3>4 DEF Ahead
  <2>4. /\ Stands(heap, n, k) /\ r.edge = <<n, Side(heap, n, k)>>
        /\ n = S => heap.key[r.leaf] = Inf
        /\ c.op # "get" => n = S \/ Ahead(heap, k, r, n)
        /\ r.tagged => Tagged(heap, n, Side(heap, n, k)) /\ Child(heap, n, k) = r.leaf
    BY <1>8, <1>9, <2>1, <2>2, <2>3
  <2> HIDE DEF l, n, side, m, stay, e
  <2> QED
    BY <1>6, <1>8, <2>4 DEF SeekOK
<1>11. IF Internal(heap, r.leaf) THEN Track(heap, c, r.mine, r.leaf)
       ELSE /\ Right(heap, c, r.mine, r.leaf)
            /\ r.mine # None /\ r.leaf = r.mine => LookOK(heap, r)
  <2>1. r.leaf = m /\ r.mine = l.mine /\ r.edge = <<n, side>>
    BY <1>8
  <2>2. heap.edge[<<n, side>>].flag = Flagged(heap, n, side) /\ heap.edge[<<n, side>>].to = m
    BY <1>5, <1>6 DEF Flagged
  <2> HIDE DEF l, n, side, m, stay, e
  <2> QED
    BY <1>9, <2>1, <2>2 DEF LookOK
<1>12. Held(heap, call[t], local[t].mine) /\ r.mine = local[t].mine
  BY <1>2, <1>8
<1> HIDE DEF l, n, side, m, stay, e
<1> QED
  BY <1>1, <1>8, <1>10, <1>11, <1>12, ReachedMade

LEMMA ReturnMade ==
  ASSUME Names, TreeMade, NEW t \in Threads, Return(t)
  PROVE  TreeMade' /\ Map!Next
<1>1. local[t].pc = "true" /\ Answer(t, t) /\ heap' = heap
  BY DEF Return
<1>2. /\ local[t].mine = None /\ call[t] \in Map!Calls /\ call[t].answer = Pending
      /\ call[t].op = "insert" /\ call[t].took = t
  <2>1. ThreadOK(heap, t, local[t], call[t])
    BY DEF TreeMade
  <2> QED
    BY <1>1, <2>1 DEF ThreadOK, Running
<1>3. Map!Open(t) /\ Map!Permitted(call[t], t)
  BY <1>2, CallIs DEF Map!Open, Map!Permitted, Names
<1> QED
  BY <1>1, <1>2, <1>3, AnswerMade

LEMMA LookMade ==
  ASSUME Names, TreeMade, NEW t \in Threads, Look(t)
  PROVE  TreeMade' /\ Map!Next
<1> DEFINE l == local[t]
           c == call[t]
           k == c.key
           e == IF heap.edge[l.edge].flag THEN <<l.edge[1], Other(l.edge[2])>> ELSE l.edge
           r == [pc |-> "tag", mine |-> l.mine, above |-> l.above, successor |-> l.successor,
                 edge |-> e]
<1>1. l.pc = "look" /\ Go(t, r) /\ heap' = heap
  BY DEF Look
<1>2. /\ Held(heap, c, l.mine) /\ SeekOK(heap, c, l) /\ LookOK(heap, l) /\ TreeInv(heap)
      /\ c.op # "get"
  <2>1. ThreadOK(heap, t, l, c) /\ TreeInv(heap)
    BY DEF TreeMade
  <2> QED
    BY <1>1, <2>1 DEF ThreadOK
<1>3. PICK p : /\ Stands(heap, p, k) /\ l.edge = <<p, Side(heap, p, k)>>
               /\ p = S \/ Ahead(heap, k, l, p)
  BY <1>2 DEF SeekOK
<1> DEFINE s == Side(heap, p, k)
<1>4. p \in Inners(heap) /\ s \in Sides /\ l.edge = <<p, s>>
  BY <1>3, SidesAre DEF Stands
<1> HIDE DEF s
<1>5. /\ Flagged(heap, p, s) \/ Tagged(heap, p, s)
      /\ l.mine # None => Flagged(heap, p, s) /\ To(heap, p, s) = l.mine
      /\ heap.edge[l.edge].flag = Flagged(heap, p, s)
  BY <1>2, <1>4 DEF LookOK, Flagged, Tagged, To
<1>6. p # S
  BY <1>2, <1>4, <1>5, RootUnmarked DEF Marked
<1>7. r.pc = "tag" /\ r.mine = l.mine /\ r.above = l.above /\ r.successor = l.successor /\ r.edge = e
  OBVIOUS
<1>8. Ahead(heap, k, r, p)
  <2>1. Ahead(heap, k, l, p)
    BY <1>3, <1>6
  <2> HIDE DEF r
  <2> QED
    BY <1>7, <2>1 DEF Ahead
<1>9. \E q \in Sides : /\ e = <<p, q>> /\ Flagged(heap, p, Other(q))
                       /\ l.mine # None => To(heap, p, Other(q)) = l.mine
  <2>1. CASE Flagged(heap, p, s)
    <3>1. e = <<p, Other(s)>>
      BY <1>4, <1>5, <2>1
    <3> QED
      BY <1>4, <1>5, <2>1, <3>1, SidesAre
  <2>2. CASE ~Flagged(heap, p, s)
    <3>1. e = <<p, s>> /\ l.mine = None /\ Tagged(heap, p, s)
      BY <1>4, <1>5, <2>2
    <3>2. Flagged(heap, p, Other(s))
      BY <1>2, <1>4, <3>1 DEF TreeInv, MarksOK
    <3> QED
      BY <1>4, <3>1, <3>2
  <2> QED
    BY <2>1, <2>2
<1>10. r = [pc |-> r.pc, mine |-> r.mine, above |-> r.above, successor |-> r.successor,
            edge |-> r.edge]
  OBVIOUS
<1> HIDE DEF r, e
<1>11. EraseOK(heap, c, r)
  BY <1>4, <1>7, <1>8, <1>9, <1>10 DEF EraseOK
<1>12. ThreadOK(heap, t, r, c)
  BY <1>2, <1>7, <1>11 DEF ThreadOK
<1> QED
  BY <1>1, <1>7, <1>12, GoMade

\* The edge was not what was expected.
LEMMA ConflictMade ==
  ASSUME Names, TreeMade, NEW t \in Threads, Conflict(t), UNCHANGED heap,
         local[t].pc \in {"link", "flag"}, heap.edge[local[t].edge] # Edge(local[t].leaf)
  PROVE  TreeMade' /\ Map!Next
<1> DEFINE l == local[t]
           c == call[t]
           x == heap.edge[l.edge]
<1>1. /\ Held(heap, c, None) /\ SeekOK(heap, c, l) /\ TreeInv(heap) /\ l.mine = None
      /\ c.op # "get"
  <2>1. ThreadOK(heap, t, l, c) /\ TreeInv(heap)
    BY DEF TreeMade
  <2> QED
    BY <2>1 DEF ThreadOK
<1>2. CASE x.to = l.leaf
  <2> DEFINE r == [l EXCEPT !.pc = "look"]
  <2>1. Go(t, r)
    BY <1>2 DEF Conflict
  <2>2. l.edge \in Inners(heap) \X Sides
    BY <1>1, SidesAre DEF SeekOK, Stands
  <2>3. x \in [to : Made(heap), flag : BOOLEAN, tag : BOOLEAN]
    BY <1>1, <2>2 DEF TreeInv, Shape
  <2>4. x.flag \/ x.tag
    <3> SUFFICES ASSUME ~x.flag, ~x.tag PROVE FALSE
      OBVIOUS
    <3>1. x = [to |-> l.leaf, flag |-> FALSE, tag |-> FALSE]
      BY <1>2, <2>3
    <3> QED
      BY <3>1 DEF Edge
  <2>5. LookOK(heap, l)
    BY <1>1, <2>4 DEF LookOK
  <2>6. SeekOK(heap, c, r) /\ r.pc = "look" /\ r.mine = None /\ LookOK(heap, r)
    BY <1>1, <2>5, SeekTurns
  <2> HIDE DEF r
  <2>7. ThreadOK(heap, t, r, c)
    BY <1>1, <2>6 DEF ThreadOK
  <2> QED
    BY <1>1, <2>1, <2>6, <2>7, GoMade
<1>3. CASE x.to # l.leaf
  <2> DEFINE r == [pc |-> "start", mine |-> None]
  <2>1. Go(t, r)
    BY <1>3 DEF Conflict, Retry
  <2>2. ThreadOK(heap, t, r, c) /\ r.mine = l.mine
    BY <1>1 DEF ThreadOK
  <2> HIDE DEF r
  <2> QED
    BY <2>1, <2>2, GoMade
<1> QED
  BY <1>2, <1>3

-----------------------------------------------------------------------------
(* The actions that mark an edge *)

\* H2 is H but for the marks of the edge of n on side s.
Marks(H, H2, n, s, flag, tag) ==
  /\ Shape(H2) /\ SameWays(H, H2)
  /\ Flagged(H2, n, s) = flag /\ Tagged(H2, n, s) = tag
  /\ \A m \in Inners(H), r \in Sides : m # n \/ r # s =>
       Flagged(H2, m, r) = Flagged(H, m, r) /\ Tagged(H2, m, r) = Tagged(H, m, r)

LEMMA EdgeWith ==
  ASSUME NEW T, NEW x \in [to : T, flag : BOOLEAN, tag : BOOLEAN]
  PROVE  /\ [x EXCEPT !.flag = TRUE] = [to |-> x.to, flag |-> TRUE, tag |-> x.tag]
         /\ [x EXCEPT !.tag = TRUE] = [to |-> x.to, flag |-> x.flag, tag |-> TRUE]
<1>1. x = [to |-> x.to, flag |-> x.flag, tag |-> x.tag]
  OBVIOUS
<1> DEFINE a == x.to
           b == x.flag
           c == x.tag
           true == TRUE
<1>2. x = [to |-> a, flag |-> b, tag |-> c]
  BY <1>1
<1> SUFFICES /\ [x EXCEPT !.flag = true] = [to |-> a, flag |-> true, tag |-> c]
             /\ [x EXCEPT !.tag = true] = [to |-> a, flag |-> b, tag |-> true]
  OBVIOUS
<1> HIDE DEF a, b, c, true
<1> QED
  BY ONLY <1>2

LEMMA MarksAre ==
  ASSUME Shape(heap), NEW n \in Inners(heap), NEW s \in Sides, NEW flag \in BOOLEAN, NEW tag \in BOOLEAN,
         NEW e, e = <<n, s>>,
         \/ heap' = [heap EXCEPT !.edge[e].flag = TRUE] /\ flag = TRUE /\ tag = Tagged(heap, n, s)
         \/ heap' = [heap EXCEPT !.edge[e].tag = TRUE] /\ tag = TRUE /\ flag = Flagged(heap, n, s)
  PROVE  Marks(heap, heap', n, s, flag, tag)
<1> DEFINE x == heap.edge[e]
           x2 == [to |-> x.to, flag |-> flag, tag |-> tag]
<1>1. /\ heap = [key |-> heap.key, edge |-> heap.edge]
      /\ heap.edge = [f \in DOMAIN heap.edge |-> heap.edge[f]]
      /\ DOMAIN heap.edge = Inners(heap) \X Sides /\ e \in DOMAIN heap.edge
      /\ \A m \in Inners(heap) : \A r \in Sides :
           heap.edge[<<m, r>>] \in [to : Made(heap), flag : BOOLEAN, tag : BOOLEAN]
  BY DEF Shape
<1>2. x \in [to : Made(heap), flag : BOOLEAN, tag : BOOLEAN] /\ x.flag = Flagged(heap, n, s) /\ x.tag = Tagged(heap, n, s)
  BY <1>1 DEF Flagged, Tagged
<1> HIDE DEF x
<1>3. [x EXCEPT !.flag = TRUE] = [to |-> x.to, flag |-> TRUE, tag |-> x.tag]
      /\ [x EXCEPT !.tag = TRUE] = [to |-> x.to, flag |-> x.flag, tag |-> TRUE]
  BY <1>2, EdgeWith
<1>4. \/ heap' = [heap EXCEPT !.edge = [heap.edge EXCEPT ![e] = [x EXCEPT !.flag = TRUE]]] /\ flag = TRUE /\ tag = x.tag
      \/ heap' = [heap EXCEPT !.edge = [heap.edge EXCEPT ![e] = [x EXCEPT !.tag = TRUE]]] /\ tag = TRUE /\ flag = x.flag
  BY <1>2 DEF x
<1>5. heap' = [heap EXCEPT !.edge = [heap.edge EXCEPT ![e] = x2]]
  BY <1>3, <1>4
<1>6. heap' = [key |-> heap.key, edge |-> [heap.edge EXCEPT ![e] = x2]]
  <2> DEFINE K == heap.key
             E == heap.edge
             E2 == [E EXCEPT ![e] = x2]
  <2>1. heap = [key |-> K, edge |-> E] /\ heap' = [heap EXCEPT !.edge = E2]
    BY <1>1, <1>5
  <2> SUFFICES heap' = [key |-> K, edge |-> E2]
    OBVIOUS
  <2> HIDE DEF K, E, E2
  <2> QED
    BY <2>1
<1>7. heap'.key = heap.key /\ heap'.edge = [heap.edge EXCEPT ![e] = x2]
      /\ heap' = [key |-> heap'.key, edge |-> heap'.edge]
  BY <1>6
<1>8. /\ DOMAIN heap'.edge = DOMAIN heap.edge /\ heap'.edge[e] = x2
      /\ \A f \in DOMAIN heap.edge : f # e => heap'.edge[f] = heap.edge[f]
      /\ heap'.edge = [f \in DOMAIN heap'.edge |-> heap'.edge[f]]
  BY <1>1, <1>7
<1>9. /\ x2 \in [to : Made(heap), flag : BOOLEAN, tag : BOOLEAN]
      /\ x2.to = x.to /\ x2.flag = flag /\ x2.tag = tag
  BY <1>2
<1> HIDE DEF x2
<1>10. /\ Made(heap') = Made(heap) /\ \A m : Internal(heap', m) <=> Internal(heap, m)
       /\ Inners(heap') = Inners(heap)
  BY <1>7, <1>8 DEF Made, Internal, Inners
<1>11. ASSUME NEW m \in Inners(heap), NEW r \in Sides
       PROVE  /\ heap'.edge[<<m, r>>] \in [to : Made(heap), flag : BOOLEAN, tag : BOOLEAN]
              /\ heap'.edge[<<m, r>>].to = heap.edge[<<m, r>>].to
              /\ m # n \/ r # s => heap'.edge[<<m, r>>] = heap.edge[<<m, r>>]
  <2>1. <<m, r>> \in DOMAIN heap.edge
    BY <1>1
  <2> QED
    BY <1>1, <1>8, <1>9, <2>1 DEF x
<1>12. Shape(heap')
  BY <1>1, <1>7, <1>8, <1>10, <1>11 DEF Shape
<1>13. SameWays(heap, heap')
  BY <1>7, <1>10, <1>11 DEF SameWays, To
<1>14. Flagged(heap', n, s) = flag /\ Tagged(heap', n, s) = tag
  BY <1>8, <1>9 DEF Flagged, Tagged
<1> QED
  BY <1>11, <1>12, <1>13, <1>14 DEF Marks, Flagged, Tagged

\* A tree with more marks has the same contents.
LEMMA MarkSame ==
  ASSUME Names, NEW H, TreeInv(H), NEW H2, Shape(H2), SameWays(H, H2), MarksOK(H2),
         \A n \in Inners(H), s \in Sides : /\ Flagged(H, n, s) => Flagged(H2, n, s)
                                           /\ Tagged(H, n, s) => Tagged(H2, n, s)
  PROVE  /\ TreeInv(H2) /\ Frame(H, H2) /\ Made(H2) = Made(H) /\ Below(H2, S) = Below(H, S)
         /\ Inners(H2) = Inners(H)
         /\ \A k \in Keys : Path(H2, k) = Path(H, k) /\ Value(H2, k) = Value(H, k)
<1>1. TreeInv(H2) /\ Shape(H)
  BY MarkTree DEF TreeInv
<1>2. Frame(H, H2)
  BY <1>1, MarkFrame
<1>3. /\ Made(H2) = Made(H) /\ Below(H2, S) = Below(H, S) /\ Inners(H2) = Inners(H)
      /\ \A k : Path(H2, k) = Path(H, k)
  BY <1>1, SameWalks
<1>4. ASSUME NEW k \in Keys PROVE Value(H2, k) = Value(H, k)
  <2>1. H2.key = H.key /\ \A n : Internal(H2, n) <=> Internal(H, n)
    BY DEF SameWays
  <2>2. End(H2, k) = End(H, k)
    <3>1. Founded(H) /\ Founded(H2)
      BY <1>1 DEF TreeInv
    <3>2. End(H, k) \in Path(H2, k) /\ ~Internal(H2, End(H, k))
      BY <1>1, <1>3, <2>1, <3>1, EndIs
    <3> QED
      BY <1>1, <3>1, <3>2, EndIs
  <2> QED
    BY <2>1, <2>2 DEF Value
<1> QED
  BY <1>1, <1>2, <1>3, <1>4

\* Flagged edges lead to leaves, which are named.
LEMMA FlaggedNamed ==
  ASSUME Names, NEW H, TreeInv(H), NEW n \in Inners(H), NEW s \in Sides, Flagged(H, n, s)
  PROVE  To(H, n, s) # None /\ To(H, n, s) \in Made(H) /\ ~Internal(H, To(H, n, s))
         /\ H.key[To(H, n, s)] \in Keys
<1>1. n \in Made(H) /\ Internal(H, n) /\ Shape(H)
  BY DEF Inners, TreeInv
<1>2. To(H, n, s) \in Made(H) /\ ~Internal(H, To(H, n, s)) /\ H.key[To(H, n, s)] \in Keys
  BY <1>1, EdgeTypes DEF TreeInv, MarksOK
<1> QED
  BY <1>2 DEF TreeInv, LeavesNamed, Names

\* Where a record stands at an edge without marks.
LEMMA SeekAt ==
  ASSUME Names, NEW H, TreeInv(H), NEW c, c \in Map!Calls, NEW l, SeekOK(H, c, l),
         H.edge[l.edge] = Edge(l.leaf)
  PROVE  \E p \in Path(H, c.key) :
           /\ p \in Inners(H) /\ p \in Below(H, S) /\ Internal(H, p)
           /\ l.edge = <<p, Side(H, p, c.key)>> /\ Child(H, p, c.key) = l.leaf
           /\ ~Marked(H, p, Side(H, p, c.key)) /\ l.leaf \in Path(H, c.key)
<1> DEFINE k == c.key
<1>1. PICK p : Stands(H, p, k) /\ l.edge = <<p, Side(H, p, k)>>
  BY DEF SeekOK
<1>2. /\ H.edge[l.edge].to = l.leaf /\ H.edge[l.edge].flag = FALSE /\ H.edge[l.edge].tag = FALSE
  BY DEF Edge
<1>3. Child(H, p, k) = l.leaf /\ ~Marked(H, p, Side(H, p, k))
  BY <1>1, <1>2 DEF Child, To, Marked, Flagged, Tagged
<1>4. p \in Path(H, k) /\ p \in Inners(H)
  BY <1>1, <1>3, SidesAre DEF Stands, Frozen
<1>5. Shape(H)
  BY DEF TreeInv
<1> QED
  BY <1>1, <1>3, <1>4, <1>5, PathBelow DEF Inners

LEMMA FlagMade ==
  ASSUME Names, TreeMade, NEW t \in Threads, Flag(t)
  PROVE  TreeMade' /\ Map!Next
<1> DEFINE l == local[t]
           c == call[t]
           k == c.key
           m == l.leaf
           r == [l EXCEPT !.pc = "look", !.mine = m]
<1>1. /\ Held(heap, c, None) /\ SeekOK(heap, c, l) /\ TreeInv(heap) /\ l.mine = None
      /\ c.op = "remove" /\ l.pc = "flag" /\ ~Internal(heap, m) /\ heap.key[m] = k
  <2>1. ThreadOK(heap, t, l, c) /\ TreeInv(heap) /\ l.pc = "flag"
    BY DEF TreeMade, Flag
  <2> QED
    BY <2>1 DEF ThreadOK
<1>2. CASE heap.edge[l.edge] # Edge(m)
  <2>1. Conflict(t) /\ heap' = heap
    BY <1>2 DEF Flag
  <2> QED
    BY <1>1, <1>2, <2>1, ConflictMade
<1>3. CASE heap.edge[l.edge] = Edge(m)
  <2>1. heap' = [heap EXCEPT !.edge[l.edge].flag = TRUE] /\ Go(t, r)
    BY <1>3 DEF Flag
  <2>2. c \in Map!Calls /\ k \in Keys /\ Shape(heap) /\ m \in Made(heap) /\ c.took = None /\ c # None
    BY <1>1, CallIs DEF Held, Running, TreeInv, SeekOK
  <2>3. PICK p \in Path(heap, k) :
           /\ p \in Inners(heap) /\ p \in Below(heap, S) /\ Internal(heap, p)
           /\ l.edge = <<p, Side(heap, p, k)>> /\ Child(heap, p, k) = m
           /\ ~Marked(heap, p, Side(heap, p, k)) /\ m \in Path(heap, k)
    BY <1>1, <1>3, <2>2, SeekAt
  <2> DEFINE s == Side(heap, p, k)
  <2>4. s \in Sides /\ l.edge = <<p, s>> /\ To(heap, p, s) = m /\ ~Marked(heap, p, s)
    BY <2>3, SidesAre DEF Child
  <2> HIDE DEF s
  <2>5. Marks(heap, heap', p, s, TRUE, Tagged(heap, p, s))
    <3>1. Tagged(heap, p, s) \in BOOLEAN
      BY <2>2, <2>3, <2>4, EdgeTypes DEF Inners
    <3> DEFINE tag == Tagged(heap, p, s)
               e == l.edge
    <3>2. tag \in BOOLEAN /\ TRUE \in BOOLEAN /\ heap' = [heap EXCEPT !.edge[e].flag = TRUE] /\ e = <<p, s>>
      BY <2>1, <2>4, <3>1
    <3> HIDE DEF tag, e
    <3>3. Marks(heap, heap', p, s, TRUE, tag)
      BY <2>2, <2>3, <2>4, <3>2, MarksAre DEF tag
    <3> QED
      BY <3>3 DEF tag
  <2>6. /\ Shape(heap') /\ SameWays(heap, heap') /\ Flagged(heap', p, s)
        /\ (Tagged(heap', p, s) <=> Tagged(heap, p, s))
        /\ \A n \in Inners(heap), q \in Sides : n # p \/ q # s =>
             /\ Flagged(heap', n, q) <=> Flagged(heap, n, q)
             /\ Tagged(heap', n, q) <=> Tagged(heap, n, q)
    BY <2>5 DEF Marks
  <2>7. \A n \in Inners(heap), q \in Sides : /\ Flagged(heap, n, q) => Flagged(heap', n, q)
                                             /\ Tagged(heap, n, q) => Tagged(heap', n, q)
    BY <2>6
  <2>8. MarksOK(heap')
    <3>1. heap'.key = heap.key /\ \A n : Internal(heap', n) <=> Internal(heap, n)
      BY <2>6 DEF SameWays
    <3>2. Inners(heap') = Inners(heap)
      BY <2>2, <2>6, SameWalks
    <3>3. ASSUME NEW n \in Inners(heap), NEW q \in Sides
          PROVE  /\ Flagged(heap', n, q) => ~Internal(heap', To(heap', n, q)) /\ heap'.key[To(heap', n, q)] \in Keys
                 /\ Tagged(heap', n, q) => Flagged(heap', n, Other(q))
      <4>1. To(heap', n, q) = To(heap, n, q) /\ Other(q) \in Sides
        BY <2>6, SidesAre DEF SameWays
      <4>2. Tagged(heap', n, q) => Tagged(heap, n, q)
        BY <2>6
      <4>3. Tagged(heap', n, q) => Flagged(heap', n, Other(q))
        BY <1>1, <2>7, <4>1, <4>2 DEF TreeInv, MarksOK
      <4>4. CASE n = p /\ q = s
        BY <1>1, <2>2, <2>4, <3>1, <4>1, <4>3, <4>4
      <4>5. CASE ~(n = p /\ q = s)
        BY <1>1, <2>6, <3>1, <4>1, <4>3, <4>5 DEF TreeInv, MarksOK
      <4> QED
        BY <4>4, <4>5
    <3> QED
      BY <3>2, <3>3 DEF MarksOK
  <2>9. /\ TreeInv(heap') /\ Frame(heap, heap') /\ Made(heap') = Made(heap) /\ Below(heap', S) = Below(heap, S)
        /\ Inners(heap') = Inners(heap)
        /\ \A j \in Keys : Path(heap', j) = Path(heap, j) /\ Value(heap', j) = Value(heap, j)
    BY <1>1, <2>6, <2>7, <2>8, MarkSame
  <2>10. r = [pc |-> "look", mine |-> m, above |-> l.above, successor |-> l.successor,
              edge |-> l.edge, leaf |-> l.leaf, tagged |-> l.tagged]
    <3> DEFINE x == [l EXCEPT !.pc = "look"]
    <3>1. l = [pc |-> l.pc, mine |-> l.mine, above |-> l.above, successor |-> l.successor,
               edge |-> l.edge, leaf |-> l.leaf, tagged |-> l.tagged]
      BY <1>1 DEF SeekOK
    <3>2. r = [x EXCEPT !.mine = m]
      OBVIOUS
    <3> HIDE DEF l, m
    <3>3. x = [pc |-> "look", mine |-> l.mine, above |-> l.above, successor |-> l.successor,
               edge |-> l.edge, leaf |-> l.leaf, tagged |-> l.tagged]
      BY <3>1
    <3> HIDE DEF x, r
    <3> QED
      BY <3>2, <3>3
  <2>11. r.pc = "look" /\ r.mine = m
    BY <2>10
  <2>12. SeekOK(heap', c, r) /\ r.edge = <<p, s>>
    <3>1. SeekOK(heap', c, l)
      BY <1>1, <2>2, <2>9, SeekKeeps
    <3>2. r = [pc |-> r.pc, mine |-> r.mine, above |-> l.above, successor |-> l.successor,
               edge |-> l.edge, leaf |-> l.leaf, tagged |-> l.tagged]
      BY <2>10, <2>11
    <3> HIDE DEF r
    <3> QED
      BY <2>4, <3>1, <3>2, SeekGoes
  <2> HIDE DEF r
  <2>13. \A n \in Below(heap, S) : Internal(heap, n) => n \in Inners(heap)
    BY <2>2, PathBelow DEF Inners
  <2>14. To(heap', p, s) = m
    BY <2>3, <2>4, <2>6 DEF SameWays
  <2>15. LookOK(heap', r)
    BY <2>6, <2>11, <2>12, <2>14 DEF LookOK, Flagged, To
  <2>16. MineOK(heap', c, m)
    <3>1. m \in Below(heap', S) /\ ~Internal(heap', m) /\ heap'.key[m] = k
      BY <1>1, <2>2, <2>3, <2>6, <2>9, PathBelow DEF SameWays
    <3>2. ASSUME NEW n \in Below(heap', S), NEW q \in Sides, Internal(heap', n), To(heap', n, q) = m
          PROVE  Flagged(heap', n, q)
      <4>1. Internal(heap, n) /\ n \in Below(heap, S) /\ To(heap, n, q) = m
        BY <2>6, <2>9, <2>13, <3>2 DEF SameWays
      <4>2. n = p /\ q = s
        BY <1>1, <2>3, <2>4, <4>1 DEF TreeInv, Single
      <4> QED
        BY <2>6, <4>2
    <3> QED
      BY <1>1, <2>2, <2>9, <3>1, <3>2 DEF MineOK
  <2>17. Held(heap', c, r.mine)
    <3>1. Running(heap', c)
      BY <1>1, <2>2, <2>9 DEF Held, Running
    <3>2. m # None
      <4>1. m = Leaf(m[2]) /\ m[2] \in Keys \cup Threads
        BY <1>1, <2>2 DEF TreeInv, LeavesNamed
      <4> QED
        BY <4>1 DEF Names
    <3> QED
      BY <2>11, <2>16, <3>1, <3>2 DEF Held
  <2>18. ThreadOK(heap', t, r, c)
    BY <1>1, <2>11, <2>12, <2>15, <2>17 DEF ThreadOK
  <2>19. FlagsGo(heap, heap', l.mine, r.mine)
    <3> SUFFICES ASSUME NEW n \in Below(heap', S), NEW q \in Sides, Internal(heap', n), Flagged(heap', n, q),
                        To(heap', n, q) # m
                 PROVE  /\ To(heap', n, q) # None
                        /\ \E i \in Below(heap, S), j \in Sides :
                             Internal(heap, i) /\ To(heap, i, j) = To(heap', n, q) /\ Flagged(heap, i, j)
      BY <1>1, <2>11 DEF FlagsGo
    <3>1. Internal(heap, n) /\ n \in Below(heap, S) /\ n \in Inners(heap) /\ To(heap', n, q) = To(heap, n, q)
      BY <2>6, <2>9, <2>13 DEF SameWays
    <3>2. ~(n = p /\ q = s)
      BY <2>14
    <3>3. Flagged(heap, n, q)
      BY <2>6, <3>1, <3>2
    <3> QED
      BY <1>1, <3>1, <3>3, FlaggedNamed
  <2>20. \A u \in Threads \ {t} : local[u].mine # r.mine
    <3> SUFFICES ASSUME NEW u \in Threads \ {t}, local[u].mine = m PROVE FALSE
      BY <2>11
    <3>1. m # None
      <4>1. m = Leaf(m[2]) /\ m[2] \in Keys \cup Threads
        BY <1>1, <2>2 DEF TreeInv, LeavesNamed
      <4> QED
        BY <4>1 DEF Names
    <3>2. MineOK(heap, call[u], m)
      BY <3>1, MineHeld DEF Held
    <3> QED
      BY <2>3, <2>4, <3>2 DEF MineOK, Marked
  <2>21. ~(c = None \/ (c.op = "insert" /\ c.took = None))
    BY <1>1, <2>2
  <2>22. call' = [call EXCEPT ![t] = c] /\ local' = [local EXCEPT ![t] = r]
    BY <2>1 DEF Go, TreeMade
  <2>23. BecomesStill(t, c)
    BY DEF BecomesStill
  <2> QED
    BY <2>9, <2>18, <2>19, <2>20, <2>21, <2>22, <2>23, QuietMade
<1> QED
  BY <1>2, <1>3

LEMMA TagMade ==
  ASSUME Names, TreeMade, NEW t \in Threads, Tag(t)
  PROVE  TreeMade' /\ Map!Next
<1> DEFINE l == local[t]
           c == call[t]
           k == c.key
           r == [l EXCEPT !.pc = "splice"]
           e == l.edge
<1>1. l.pc = "tag" /\ heap' = [heap EXCEPT !.edge[e].tag = TRUE] /\ Go(t, r)
  BY DEF Tag
<1>2. Held(heap, c, l.mine) /\ EraseOK(heap, c, l) /\ TreeInv(heap) /\ c.op # "get"
  <2>1. ThreadOK(heap, t, l, c) /\ TreeInv(heap)
    BY DEF TreeMade
  <2> QED
    BY <1>1, <2>1 DEF ThreadOK
<1>3. c \in Map!Calls /\ k \in Keys /\ Shape(heap) /\ c # None
  BY <1>2, CallIs DEF Held, Running, TreeInv
<1>4. PICK p \in Inners(heap), q \in Sides :
        /\ e = <<p, q>> /\ Ahead(heap, k, l, p) /\ Flagged(heap, p, Other(q))
        /\ l.mine # None => To(heap, p, Other(q)) = l.mine
  BY <1>2 DEF EraseOK
<1> DEFINE flag == Flagged(heap, p, q)
<1>5. flag \in BOOLEAN /\ TRUE \in BOOLEAN
  BY <1>3, <1>4, EdgeTypes DEF Inners
<1> HIDE DEF flag
<1>6. Marks(heap, heap', p, q, flag, TRUE)
  <2> HIDE DEF e
  <2> QED
    BY <1>1, <1>3, <1>4, <1>5, MarksAre DEF flag
<1>7. /\ Shape(heap') /\ SameWays(heap, heap') /\ Tagged(heap', p, q)
      /\ \A n \in Inners(heap), s \in Sides : Flagged(heap', n, s) <=> Flagged(heap, n, s)
      /\ \A n \in Inners(heap), s \in Sides : n # p \/ s # q =>
           (Tagged(heap', n, s) <=> Tagged(heap, n, s))
  BY <1>6 DEF Marks, flag
<1>8. \A n \in Inners(heap), s \in Sides : /\ Flagged(heap, n, s) => Flagged(heap', n, s)
                                           /\ Tagged(heap, n, s) => Tagged(heap', n, s)
  BY <1>7
<1>9. MarksOK(heap')
  <2>1. heap'.key = heap.key /\ \A n : Internal(heap', n) <=> Internal(heap, n)
    BY <1>7 DEF SameWays
  <2>2. Inners(heap') = Inners(heap)
    BY <1>3, <1>7, SameWalks
  <2>3. ASSUME NEW n \in Inners(heap), NEW s \in Sides
        PROVE  /\ Flagged(heap', n, s) => ~Internal(heap', To(heap', n, s)) /\ heap'.key[To(heap', n, s)] \in Keys
               /\ Tagged(heap', n, s) => Flagged(heap', n, Other(s))
    <3>1. To(heap', n, s) = To(heap, n, s) /\ Other(s) \in Sides
      BY <1>7, SidesAre DEF SameWays
    <3>2. Flagged(heap', n, s) => ~Internal(heap', To(heap', n, s)) /\ heap'.key[To(heap', n, s)] \in Keys
      BY <1>2, <1>7, <2>1, <3>1 DEF TreeInv, MarksOK
    <3>3. Tagged(heap', n, s) => Flagged(heap, n, Other(s))
      BY <1>2, <1>4, <1>7 DEF TreeInv, MarksOK
    <3> QED
      BY <1>7, <3>1, <3>2, <3>3
  <2> QED
    BY <2>2, <2>3 DEF MarksOK
<1>10. /\ TreeInv(heap') /\ Frame(heap, heap') /\ Made(heap') = Made(heap) /\ Below(heap', S) = Below(heap, S)
       /\ Inners(heap') = Inners(heap)
       /\ \A j \in Keys : Path(heap', j) = Path(heap, j) /\ Value(heap', j) = Value(heap, j)
  BY <1>2, <1>7, <1>8, <1>9, MarkSame
<1>11. r = [pc |-> "splice", mine |-> l.mine, above |-> l.above, successor |-> l.successor, edge |-> e]
  <2>1. l = [pc |-> l.pc, mine |-> l.mine, above |-> l.above, successor |-> l.successor, edge |-> l.edge]
    BY <1>2 DEF EraseOK
  <2> HIDE DEF l
  <2> QED
    BY <2>1
<1>12. /\ r.pc = "splice" /\ r.mine = l.mine /\ r.above = l.above /\ r.successor = l.successor /\ r.edge = e
       /\ r = [pc |-> r.pc, mine |-> r.mine, above |-> r.above, successor |-> r.successor, edge |-> r.edge]
  BY <1>11
<1> HIDE DEF r
<1>13. EraseOK(heap', c, r)
  <2>1. EraseOK(heap', c, l)
    BY <1>2, <1>3, <1>10, EraseKeeps
  <2>2. PICK p2 \in Inners(heap'), q2 \in Sides :
          /\ e = <<p2, q2>> /\ Ahead(heap', k, l, p2) /\ Flagged(heap', p2, Other(q2))
          /\ l.mine # None => To(heap', p2, Other(q2)) = l.mine
    BY <2>1 DEF EraseOK
  <2>3. p2 = p /\ q2 = q
    BY <1>4, <2>2
  <2>4. Ahead(heap', k, r, p)
    BY <1>12, <2>2, <2>3 DEF Ahead
  <2> HIDE DEF e
  <2> QED
    BY <1>7, <1>12, <2>2, <2>3, <2>4 DEF EraseOK
<1>14. Held(heap', c, r.mine)
  <2>1. DOMAIN [u \in {} |-> u] = {}
    OBVIOUS
  <2>2. After(heap', l.mine, c) = c
    BY <1>10, <2>1, QuietCalls
  <2> QED
    BY <1>2, <1>10, <1>12, <2>2, HeldKeeps
<1>15. ThreadOK(heap', t, r, c)
  BY <1>2, <1>12, <1>13, <1>14 DEF ThreadOK
<1>16. FlagsGo(heap, heap', l.mine, r.mine)
  <2> SUFFICES ASSUME NEW n \in Below(heap', S), NEW s \in Sides, Internal(heap', n), Flagged(heap', n, s)
               PROVE  \E i \in Below(heap, S), j \in Sides :
                        Internal(heap, i) /\ To(heap, i, j) = To(heap', n, s) /\ Flagged(heap, i, j)
    BY <1>12 DEF FlagsGo
  <2>1. n \in Below(heap, S) /\ Internal(heap, n) /\ n \in Inners(heap)
    BY <1>3, <1>7, <1>10, PathBelow DEF SameWays, Inners
  <2>2. Flagged(heap, n, s) /\ To(heap', n, s) = To(heap, n, s)
    BY <1>7, <2>1 DEF SameWays
  <2> QED
    BY <2>1, <2>2
<1>17. c = None \/ (c.op = "insert" /\ c.took = None) =>
         Leaf(t) \notin Made(heap') /\ Inner(t) \notin Made(heap')
  BY <1>10 DEF TreeMade, Unmade
<1>18. call' = [call EXCEPT ![t] = c] /\ local' = [local EXCEPT ![t] = r]
  BY <1>1 DEF Go, TreeMade
<1>19. BecomesStill(t, c) /\ r.mine = local[t].mine
  BY <1>12 DEF BecomesStill
<1> QED
  BY <1>10, <1>15, <1>16, <1>17, <1>18, <1>19, QuietMade
-----------------------------------------------------------------------------
(* Insertions of threads *)

LEMMA GrownIs ==
  ASSUME Names, NEW H, TreeInv(H), NEW k \in Keys, NEW p \in Path(H, k), Internal(H, p),
         NEW m, m = Child(H, p, k), ~Internal(H, m), H.key[m] # k, ~Marked(H, p, Side(H, p, k)),
         NEW v \in Keys \cup Threads, Leaf(v) \notin Made(H), Inner(v) \notin Made(H),
         NEW H2, H2 = Grown(H, <<p, Side(H, p, k)>>, m, v, k)
  PROVE  Shape(H2) /\ Grows(H, H2, k, p, m, Inner(v), Leaf(v))
<1> DEFINE y == Inner(v)
           z == Leaf(v)
           q == Side(H, p, k)
           e == <<p, q>>
           less == H.key[m] < k
<1>1. /\ Shape(H) /\ p \in Inners(H) /\ p \in Made(H) /\ q \in Sides /\ e \in DOMAIN H.edge
      /\ DOMAIN H.edge = Inners(H) \X Sides
  BY PathBelow, SidesAre DEF TreeInv, Shape, Inners
<1>2. m \in Made(H) /\ H.key[m] \in Keys \cup {Inf} /\ m = To(H, p, q)
  BY <1>1, EdgeTypes DEF Child, Shape
<1>3. y # z /\ y \notin Made(H) /\ z \notin Made(H) /\ y[1] = "inner" /\ z[1] = "leaf" /\ z[2] = v
  BY DEF Leaf, Inner
<1>4. \A n \in Inners(H) : n \in Made(H) /\ n # y /\ n # z
  BY <1>3 DEF Inners
<1> HIDE DEF y, z, q, e, less
<1>5. /\ H2 = [key |-> H2.key, edge |-> H2.edge]
      /\ H2.key = [n \in Made(H) \cup {z, y} |->
           CASE n = z -> k [] n = y -> IF less THEN k ELSE H.key[m] [] OTHER -> H.key[n]]
      /\ H2.edge = [f \in DOMAIN H.edge \cup {<<y, "L">>, <<y, "R">>} |->
           CASE f = e -> Edge(y)
             [] f = <<y, "L">> -> Edge(IF less THEN m ELSE z)
             [] f = <<y, "R">> -> Edge(IF less THEN z ELSE m)
             [] OTHER -> H.edge[f]]
  BY DEF Grown, y, z, q, e, less, Made
<1>6. /\ Made(H2) = Made(H) \cup {y, z} /\ H2.key[z] = k
      /\ H2.key[y] = (IF less THEN k ELSE H.key[m])
      /\ \A n \in Made(H) : H2.key[n] = H.key[n]
  BY <1>3, <1>5 DEF Made
<1>7. DOMAIN H2.edge = DOMAIN H.edge \cup {<<y, "L">>, <<y, "R">>}
  BY <1>5
<1>8. /\ \A n \in Made(H) : Internal(H2, n) <=> Internal(H, n)
      /\ ~Internal(H2, z) /\ Internal(H2, y) /\ Inners(H2) = Inners(H) \cup {y}
  <2>1. \A n : Internal(H2, n) <=> Internal(H, n) \/ n = y
    BY <1>7 DEF Internal
  <2>2. \A n : Internal(H, n) => n \in Made(H)
    BY <1>1 DEF Internal, Inners
  <2> QED
    BY <1>3, <1>6, <2>1, <2>2 DEF Inners
<1>9. DOMAIN H2.edge = Inners(H2) \X Sides
  BY <1>1, <1>7, <1>8 DEF Sides
<1>10. /\ H2.edge[e] = Edge(y)
       /\ H2.edge[<<y, "L">>] = Edge(IF less THEN m ELSE z)
       /\ H2.edge[<<y, "R">>] = Edge(IF less THEN z ELSE m)
  BY <1>1, <1>3, <1>4, <1>5 DEF e
<1>11. \A n \in Inners(H), s \in Sides : n # p \/ s # q => H2.edge[<<n, s>>] = H.edge[<<n, s>>]
  <2> SUFFICES ASSUME NEW n \in Inners(H), NEW s \in Sides, n # p \/ s # q
               PROVE  H2.edge[<<n, s>>] = H.edge[<<n, s>>]
    OBVIOUS
  <2>1. <<n, s>> # e /\ <<n, s>> # <<y, "L">> /\ <<n, s>> # <<y, "R">>
    BY <1>4 DEF e
  <2>2. <<n, s>> \in DOMAIN H.edge
    BY <1>1
  <2> QED
    BY <1>5, <2>1, <2>2
<1>12. \A i \in Made(H2) : Edge(i) \in [to : Made(H2), flag : BOOLEAN, tag : BOOLEAN]
  BY DEF Edge
<1>13. \A i : Edge(i).to = i /\ Edge(i).flag = FALSE /\ Edge(i).tag = FALSE
  BY DEF Edge
<1>14. Shape(H2)
  <2>1. ASSUME NEW n \in Inners(H2), NEW s \in Sides
        PROVE  H2.edge[<<n, s>>] \in [to : Made(H2), flag : BOOLEAN, tag : BOOLEAN]
    <3>1. CASE n = y
      BY <1>2, <1>6, <1>10, <1>12, <3>1 DEF Sides
    <3>2. CASE n = p /\ s = q
      BY <1>6, <1>10, <1>12, <3>2 DEF e
    <3>3. CASE n # y /\ ~(n = p /\ s = q)
      <4>1. n \in Inners(H) /\ H2.edge[<<n, s>>] = H.edge[<<n, s>>]
        BY <1>8, <1>11, <3>3
      <4>2. H.edge[<<n, s>>] \in [to : Made(H), flag : BOOLEAN, tag : BOOLEAN]
        BY <1>1, <4>1 DEF Shape
      <4> QED
        BY <1>6, <4>1, <4>2
    <3> QED
      BY <3>1, <3>2, <3>3
  <2>2. \A n \in Made(H2) : H2.key[n] \in Keys \cup {Inf}
    BY <1>1, <1>2, <1>6 DEF Shape
  <2>3. S \in Inners(H2) /\ H2.key[S] = Inf
    BY <1>1, <1>4, <1>6, <1>8 DEF Shape
  <2>4. H2.edge = [f \in DOMAIN H2.edge |-> H2.edge[f]]
    BY <1>5
  <2> QED
    BY <1>5, <1>9, <2>1, <2>2, <2>3, <2>4 DEF Shape
<1>15. /\ To(H2, p, q) = y /\ ~Marked(H2, p, q) /\ \A s \in Sides : ~Marked(H2, y, s)
       /\ To(H2, y, "L") = (IF less THEN m ELSE z) /\ To(H2, y, "R") = (IF less THEN z ELSE m)
  BY <1>10, <1>13 DEF To, Marked, Flagged, Tagged, Sides, e
<1>16. \A n \in Inners(H), s \in Sides : n # p \/ s # q =>
         /\ To(H2, n, s) = To(H, n, s)
         /\ Flagged(H2, n, s) <=> Flagged(H, n, s)
         /\ Tagged(H2, n, s) <=> Tagged(H, n, s)
  BY <1>11 DEF To, Flagged, Tagged
<1>17. z[2] \in Keys \cup Threads /\ z = Leaf(z[2])
  BY <1>3 DEF z
<1> QED
  BY <1>3, <1>6, <1>8, <1>14, <1>15, <1>16, <1>17 DEF Grows, less, q, y, z

LEMMA InsertMade ==
  ASSUME Names, TreeMade, NEW t \in Threads, Insert(t)
  PROVE  TreeMade' /\ Map!Next
<1> DEFINE l == local[t]
           c == call[t]
           k == c.key
           m == l.leaf
           H2 == heap'
<1>1. /\ Held(heap, c, None) /\ SeekOK(heap, c, l) /\ TreeInv(heap) /\ l.mine = None
      /\ c.op = "insert" /\ ~Internal(heap, m) /\ heap.key[m] # k /\ l.pc = "link"
  <2>1. ThreadOK(heap, t, l, c) /\ TreeInv(heap) /\ l.pc = "link"
    BY DEF TreeMade, Insert
  <2> QED
    BY <2>1 DEF ThreadOK
<1>2. CASE heap.edge[l.edge] # Edge(l.leaf)
  <2>1. Conflict(t) /\ UNCHANGED heap
    BY <1>2 DEF Insert
  <2> QED
    BY <1>1, <1>2, <2>1, ConflictMade
<1>3. CASE heap.edge[l.edge] = Edge(l.leaf)
  <2> DEFINE takes == [w \in {t} |-> k]
             l2 == [pc |-> "true", mine |-> None]
             c2 == [c EXCEPT !.took = t]
  <2>1. /\ c \in Map!Calls /\ c # None /\ k \in Keys /\ c.answer = Pending /\ c.took = None
        /\ c.seen \subseteq Keys \cup Threads \cup {None}
    BY <1>1, CallIs DEF Held, Running
  <2>2. /\ H2 = Grown(heap, l.edge, m, t, k) /\ local' = [local EXCEPT ![t] = l2]
        /\ call' = [u \in Threads |-> Map!Witnessed(u, takes)]
    BY <1>3 DEF Insert
  <2>3. PICK p \in Path(heap, k) :
           /\ p \in Inners(heap) /\ p \in Below(heap, S) /\ Internal(heap, p)
           /\ l.edge = <<p, Side(heap, p, k)>> /\ Child(heap, p, k) = m
           /\ ~Marked(heap, p, Side(heap, p, k)) /\ m \in Path(heap, k)
    BY <1>1, <1>3, <2>1, SeekAt
  <2>4. Leaf(t) \notin Made(heap) /\ Inner(t) \notin Made(heap)
    BY <1>1, <2>1 DEF TreeMade, Unmade
  <2>5. Shape(H2) /\ Grows(heap, H2, k, p, m, Inner(t), Leaf(t))
    <3>1. H2 = Grown(heap, <<p, Side(heap, p, k)>>, m, t, k)
      BY <2>2, <2>3
    <3> QED
      BY <1>1, <2>1, <2>3, <2>4, <3>1, GrownIs
  <2>6. /\ TreeInv(H2) /\ Frame(heap, H2) /\ FlagsStay(heap, H2)
        /\ Below(H2, S) = Below(heap, S) \cup {Inner(t), Leaf(t)}
        /\ Value(heap, k) = None /\ Value(H2, k) = Leaf(t)[2]
        /\ \A j \in Keys : j # k => Value(H2, j) = Value(heap, j)
    BY <1>1, <2>5, GrowsTree, GrowsFrame, GrowsFlags, GrowsBelow, GrowsValues
  <2>7. /\ Leaf(t)[2] = t /\ t # None /\ Made(H2) = Made(heap) \cup {Inner(t), Leaf(t)}
    BY <2>5 DEF Leaf, Names, Grows
  <2>8. /\ c2 \in Map!Calls /\ c2.op = "insert" /\ c2.key = k /\ c2.seen = c.seen
        /\ c2.answer = Pending /\ c2.took = t
    BY <1>1, <2>1, CallWith
  <2>9. Map!Open(t) /\ t \in Map!Untaken /\ {t} \in SUBSET Map!Untaken /\ DOMAIN takes = {t}
        /\ takes \in [{t} -> Keys] /\ takes[t] = k
    BY <1>1, <2>1 DEF Map!Open, Map!Untaken
  <2> HIDE DEF takes
  <2>10. Map!Witnessed(t, takes) = c2
    BY <1>1, <2>1, <2>9 DEF Map!Witnessed
  <2>11. ASSUME NEW u \in Threads, u # t
         PROVE  Map!Witnessed(u, takes) = After(H2, local[u].mine, call[u])
    <3>1. CASE ~Map!Open(u) \/ call[u].took # None
      BY <3>1 DEF Map!Witnessed, Map!Open, After
    <3>2. CASE Map!Open(u) /\ call[u].took = None
      <4> DEFINE d == call[u]
      <4>1. /\ d.key \in Keys /\ d # None /\ d.answer = Pending /\ d.op \in {"get", "insert", "remove"}
            /\ local[u].mine # None => local[u].mine \in Below(H2, S)
        BY <2>6, <3>2, OpenIs
      <4>2. After(H2, local[u].mine, d) = [d EXCEPT !.seen = @ \cup {Value(H2, d.key)}]
        BY <3>2, <4>1 DEF After
      <4>3. Map!Witnessed(u, takes) = [d EXCEPT !.seen = @ \cup {Contents'[d.key]}]
        BY <1>3, <2>9, <2>11, <3>2, <4>1 DEF Map!Witnessed, Map!Sight
      <4> QED
        BY <4>1, <4>2, <4>3, ContentsAre
    <3> QED
      BY <3>1, <3>2
  <2>12. /\ call' = [u \in Threads |-> IF u = t THEN c2 ELSE Map!Witnessed(u, takes)]
         /\ call' = [u \in Threads |-> IF u = t THEN c2 ELSE After(H2, local[u].mine, call[u])]
    BY <2>2, <2>10, <2>11 DEF takes
  <2>13. Map!CanTake(takes)
    BY <1>1, <2>1, <2>6, <2>9, ContentsAre DEF Map!CanTake
  <2>14. Contents' = Map!Changed(takes)
    <3>1. \A j \in Keys : Contents'[j] = IF j = k THEN t ELSE Contents[j]
      BY <2>1, <2>6, <2>7, ContentsAre
    <3>2. Contents' = [j \in Keys |-> Contents'[j]]
      BY DEF Contents
    <3>3. \A j \in Keys : (\E u \in DOMAIN takes : takes[u] = j) <=> j = k
      BY <2>9
    <3>4. (CHOOSE u \in DOMAIN takes : takes[u] = k) = t
      BY <2>9
    <3>5. ASSUME NEW j \in Keys
          PROVE  Map!Changed(takes)[j] = IF j = k THEN t ELSE Contents[j]
      BY <1>1, <3>3, <3>4 DEF Map!Changed
    <3>6. Map!Changed(takes) = [j \in Keys |-> Map!Changed(takes)[j]]
      BY DEF Map!Changed
    <3> QED
      BY <3>1, <3>2, <3>5, <3>6
  <2>15. MayBecome(t, takes, c2)
    BY <2>10 DEF MayBecome
  <2>16. Map!Next
    BY <2>9, <2>12, <2>13, <2>14, <2>15, MapMade
  <2>17. ThreadOK(H2, t, l2, c2)
    <3>1. Running(H2, c2)
      BY <2>7, <2>8 DEF Running
    <3> QED
      BY <2>8, <3>1 DEF ThreadOK
  <2>18. FlagsGo(heap, H2, None, None)
    <3>1. Shape(H2) /\ Below(H2, S) \subseteq Made(H2)
      BY <2>5, PathBelow
    <3>2. \A n \in Below(H2, S) : Internal(H2, n) => n \in Inners(H2)
      BY <3>1 DEF Inners
    <3> QED
      BY <2>6, <3>2, FlaggedNamed DEF FlagsGo, FlagsStay
  <2>19. l2.mine = None /\ ~(c2 = None \/ (c2.op = "insert" /\ c2.took = None))
    BY <2>7, <2>8, CallIs
  <2>20. Made(H2) \subseteq Made(heap) \cup {Leaf(t), Inner(t)}
    BY <2>7
  <2> HIDE DEF l2, c2, H2
  <2>21. TreeMade'
    BY <1>1, <2>2, <2>6, <2>12, <2>17, <2>18, <2>19, <2>20, StepMade DEF H2
  <2> QED
    BY <2>16, <2>21
<1> QED
  BY <1>2, <1>3

-----------------------------------------------------------------------------
(* Removals of threads *)

LEMMA SplicedIs ==
  ASSUME Names, TreeInv(heap), NEW k \in Keys, NEW a \in Path(heap, k), Internal(heap, a),
         NEW e, e = <<a, Side(heap, a, k)>>, NEW c0, heap.edge[e] = Edge(c0),
         NEW p, NEW q \in Sides, NEW C, Segment(heap, k, c0, p, C),
         Tagged(heap, p, q), Flagged(heap, p, Other(q)),
         NEW x, x = heap.edge[<<p, q>>],
         heap' = [heap EXCEPT !.edge[e] = [Edge(x.to) EXCEPT !.flag = x.flag]]
  PROVE  Shape(heap') /\ Splices(heap, heap', k, a, c0, C, p, q)
<1> DEFINE sa == Side(heap, a, k)
           x2 == [to |-> x.to, flag |-> x.flag, tag |-> FALSE]
<1>1. /\ heap = [key |-> heap.key, edge |-> heap.edge]
      /\ heap.edge = [f \in DOMAIN heap.edge |-> heap.edge[f]]
      /\ DOMAIN heap.edge = Inners(heap) \X Sides
      /\ \A m \in Inners(heap) : \A r \in Sides :
           heap.edge[<<m, r>>] \in [to : Made(heap), flag : BOOLEAN, tag : BOOLEAN]
      /\ Shape(heap)
  BY DEF Shape, TreeInv
<1>2. a \in Made(heap) /\ a \in Inners(heap) /\ sa \in Sides /\ e \in DOMAIN heap.edge /\ p \in Inners(heap)
  BY <1>1, PathBelow, SidesAre DEF Inners, Segment
<1>3. x \in [to : Made(heap), flag : BOOLEAN, tag : BOOLEAN]
  BY <1>1, <1>2
<1>4. [Edge(x.to) EXCEPT !.flag = x.flag] = x2
  <2> DEFINE b == x.flag
             i == x.to
             no == FALSE
  <2>1. Edge(i) = [to |-> i, flag |-> no, tag |-> no]
    BY DEF Edge
  <2> SUFFICES [Edge(i) EXCEPT !.flag = b] = [to |-> i, flag |-> b, tag |-> no]
    OBVIOUS
  <2> HIDE DEF b, i, no
  <2> QED
    BY ONLY <2>1
<1>9. /\ x2 \in [to : Made(heap), flag : BOOLEAN, tag : BOOLEAN]
      /\ x2.to = x.to /\ x2.flag = x.flag /\ x2.tag = FALSE
  BY <1>3
<1> HIDE DEF x2, sa
<1>5. heap' = [heap EXCEPT !.edge = [heap.edge EXCEPT ![e] = x2]]
  BY <1>4
<1>6. heap' = [key |-> heap.key, edge |-> [heap.edge EXCEPT ![e] = x2]]
  <2> DEFINE K == heap.key
             E == heap.edge
             E2 == [E EXCEPT ![e] = x2]
  <2>1. heap = [key |-> K, edge |-> E] /\ heap' = [heap EXCEPT !.edge = E2]
    BY <1>1, <1>5
  <2> SUFFICES heap' = [key |-> K, edge |-> E2]
    OBVIOUS
  <2> HIDE DEF K, E, E2
  <2> QED
    BY <2>1
<1>7. heap'.key = heap.key /\ heap'.edge = [heap.edge EXCEPT ![e] = x2]
      /\ heap' = [key |-> heap'.key, edge |-> heap'.edge]
  BY ONLY <1>6
<1>8. /\ DOMAIN heap'.edge = DOMAIN heap.edge /\ heap'.edge[e] = x2
      /\ \A f \in DOMAIN heap.edge : f # e => heap'.edge[f] = heap.edge[f]
      /\ heap'.edge = [f \in DOMAIN heap'.edge |-> heap'.edge[f]]
  <2> DEFINE E == heap.edge
             E2 == heap'.edge
  <2>1. E = [f \in DOMAIN E |-> E[f]] /\ e \in DOMAIN E /\ E2 = [E EXCEPT ![e] = x2]
    BY <1>1, <1>2, <1>7
  <2> SUFFICES /\ DOMAIN E2 = DOMAIN E /\ E2[e] = x2
               /\ \A f \in DOMAIN E : f # e => E2[f] = E[f]
               /\ E2 = [f \in DOMAIN E2 |-> E2[f]]
    OBVIOUS
  <2> HIDE DEF E, E2
  <2> QED
    BY ONLY <2>1
<1>10. /\ Made(heap') = Made(heap) /\ \A m : Internal(heap', m) <=> Internal(heap, m)
       /\ Inners(heap') = Inners(heap)
  BY <1>7, <1>8 DEF Made, Internal, Inners
<1>11. ASSUME NEW m \in Inners(heap), NEW r \in Sides
       PROVE  /\ heap'.edge[<<m, r>>] \in [to : Made(heap), flag : BOOLEAN, tag : BOOLEAN]
              /\ m # a \/ r # sa => heap'.edge[<<m, r>>] = heap.edge[<<m, r>>]
  <2>1. <<m, r>> \in DOMAIN heap.edge
    BY <1>1
  <2> QED
    BY <1>1, <1>8, <1>9, <2>1 DEF sa
<1>12. Shape(heap')
  BY ONLY <1>1, <1>7, <1>8, <1>10, <1>11 DEF Shape
<1>13. /\ To(heap', a, sa) = To(heap, p, q) /\ ~Tagged(heap', a, sa)
       /\ Flagged(heap', a, sa) <=> Flagged(heap, p, q)
  BY <1>8, <1>9 DEF To, Flagged, Tagged, sa
<1>14. To(heap, a, sa) = c0 /\ ~Marked(heap, a, sa)
  BY DEF To, Marked, Flagged, Tagged, Edge, sa
<1>15. ASSUME NEW n \in Inners(heap), NEW s \in Sides, n # a \/ s # sa
       PROVE  /\ To(heap', n, s) = To(heap, n, s)
              /\ Flagged(heap', n, s) <=> Flagged(heap, n, s)
              /\ Tagged(heap', n, s) <=> Tagged(heap, n, s)
  BY <1>11, <1>15 DEF To, Flagged, Tagged
<1> QED
  BY <1>7, <1>10, <1>12, <1>13, <1>14, <1>15 DEF Splices, Child, sa

\* The leaf that a removal has flagged is what the contents have for its key.
LEMMA MineFound ==
  ASSUME Names, NEW H, TreeInv(H), NEW c, NEW mine, Held(H, c, mine), mine # None, mine \in Below(H, S)
  PROVE  c.key \in Keys /\ End(H, c.key) = mine /\ Value(H, c.key) = mine[2] /\ mine[2] # None
<1>1. /\ mine[2] # None /\ H.key[mine] = c.key /\ c.key \in Keys /\ ~Internal(H, mine)
      /\ mine \in Path(H, c.key)
  BY MineNamed
<1>2. Shape(H) /\ Founded(H)
  BY DEF TreeInv
<1>3. End(H, c.key) = mine
  BY <1>1, <1>2, EndIs
<1> QED
  BY <1>1, <1>3 DEF Value

LEMMA RemovedIs ==
  ASSUME Names, TreeMade, TreeInv(heap'), Frame(heap, heap'), NEW u \in Threads
  PROVE  /\ u \in DOMAIN Removed <=>
              Map!Open(u) /\ call[u].took = None /\ local[u].mine # None /\ local[u].mine \notin Below(heap', S)
         /\ u \in DOMAIN Removed => Removed[u] = call[u].key
<1> DEFINE c == call[u]
           mine == local[u].mine
<1>1. u \in DOMAIN Removed <=> c # None /\ c.took = None /\ mine # None /\ End(heap', c.key) # mine
  BY DEF Removed
<1>2. u \in DOMAIN Removed => Removed[u] = c.key
  BY DEF Removed
<1>3. ASSUME mine # None, c.took = None
      PROVE  Map!Open(u) /\ c # None /\ (End(heap', c.key) # mine <=> mine \notin Below(heap', S))
  <2>1. Held(heap, c, mine) /\ TreeInv(heap)
    BY <1>3, MineHeld DEF TreeMade
  <2>2. c \in Map!Calls /\ c # None /\ c.answer = Pending /\ c.key \in Keys
    BY <2>1, CallIs DEF Held, Running
  <2>3. mine \in Made(heap) /\ ~Internal(heap, mine) /\ heap.key[mine] = c.key
    BY <1>3, <2>1, MineNamed
  <2>4. mine \in Made(heap') /\ ~Internal(heap', mine) /\ heap'.key[mine] = c.key
    BY <2>3 DEF Frame
  <2>5. Shape(heap') /\ Founded(heap')
    BY DEF TreeInv
  <2>6. mine \in Below(heap', S) => End(heap', c.key) = mine
    BY <2>2, <2>4, <2>5, EndIs DEF TreeInv, OnPath
  <2>7. End(heap', c.key) \in Below(heap', S)
    BY <2>2, <2>5, EndIs, PathBelow
  <2> QED
    BY <2>2, <2>6, <2>7 DEF Map!Open
<1> QED
  BY <1>1, <1>2, <1>3

LEMMA RemovedTakes ==
  ASSUME Names, TreeMade, TreeInv(heap'), Frame(heap, heap')
  PROVE  /\ DOMAIN Removed \in SUBSET Map!Untaken /\ Removed \in [DOMAIN Removed -> Keys]
         /\ Map!CanTake(Removed)
         /\ \A u \in Threads : Map!Witnessed(u, Removed) = After(heap', local[u].mine, call[u])
<1>1. ASSUME NEW u \in DOMAIN Removed
      PROVE  /\ u \in Threads /\ Map!Open(u) /\ call[u].took = None /\ call[u].op = "remove"
             /\ local[u].mine # None /\ local[u].mine \notin Below(heap', S) /\ local[u].mine \in Below(heap, S)
             /\ call[u].key \in Keys /\ Removed[u] = call[u].key
             /\ Contents[call[u].key] = local[u].mine[2] /\ local[u].mine[2] # None
             /\ End(heap, call[u].key) = local[u].mine
  <2>1. u \in Threads
    BY DEF Removed
  <2>2. /\ Map!Open(u) /\ call[u].took = None /\ local[u].mine # None /\ local[u].mine \notin Below(heap', S)
        /\ Removed[u] = call[u].key
    BY <2>1, RemovedIs
  <2>3. /\ Held(heap, call[u], local[u].mine) /\ call[u].key \in Keys /\ local[u].mine \in Below(heap, S)
        /\ call[u].op = "remove"
    BY <2>1, <2>2, OpenIs
  <2> QED
    BY <2>1, <2>2, <2>3, MineFound, ContentsAre DEF TreeMade
<1>2. DOMAIN Removed \in SUBSET Map!Untaken
  BY <1>1 DEF Map!Untaken
<1>3. Removed = [u \in DOMAIN Removed |-> Removed[u]]
  BY DEF Removed
<1>4. Removed \in [DOMAIN Removed -> Keys]
  BY <1>1, <1>3
<1>5. ASSUME NEW u \in DOMAIN Removed, NEW v \in DOMAIN Removed, Removed[v] = Removed[u]
      PROVE  v = u
  <2>1. u \in Threads /\ local[u].mine # None /\ local[u].mine \in Below(heap, S)
    BY <1>1
  <2>2. v \in Threads /\ local[v].mine # None
    BY <1>1
  <2>3. local[u].mine = local[v].mine
    BY <1>1, <1>5
  <2>4. u # v => local[u].mine \notin Below(heap, S)
    BY <2>1, <2>2, <2>3 DEF TreeMade, Apart
  <2> QED
    BY <2>1, <2>4
<1>6. Map!CanTake(Removed)
  BY <1>1, <1>5 DEF Map!CanTake
<1>7. ASSUME NEW u \in Threads
      PROVE  Map!Witnessed(u, Removed) = After(heap', local[u].mine, call[u])
  <2>1. CASE ~Map!Open(u) \/ call[u].took # None
    BY <2>1 DEF Map!Witnessed, Map!Open, After
  <2>2. CASE Map!Open(u) /\ call[u].took = None
    <3> DEFINE d == call[u]
               mine == local[u].mine
    <3>1. d.key \in Keys /\ d # None /\ d.answer = Pending /\ d.op \in {"get", "insert", "remove"}
      BY <2>2, OpenIs
    <3>2. CASE u \in DOMAIN Removed
      <4>1. Map!Witnessed(u, Removed) = [d EXCEPT !.took = mine[2]]
        BY <1>1, <2>2, <3>2 DEF Map!Witnessed
      <4>2. After(heap', mine, d) = [d EXCEPT !.took = mine[2]]
        BY <1>1, <2>2, <3>1, <3>2 DEF After
      <4> QED
        BY <4>1, <4>2
    <3>3. CASE u \notin DOMAIN Removed
      <4>1. mine = None \/ mine \in Below(heap', S)
        BY <2>2, <3>3, RemovedIs
      <4>2. After(heap', mine, d) = [d EXCEPT !.seen = @ \cup {Value(heap', d.key)}]
        BY <2>2, <3>1, <4>1 DEF After
      <4>3. Map!Witnessed(u, Removed) = [d EXCEPT !.seen = @ \cup {Contents'[d.key]}]
        BY <2>2, <3>1, <3>3 DEF Map!Witnessed, Map!Sight
      <4> QED
        BY <3>1, <4>2, <4>3, ContentsAre
    <3> QED
      BY <3>2, <3>3
  <2> QED
    BY <2>1, <2>2
<1> QED
  BY <1>2, <1>4, <1>6, <1>7

LEMMA RemovedChanges ==
  ASSUME Names, TreeMade, Shape(heap'), NEW k, NEW a, NEW c0, NEW C, NEW p, NEW q,
         Splices(heap, heap', k, a, c0, C, p, q)
  PROVE  Contents' = Map!Changed(Removed)
<1>1. TreeInv(heap) /\ TreeInv(heap') /\ Frame(heap, heap') /\ Shape(heap) /\ Founded(heap) /\ MarksOK(heap)
  BY SplicesTree, SplicesFrame DEF TreeMade, TreeInv
<1>2. ASSUME NEW j \in Keys, NEW u \in DOMAIN Removed, Removed[u] = j
      PROVE  u \in Threads /\ call[u].op = "remove" /\ Contents'[j] = None
  <2>1. u \in Threads
    BY DEF Removed
  <2>2. /\ Map!Open(u) /\ call[u].took = None /\ local[u].mine # None /\ local[u].mine \notin Below(heap', S)
        /\ call[u].key = j
    BY <1>1, <1>2, <2>1, RemovedIs
  <2>3. Held(heap, call[u], local[u].mine) /\ local[u].mine \in Below(heap, S) /\ call[u].op = "remove"
    BY <2>1, <2>2, OpenIs
  <2>4. End(heap, j) = local[u].mine
    BY <1>1, <2>2, <2>3, MineFound
  <2>5. End(heap', j) \in Below(heap', S)
    BY <1>1, EndIs, PathBelow DEF TreeInv
  <2>6. End(heap, j) \in Off(heap, k, C, p, q)
    BY <1>1, <2>2, <2>4, <2>5, SplicesValues
  <2> QED
    BY <1>1, <2>1, <2>3, <2>6, SplicesValues, ContentsAre
<1>3. ASSUME NEW j \in Keys, ~\E u \in DOMAIN Removed : Removed[u] = j
      PROVE  Contents'[j] = Contents[j]
  <2> DEFINE z == End(heap, j)
  <2>1. CASE z \notin Off(heap, k, C, p, q)
    BY <1>1, <2>1, SplicesValues, ContentsAre
  <2>2. CASE z \in Off(heap, k, C, p, q)
    <3>1. PICK n \in C : z = To(heap, n, Other(Stay(heap, k, p, q, n)))
      BY <2>2 DEF Off
    <3> DEFINE s == Other(Stay(heap, k, p, q, n))
    <3>2. s \in Sides /\ n \in Below(heap, S) /\ n \in Inners(heap) /\ Flagged(heap, n, s)
      BY <1>1, SplicesTypes, SidesAre
    <3>3. heap.key[z] \in Keys /\ ~Internal(heap, z)
      BY <3>1, <3>2, <1>1 DEF MarksOK
    <3>4. PICK u \in Threads : local[u].mine = z
      BY <3>1, <3>2 DEF TreeMade, Owned, Inners
    <3>5. z # None
      BY <1>1, <3>1, <3>2, FlaggedNamed
    <3>6. Held(heap, call[u], z)
      BY <3>4, <3>5, MineHeld
    <3>7. heap.key[z] = call[u].key
      BY <1>1, <3>5, <3>6, MineNamed
    <3>8. z \in Below(heap, S)
      BY <1>1, EndIs, PathBelow
    <3>9. z \notin Below(heap', S)
      BY <1>1, <2>2, SplicesBelow
    <3>10. call[u].took = None /\ Map!Open(u)
      BY <3>5, <3>6, <3>8, CallIs DEF Held, MineOK, Running, Map!Open
    <3>11. u \in DOMAIN Removed /\ Removed[u] = call[u].key
      BY <1>1, <3>4, <3>5, <3>9, <3>10, RemovedIs
    <3>12. heap.key[z] # j
      BY <1>3, <3>7, <3>11
    <3>13. Value(heap, j) = None
      BY <3>12 DEF Value
    <3> QED
      BY <1>1, <2>2, <3>13, SplicesValues, ContentsAre
  <2> QED
    BY <2>1, <2>2
<1>4. ASSUME NEW j \in Keys
      PROVE  Map!Changed(Removed)[j] = Contents'[j]
  <2>1. CASE \E u \in DOMAIN Removed : Removed[u] = j
    <3> DEFINE u == CHOOSE u \in DOMAIN Removed : Removed[u] = j
    <3>1. u \in DOMAIN Removed /\ Removed[u] = j
      BY <2>1
    <3>2. call[u].op # "insert" /\ Contents'[j] = None
      BY <1>2, <3>1
    <3> QED
      BY <2>1, <3>2 DEF Map!Changed
  <2>2. CASE ~\E u \in DOMAIN Removed : Removed[u] = j
    BY <1>3, <2>2 DEF Map!Changed
  <2> QED
    BY <2>1, <2>2
<1>5. Contents' = [j \in Keys |-> Contents'[j]] /\ Map!Changed(Removed) = [j \in Keys |-> Map!Changed(Removed)[j]]
  BY DEF Contents, Map!Changed
<1> QED
  BY <1>4, <1>5

LEMMA SpliceMade ==
  ASSUME Names, TreeMade, NEW t \in Threads, Splice(t)
  PROVE  TreeMade' /\ Map!Next
<1> DEFINE l == local[t]
           c == call[t]
           k == c.key
           H2 == heap'
<1>1. /\ Held(heap, c, l.mine) /\ EraseOK(heap, c, l) /\ TreeInv(heap)
      /\ c.op # "get" /\ l.pc = "splice"
  <2>1. ThreadOK(heap, t, l, c) /\ TreeInv(heap) /\ l.pc = "splice"
    BY DEF TreeMade, Splice
  <2> QED
    BY <2>1 DEF ThreadOK
<1>2. CASE heap.edge[l.above] # Edge(l.successor)
  <2> DEFINE r == [pc |-> "start", mine |-> l.mine]
  <2>1. Go(t, r) /\ UNCHANGED heap
    BY <1>2 DEF Splice, Retry
  <2>2. ThreadOK(heap, t, r, c) /\ r.mine = l.mine
    BY <1>1 DEF ThreadOK
  <2> HIDE DEF r
  <2> QED
    BY <2>1, <2>2, GoMade
<1>3. CASE heap.edge[l.above] = Edge(l.successor)
  <2> DEFINE x == heap.edge[l.edge]
             l2 == [pc |-> IF l.mine # None THEN "done" ELSE "start", mine |-> None]
             now == After(H2, l.mine, c)
             c2 == IF l.mine # None THEN [now EXCEPT !.answer = l.mine[2]] ELSE now
  <2>1. /\ c \in Map!Calls /\ c # None /\ k \in Keys /\ c.answer = Pending
    BY <1>1, CallIs DEF Held, Running
  <2>2. /\ H2 = [heap EXCEPT !.edge[l.above] = [Edge(x.to) EXCEPT !.flag = x.flag]]
        /\ local' = [local EXCEPT ![t] = l2]
        /\ call' = [u \in Threads |->
               LET then == Map!Witnessed(u, Removed)
               IN IF u = t /\ l.mine # None THEN [then EXCEPT !.answer = l.mine[2]] ELSE then]
    BY <1>3 DEF Splice
  <2>3. PICK p \in Inners(heap), q \in Sides :
          /\ l.edge = <<p, q>> /\ Ahead(heap, k, l, p) /\ Flagged(heap, p, Other(q))
          /\ l.mine # None => To(heap, p, Other(q)) = l.mine
          /\ Tagged(heap, p, q)
    BY <1>1 DEF EraseOK
  <2>4. PICK a, C : /\ l.above = <<a, Side(heap, a, k)>> /\ Stands(heap, a, k)
                    /\ Segment(heap, k, l.successor, p, C)
    BY <2>3 DEF Ahead
  <2>5. a \in Path(heap, k) /\ Internal(heap, a)
    <3>1. heap.edge[l.above].flag = FALSE /\ heap.edge[l.above].tag = FALSE
      BY <1>3 DEF Edge
    <3>2. ~Marked(heap, a, Side(heap, a, k))
      BY <2>4, <3>1 DEF Marked, Flagged, Tagged
    <3> QED
      BY <2>4, <3>2, SidesAre DEF Stands, Frozen, Inners
  <2>6. Shape(H2) /\ Splices(heap, H2, k, a, l.successor, C, p, q)
    BY <1>1, <1>3, <2>1, <2>2, <2>3, <2>4, <2>5, SplicedIs
  <2>7. /\ TreeInv(H2) /\ Frame(heap, H2) /\ FlagsStay(heap, H2)
        /\ \A z \in Off(heap, k, C, p, q) : z \notin Below(H2, S)
        /\ Made(H2) = Made(heap) /\ Shape(H2)
    BY <1>1, <2>6, SplicesTree, SplicesFrame, SplicesFlags, SplicesBelow DEF Splices, Made
  <2>8. l.mine # None => l.mine \notin Below(H2, S)
    <3>1. p \in C /\ Stay(heap, k, p, q, p) = q
      BY <2>4 DEF Segment, Stay
    <3> QED
      BY <2>3, <2>7, <3>1 DEF Off
  <2>9. /\ DOMAIN Removed \in SUBSET Map!Untaken /\ Removed \in [DOMAIN Removed -> Keys]
        /\ Map!CanTake(Removed) /\ Contents' = Map!Changed(Removed)
        /\ \A u \in Threads : Map!Witnessed(u, Removed) = After(H2, local[u].mine, call[u])
    BY <2>6, <2>7, RemovedTakes, RemovedChanges
  <2>10. /\ call' = [u \in Threads |-> IF u = t THEN c2 ELSE Map!Witnessed(u, Removed)]
         /\ call' = [u \in Threads |-> IF u = t THEN c2 ELSE After(H2, local[u].mine, call[u])]
    BY <2>2, <2>9
  <2>11. /\ Held(H2, now, l.mine) /\ now.op = c.op /\ now.key = c.key
         /\ c.took # None => now.took # None
    BY <1>1, <2>7, HeldKeeps
  <2>12. now \in Map!Calls /\ now # None /\ now.answer = Pending
    BY <2>11, CallIs DEF Held, Running
  <2>13. l.mine # None => /\ now.took = l.mine[2] /\ now.op = "remove"
                          /\ l.mine[2] \in Keys \cup Threads /\ l.mine[2] # None
    BY <2>7, <2>8, <2>11, MineNamed DEF Held, MineOK
  <2>14. /\ Map!Witnessed(t, Removed) = now /\ Map!Open(t)
    BY <2>1, <2>9 DEF Map!Open
  <2>15. l2.mine = None /\ l2.pc = IF l.mine # None THEN "done" ELSE "start"
    OBVIOUS
  <2> HIDE DEF l2, now
  <2>16. l.mine # None => c2 \in Map!Calls /\ c2.answer = l.mine[2] /\ c2.op = "remove"
    BY <2>12, <2>13, CallWith
  <2>17. MayBecome(t, Removed, c2)
    <3>1. l.mine # None => Map!Permitted(now, l.mine[2]) /\ l.mine[2] \in Map!Values \cup {None}
      BY <2>13 DEF Map!Permitted, Map!Values
    <3> QED
      BY <2>14, <3>1 DEF MayBecome
  <2>18. Map!Next
    BY <2>9, <2>10, <2>17, MapMade
  <2>19. ThreadOK(H2, t, l2, c2)
    <3>1. CASE l.mine # None
      BY <2>13, <2>15, <2>16, <3>1 DEF ThreadOK, Names
    <3>2. CASE l.mine = None
      BY <2>11, <2>15, <3>2 DEF ThreadOK
    <3> QED
      BY <3>1, <3>2
  <2>20. FlagsGo(heap, H2, l.mine, l2.mine)
    <3>1. \A n \in Below(H2, S), s \in Sides : Internal(H2, n) => To(H2, n, s) \in Below(H2, S)
      BY <2>7, BelowClosed DEF Shape, Inners
    <3>2. \A n \in Below(H2, S) : Internal(H2, n) => n \in Inners(H2)
      BY <2>7, PathBelow DEF Inners
    <3>3. \A n \in Below(H2, S), s \in Sides : Internal(H2, n) /\ Flagged(H2, n, s) => To(H2, n, s) # None
      BY <2>7, <3>2, FlaggedNamed
    <3> QED
      BY <2>7, <2>8, <3>1, <3>3 DEF FlagsGo, FlagsStay
  <2>21. c2 = None \/ (c2.op = "insert" /\ c2.took = None) => Leaf(t) \notin Made(H2) /\ Inner(t) \notin Made(H2)
    <3>1. CASE l.mine # None
      BY <2>16, <3>1, CallIs
    <3>2. CASE l.mine = None
      <4>1. c2.op = "insert" => Leaf(t) \notin Made(heap) /\ Inner(t) \notin Made(heap)
        BY <1>1, <2>11, <3>2 DEF Held, TreeMade, Unmade
      <4> QED
        BY <2>7, <2>12, <3>2, <4>1
    <3> QED
      BY <3>1, <3>2
  <2> HIDE DEF c2, H2
  <2>22. TreeMade'
    BY <1>1, <2>2, <2>7, <2>10, <2>15, <2>19, <2>20, <2>21, StepMade DEF H2
  <2> QED
    BY <2>18, <2>22
<1> QED
  BY <1>2, <1>3

-----------------------------------------------------------------------------
(* The first state *)

LEMMA EmptyIs ==
  ASSUME Names
  PROVE  LET L(i) == Leaf(Inf + i) IN
         /\ Empty = [key |-> Empty.key, edge |-> Empty.edge]
         /\ Made(Empty) = {R, S, L(0), L(1), L(2)} /\ \A n \in Made(Empty) : Empty.key[n] = Inf
         /\ Empty.edge = [e \in {R, S} \X Sides |-> Empty.edge[e]]
         /\ Empty.edge[<<R, "L">>] = Edge(S) /\ Empty.edge[<<R, "R">>] = Edge(L(2))
         /\ Empty.edge[<<S, "L">>] = Edge(L(0)) /\ Empty.edge[<<S, "R">>] = Edge(L(1))
<1>1. /\ Empty.key = [n \in {R, S} \cup {Leaf(Inf + i) : i \in 0 .. 2} |-> Inf]
      /\ Empty.edge = [e \in {R, S} \X Sides |->
           CASE e = <<R, "L">> -> Edge(S)         [] e = <<R, "R">> -> Edge(Leaf(Inf + 2))
             [] e = <<S, "L">> -> Edge(Leaf(Inf)) [] e = <<S, "R">> -> Edge(Leaf(Inf + 1))]
      /\ Empty = [key |-> Empty.key, edge |-> Empty.edge]
  BY DEF Empty, Sides
<1>2. {Leaf(Inf + i) : i \in 0 .. 2} = {Leaf(Inf + 0), Leaf(Inf + 1), Leaf(Inf + 2)}
  BY SMT
<1>3. Leaf(Inf + 0) = Leaf(Inf)
  BY DEF Names
<1>4. /\ Empty.edge[<<R, "L">>] = Edge(S) /\ Empty.edge[<<R, "R">>] = Edge(Leaf(Inf + 2))
      /\ Empty.edge[<<S, "L">>] = Edge(Leaf(Inf)) /\ Empty.edge[<<S, "R">>] = Edge(Leaf(Inf + 1))
  BY <1>1, RootsAre DEF Sides
<1> QED
  BY <1>1, <1>2, <1>3, <1>4 DEF Made

LEMMA EmptyTree ==
  ASSUME Names
  PROVE  /\ TreeInv(Empty)
         /\ \A n \in Inners(Empty), s \in Sides : ~Marked(Empty, n, s)
         /\ \A k \in Keys : Value(Empty, k) = None
         /\ \A v : Leaf(v) \in Made(Empty) \/ Inner(v) \in Made(Empty) => v \in Nat /\ v \notin Keys
<1> DEFINE L(i) == Leaf(Inf + i)
           H == Empty
<1>1. /\ H = [key |-> H.key, edge |-> H.edge]
      /\ Made(H) = {R, S, L(0), L(1), L(2)} /\ \A n \in Made(H) : H.key[n] = Inf
      /\ H.edge = [e \in {R, S} \X Sides |-> H.edge[e]]
      /\ H.edge[<<R, "L">>] = Edge(S) /\ H.edge[<<R, "R">>] = Edge(L(2))
      /\ H.edge[<<S, "L">>] = Edge(L(0)) /\ H.edge[<<S, "R">>] = Edge(L(1))
  BY EmptyIs
<1>2. /\ L(0) \notin {R, S} /\ L(1) \notin {R, S} /\ L(2) \notin {R, S} /\ R # S
      /\ L(0) # L(1) /\ L(0) # L(2) /\ L(1) # L(2)
  <2>1. Inf + 0 # Inf + 1 /\ Inf + 0 # Inf + 2 /\ Inf + 1 # Inf + 2
    BY DEF Names
  <2> QED
    BY <2>1 DEF Leaf, R, S
<1>3. Inf \notin Keys
  BY DEF Names
<1>4. \A v : Leaf(v) \in Made(H) \/ Inner(v) \in Made(H) => v \in Nat /\ v \notin Keys
  <2>1. Inf + 0 \in Nat \ Keys /\ Inf + 1 \in Nat \ Keys /\ Inf + 2 \in Nat \ Keys
    BY DEF Names
  <2> QED
    BY <1>1, <2>1 DEF Leaf, Inner, R, S
<1> HIDE DEF L, H
<1>5. \A n : Internal(H, n) <=> n \in {R, S}
  BY <1>1 DEF Internal, Sides
<1>6. Inners(H) = {R, S}
  BY <1>1, <1>5 DEF Inners
<1>7. \A i : Edge(i) = [to |-> i, flag |-> FALSE, tag |-> FALSE] /\ Edge(i).to = i
             /\ Edge(i).flag = FALSE /\ Edge(i).tag = FALSE
  BY DEF Edge
<1>8. /\ To(H, R, "L") = S /\ To(H, R, "R") = L(2) /\ To(H, S, "L") = L(0) /\ To(H, S, "R") = L(1)
      /\ \A n \in {R, S}, s \in Sides : ~Flagged(H, n, s) /\ ~Tagged(H, n, s)
  BY <1>1, <1>7 DEF To, Flagged, Tagged, Sides
<1>9. Shape(H)
  <2>1. \A i \in Made(H) : Edge(i) \in [to : Made(H), flag : BOOLEAN, tag : BOOLEAN]
    BY DEF Edge
  <2>2. \A n \in {R, S} : \A s \in Sides : H.edge[<<n, s>>] \in [to : Made(H), flag : BOOLEAN, tag : BOOLEAN]
    BY <1>1, <2>1 DEF Sides
  <2>3. DOMAIN H.edge = {R, S} \X Sides /\ H.edge = [e \in DOMAIN H.edge |-> H.edge[e]]
    BY <1>1
  <2> QED
    BY <1>1, <1>6, <2>2, <2>3 DEF Shape
<1>10. Rooted(H)
  BY <1>1, <1>2, <1>5, <1>6, <1>8 DEF Rooted, Sides
<1>11. AtTop(H)
  BY <1>1, <1>2, <1>5, <1>8 DEF AtTop
<1>12. Single(H)
  BY <1>2, <1>5, <1>8 DEF Single, Sides
<1>13. OnPath(H) /\ LeavesNamed(H)
  BY <1>1, <1>3, <1>9, PathBelow DEF OnPath, LeavesNamed
<1>14. MarksOK(H)
  BY <1>6, <1>8 DEF MarksOK
<1>15. Founded(H)
  BY <1>2, <1>6, <1>8 DEF Founded, Sides
<1>16. TreeInv(H)
  BY <1>9, <1>10, <1>11, <1>12, <1>13, <1>14, <1>15 DEF TreeInv
<1>17. \A n \in Inners(H), s \in Sides : ~Marked(H, n, s)
  BY <1>6, <1>8 DEF Marked
<1>18. ASSUME NEW k \in Keys PROVE Value(H, k) = None
  <2>1. End(H, k) \in Made(H)
    BY <1>9, <1>15, EndIs, PathBelow
  <2> QED
    BY <1>1, <1>3, <2>1 DEF Value
<1> QED
  BY <1>4, <1>16, <1>17, <1>18 DEF H

LEMMA Least ==
  ASSUME NEW T \in SUBSET Nat, T # {}
  PROVE  \E x \in T : \A y \in T : x <= y
<1> DEFINE Less == OpToRel(<, Nat)
<1>1. IsWellFoundedOn(Less, Nat)
  BY NatLessThanWellFounded
<1>2. PICK x \in T : \A y \in T : ~(<<y, x>> \in Less)
  <2> HIDE DEF Less
  <2> QED
    BY <1>1, WFMin
<1>3. \A y \in T : ~(y < x)
  BY <1>2 DEF OpToRel
<1> QED
  BY <1>3

\* The trees on the way to Filled(order, size).
Filling(order, size, f) ==
  f = [i \in 0 .. size |->
        IF i = 0 THEN Empty
        ELSE LET h == f[i - 1]
                 k == order[i]
             IN Grown(h, EdgeTo(h, k), End(h, k), k, k)]

LEMMA FillingIs ==
  ASSUME NEW order, NEW size \in Nat
  PROVE  \E f : Filling(order, size, f) /\ Filled(order, size) = f[size]
<1> DEFINE Next2(h, k) == Grown(h, EdgeTo(h, k), End(h, k), k, k)
           Eq(n, f) == f = [i \in 0 .. n |-> IF i = 0 THEN Empty ELSE Next2(f[i - 1], order[i])]
           Failed == {n \in Nat : ~\E f : Eq(n, f)}
<1>1. ASSUME Failed # {} PROVE FALSE
  <2>1. PICK n \in Failed : \A m \in Failed : n <= m
    BY <1>1, Least
  <2>2. CASE n = 0
    <3> DEFINE g == [i \in 0 .. 0 |-> Empty]
    <3>1. \A i \in 0 .. 0 : i = 0
      OBVIOUS
    <3>2. Eq(0, g)
      BY <3>1
    <3> QED
      BY <2>1, <2>2, <3>2
  <2>3. CASE n # 0
    <3>1. n - 1 \in Nat /\ n - 1 \notin Failed
      BY <2>1, <2>3
    <3>2. PICK f : Eq(n - 1, f)
      BY <3>1
    <3> HIDE DEF Next2
    <3> DEFINE g == [i \in 0 .. n |-> IF i = n THEN Next2(f[n - 1], order[n]) ELSE f[i]]
    <3>3. \A i \in 0 .. n - 1 : f[i] = IF i = 0 THEN Empty ELSE Next2(f[i - 1], order[i])
      BY <3>1, <3>2
    <3>4. \A i \in 0 .. n - 1 : i \in 0 .. n /\ i # n /\ g[i] = f[i]
      BY <2>3, <3>1
    <3>5. g[n] = Next2(f[n - 1], order[n])
      BY <2>1
    <3>6. n - 1 \in 0 .. n - 1
      BY <3>1
    <3>7. ASSUME NEW i \in 0 .. n
          PROVE  g[i] = IF i = 0 THEN Empty ELSE Next2(g[i - 1], order[i])
      <4>1. CASE i = n
        BY <2>3, <3>4, <3>5, <3>6, <4>1
      <4>2. CASE i # n /\ i # 0
        <5>1. i \in 0 .. n - 1 /\ i - 1 \in 0 .. n - 1
          BY <2>1, <4>2
        <5> QED
          BY <3>3, <3>4, <4>2, <5>1
      <4>3. CASE i # n /\ i = 0
        <5>1. i \in 0 .. n - 1
          BY <2>1, <4>3
        <5> QED
          BY <3>3, <3>4, <4>3, <5>1
      <4> QED
        BY <4>1, <4>2, <4>3
    <3>8. Eq(n, g)
      BY <3>7
    <3> QED
      BY <2>1, <3>8
  <2> QED
    BY <2>2, <2>3
<1>2. \E f : Eq(size, f)
  BY <1>1
<1> DEFINE f1 == CHOOSE f : Eq(size, f)
<1>3. Eq(size, f1)
  BY <1>2
<1>4. Filled(order, size) = f1[size]
  BY DEF Filled
<1>5. Filling(order, size, f1)
  BY <1>3 DEF Filling
<1> QED
  BY <1>4, <1>5

\* The keys order[1] ... order[i] are in tree H, which has no marks.
Seeded(order, i, H) ==
  /\ TreeInv(H) /\ \A n \in Inners(H), s \in Sides : ~Marked(H, n, s)
  /\ \A k \in Keys : Value(H, k) = IF \E x \in 1 .. i : order[x] = k THEN k ELSE None
  /\ \A v : Leaf(v) \in Made(H) \/ Inner(v) \in Made(H) =>
              v \in Nat /\ (v \in Keys => \E x \in 1 .. i : order[x] = v)

LEMMA SeededNext ==
  ASSUME Names, NEW order, NEW i \in Nat, NEW H, Seeded(order, i, H), NEW k \in Keys,
         order[i + 1] = k, ~\E x \in 1 .. i : order[x] = k,
         NEW H2, H2 = Grown(H, EdgeTo(H, k), End(H, k), k, k)
  PROVE  Seeded(order, i + 1, H2)
<1>1. TreeInv(H) /\ Shape(H) /\ Founded(H) /\ Value(H, k) = None
      /\ Leaf(k) \notin Made(H) /\ Inner(k) \notin Made(H)
  BY DEF Seeded, TreeInv
<1>2. PICK p \in Path(H, k) : /\ Internal(H, p) /\ EdgeTo(H, k) = <<p, Side(H, p, k)>>
                              /\ End(H, k) = Child(H, p, k)
  BY <1>1, EndIs
<1>3. ~Internal(H, End(H, k)) /\ H.key[End(H, k)] # k
  BY <1>1, EndIs, ValueIs
<1>4. p \in Inners(H) /\ Side(H, p, k) \in Sides
  BY <1>1, <1>2, PathBelow, SidesAre DEF Inners
<1>5. ~Marked(H, p, Side(H, p, k))
  BY <1>4 DEF Seeded
<1>6. Shape(H2) /\ Grows(H, H2, k, p, End(H, k), Inner(k), Leaf(k))
  <2> DEFINE m == End(H, k)
             e == EdgeTo(H, k)
  <2>1. m = Child(H, p, k) /\ e = <<p, Side(H, p, k)>> /\ H2 = Grown(H, e, m, k, k)
    BY <1>2
  <2> HIDE DEF m, e
  <2>2. ~Internal(H, m) /\ H.key[m] # k
    BY <1>3 DEF m
  <2>3. H2 = Grown(H, <<p, Side(H, p, k)>>, m, k, k)
    BY <2>1
  <2>4. Shape(H2) /\ Grows(H, H2, k, p, m, Inner(k), Leaf(k))
    BY <1>1, <1>2, <1>5, <2>1, <2>2, <2>3, GrownIs
  <2> QED
    BY <2>4 DEF m
<1>7. /\ TreeInv(H2) /\ Value(H2, k) = Leaf(k)[2]
      /\ \A j \in Keys : j # k => Value(H2, j) = Value(H, j)
  BY <1>1, <1>6, GrowsTree, GrowsValues
<1>8. Leaf(k)[2] = k
  BY DEF Leaf
<1>9. \A x : x \in 1 .. i + 1 <=> x \in 1 .. i \/ x = i + 1
  OBVIOUS
<1>10. \A j \in Keys : Value(H2, j) = IF \E x \in 1 .. i + 1 : order[x] = j THEN j ELSE None
  BY <1>7, <1>8, <1>9 DEF Seeded
<1>11. ASSUME NEW n \in Inners(H2), NEW s \in Sides PROVE ~Marked(H2, n, s)
  <2>1. CASE n = Inner(k)
    BY <1>6, <2>1 DEF Grows
  <2>2. CASE n # Inner(k)
    <3>1. n \in Inners(H)
      BY <1>6, <2>2 DEF Grows, Inners
    <3>2. CASE n = p /\ s = Side(H, p, k)
      BY <1>6, <3>2 DEF Grows
    <3>3. CASE n # p \/ s # Side(H, p, k)
      <4>1. ~Flagged(H, n, s) /\ ~Tagged(H, n, s)
        BY <3>1 DEF Seeded, Marked
      <4>2. ~Flagged(H2, n, s) /\ ~Tagged(H2, n, s)
        BY <1>6, <3>1, <3>3, <4>1 DEF Grows
      <4> QED
        BY <4>2 DEF Marked
    <3> QED
      BY <3>2, <3>3
  <2> QED
    BY <2>1, <2>2
<1>12. ASSUME NEW v, Leaf(v) \in Made(H2) \/ Inner(v) \in Made(H2)
       PROVE  v \in Nat /\ (v \in Keys => \E x \in 1 .. i + 1 : order[x] = v)
  <2>1. Made(H2) = Made(H) \cup {Inner(k), Leaf(k)}
    BY <1>6 DEF Grows
  <2>2. v = k \/ Leaf(v) \in Made(H) \/ Inner(v) \in Made(H)
    BY <1>12, <2>1 DEF Leaf, Inner
  <2>3. k \in Nat
    BY DEF Names
  <2> QED
    BY <1>9, <2>2, <2>3 DEF Seeded
<1> QED
  BY <1>7, <1>10, <1>11, <1>12 DEF Seeded

LEMMA FilledSeeded ==
  ASSUME Names, NEW size \in Nat, NEW order \in [1 .. size -> Keys],
         \A i, j \in 1 .. size : order[i] = order[j] => i = j
  PROVE  Seeded(order, size, Filled(order, size))
<1>1. PICK f : Filling(order, size, f) /\ Filled(order, size) = f[size]
  BY FillingIs
<1> DEFINE Failed == {i \in 0 .. size : ~Seeded(order, i, f[i])}
<1>2. \A i \in 0 .. size :
        f[i] = IF i = 0 THEN Empty
               ELSE Grown(f[i - 1], EdgeTo(f[i - 1], order[i]), End(f[i - 1], order[i]), order[i], order[i])
  BY <1>1 DEF Filling
<1>3. ASSUME Failed # {} PROVE FALSE
  <2>1. PICK n \in Failed : \A m \in Failed : n <= m
    <3>1. Failed \in SUBSET Nat
      OBVIOUS
    <3> HIDE DEF Failed
    <3> QED
      BY <1>3, <3>1, Least
  <2>2. CASE n = 0
    <3>1. f[0] = Empty
      BY <1>2
    <3>2. 1 .. 0 = {}
      OBVIOUS
    <3>3. Seeded(order, 0, Empty)
      BY <3>2, EmptyTree DEF Seeded
    <3> QED
      BY <2>1, <2>2, <3>1, <3>3
  <2>3. CASE n # 0
    <3> DEFINE i == n - 1
               k == order[n]
    <3>1. i \in Nat /\ i + 1 = n /\ i \in 0 .. size /\ n \in 1 .. size /\ i \notin Failed
      BY <2>1, <2>3
    <3>2. Seeded(order, i, f[i]) /\ k \in Keys
      BY <3>1
    <3>3. f[n] = Grown(f[i], EdgeTo(f[i], k), End(f[i], k), k, k)
      BY <1>2, <2>1, <2>3
    <3>4. ~\E x \in 1 .. i : order[x] = k
      <4>1. \A x \in 1 .. i : x \in 1 .. size /\ x # n
        BY <3>1
      <4> QED
        BY <3>1, <4>1
    <3>5. order[i + 1] = k
      BY <3>1
    <3> HIDE DEF i, k
    <3>6. Seeded(order, i + 1, f[n])
      BY <3>1, <3>2, <3>3, <3>4, <3>5, SeededNext
    <3> QED
      BY <2>1, <3>1, <3>6
  <2> QED
    BY <2>2, <2>3
<1> QED
  BY <1>1, <1>3

LEMMA InitMade ==
  ASSUME Names, Init
  PROVE  TreeMade /\ Map!Init
<1>1. PICK size \in 0 .. Cardinality(Keys) : \E order \in [1 .. size -> Keys] :
        /\ \A i, j \in 1 .. size : order[i] = order[j] => i = j
        /\ heap = Filled(order, size)
  BY DEF Init
<1>2. PICK order \in [1 .. size -> Keys] :
        /\ \A i, j \in 1 .. size : order[i] = order[j] => i = j
        /\ heap = Filled(order, size)
  BY <1>1
<1>3. size \in Nat
  BY FS_CardinalityType DEF Names
<1>4. Seeded(order, size, heap)
  BY <1>2, <1>3, FilledSeeded
<1>5. /\ local = [t \in Threads |-> [pc |-> "idle", mine |-> None]]
      /\ call = [t \in Threads |-> None]
  BY DEF Init
<1>6. TreeInv(heap) /\ Shape(heap)
  BY <1>4 DEF Seeded, TreeInv
<1>7. \A n \in Below(heap, S), s \in Sides : Internal(heap, n) => ~Flagged(heap, n, s)
  BY <1>4, <1>6, PathBelow DEF Seeded, Inners, Marked
<1>8. \A u \in Threads : u \notin Nat
  BY DEF Names
<1>9. Unmade
  BY <1>4, <1>8 DEF Seeded, Unmade
<1>10. \A u \in Threads : ThreadOK(heap, u, local[u], call[u]) /\ local[u].mine = None
  BY <1>5 DEF ThreadOK
<1>11. TreeMade
  BY <1>5, <1>6, <1>7, <1>9, <1>10 DEF TreeMade, Owned, Apart
<1>12. Map!Init
  <2>1. Contents = [k \in Keys |-> Contents[k]]
    BY DEF Contents
  <2>2. \A k \in Keys : Contents[k] \in {k, None}
    BY <1>4, ContentsAre DEF Seeded
  <2>3. Contents \in [Keys -> Keys \cup {None}]
    BY <2>1, <2>2
  <2> QED
    BY <1>5, <2>2, <2>3 DEF Map!Init
<1> QED
  BY <1>11, <1>12

-----------------------------------------------------------------------------
(* The tree is a map *)

LEMMA NextMade ==
  ASSUME Names, TreeMade, Next
  PROVE  TreeMade' /\ Map!Next
<1>1. PICK t \in Threads : Begin(t) \/ Access(t)
  BY DEF Next
<1> QED
  BY <1>1, BeginMade, StartMade, SeekMade, InsertMade, ReturnMade, FlagMade, LookMade, TagMade, SpliceMade
  DEF Access

LEMMA StutterMade ==
  ASSUME TreeMade, UNCHANGED vars
  PROVE  TreeMade' /\ UNCHANGED <<Contents, call>>
<1>1. heap' = heap /\ local' = local /\ call' = call
  BY DEF vars
<1>2. TreeMade'
  BY <1>1 DEF TreeMade, Owned, Apart, Unmade
<1>3. Contents' = Contents
  BY <1>1 DEF Contents
<1> QED
  BY <1>1, <1>2, <1>3

LEMMA TreeInvariant ==
  ASSUME Names
  PROVE  Spec => []TreeMade
<1>1. TreeMade /\ [Next]_vars => TreeMade'
  BY NextMade, StutterMade
<1> QED
  BY <1>1, InitMade, PTL DEF Spec

\* The Natarajan-Mittal tree implements ConcurrentMap (natarajan_mittal_tree.rs):
\* whatever threads do at once, every call of get, insert and remove takes effect
\* at one moment between its beginning and its answer.
THEOREM TreeIsAMap ==
  ASSUME Names
  PROVE  Spec => IsMap
<1>1. TreeMade /\ [Next]_vars => [Map!Next]_<<Contents, call>>
  BY NextMade, StutterMade
<1> QED
  BY <1>1, InitMade, TreeInvariant, PTL DEF Spec, IsMap, Map!Spec

LEMMA BelowSplit ==
  ASSUME NEW H, Shape(H), NEW n \in Made(H)
  PROVE  Below(H, n) = IF Internal(H, n) THEN {n} \cup Below(H, To(H, n, "L")) \cup Below(H, To(H, n, "R"))
                       ELSE {n}
<1>1. n \in Below(H, n) /\ Below(H, n) \subseteq Made(H)
      /\ \A m \in Below(H, n), s \in Sides : Internal(H, m) => To(H, m, s) \in Below(H, n)
  BY BelowClosed
<1>2. CASE ~Internal(H, n)
  <2>1. {n} \in SUBSET Made(H) /\ ClosedBelow(H, {n})
    BY <1>2 DEF ClosedBelow
  <2>2. Below(H, n) \subseteq {n}
    BY <2>1 DEF Below
  <2> QED
    BY <1>1, <1>2, <2>2
<1>3. CASE Internal(H, n)
  <2> DEFINE a == To(H, n, "L")
             b == To(H, n, "R")
             C == {n} \cup Below(H, a) \cup Below(H, b)
  <2>1. a \in Made(H) /\ b \in Made(H) /\ a \in Below(H, n) /\ b \in Below(H, n)
    BY <1>1, <1>3 DEF Sides
  <2>2. /\ a \in Below(H, a) /\ Below(H, a) \subseteq Made(H)
        /\ b \in Below(H, b) /\ Below(H, b) \subseteq Made(H)
        /\ \A m \in Below(H, a), s \in Sides : Internal(H, m) => To(H, m, s) \in Below(H, a)
        /\ \A m \in Below(H, b), s \in Sides : Internal(H, m) => To(H, m, s) \in Below(H, b)
    BY <2>1, BelowClosed
  <2>3. C \in SUBSET Made(H) /\ ClosedBelow(H, C)
    BY <2>2 DEF ClosedBelow, Sides
  <2>4. Below(H, n) \subseteq C
    BY <2>3 DEF Below
  <2>5. Below(H, n) \in SUBSET Made(H) /\ ClosedBelow(H, Below(H, n))
    BY <1>1 DEF ClosedBelow, Sides
  <2>6. Below(H, a) \subseteq Below(H, n) /\ Below(H, b) \subseteq Below(H, n)
    BY <2>1, <2>5 DEF Below
  <2> QED
    BY <1>1, <1>3, <2>4, <2>6
<1> QED
  BY <1>2, <1>3

\* What Leaves is.
LEMMA LeavesAre ==
  ASSUME TreeInv(heap)
  PROVE  Leaves = {z \in Below(heap, R) : ~Internal(heap, z)}
<1> DEFINE lb(n) == {z \in Below(heap, n) : ~Internal(heap, z)}
           Eq(f) == f = [n \in DOMAIN heap.key |->
                          IF Internal(heap, n)
                          THEN f[heap.edge[<<n, "L">>].to] \cup f[heap.edge[<<n, "R">>].to]
                          ELSE {n}]
           f0 == [n \in Made(heap) |-> lb(n)]
<1>1. Shape(heap) /\ R \in Made(heap)
  BY DEF TreeInv, Rooted, Inners
<1>2. ASSUME NEW n \in Made(heap)
      PROVE  /\ Internal(heap, n) => /\ To(heap, n, "L") \in Made(heap) /\ To(heap, n, "R") \in Made(heap)
                                     /\ lb(n) = lb(To(heap, n, "L")) \cup lb(To(heap, n, "R"))
             /\ ~Internal(heap, n) => lb(n) = {n}
  <2>1. Internal(heap, n) => To(heap, n, "L") \in Made(heap) /\ To(heap, n, "R") \in Made(heap)
    BY <1>1, EdgeTypes DEF Sides
  <2> QED
    BY <1>1, <2>1, BelowSplit
<1> HIDE DEF lb
<1>3. Eq(f0)
  <2>1. \A n \in Made(heap) : f0[n] = lb(n)
    OBVIOUS
  <2>2. ASSUME NEW n \in Made(heap)
        PROVE  f0[n] = IF Internal(heap, n) THEN f0[To(heap, n, "L")] \cup f0[To(heap, n, "R")] ELSE {n}
    BY <1>2, <2>1
  <2>3. f0 = [n \in Made(heap) |->
               IF Internal(heap, n) THEN f0[To(heap, n, "L")] \cup f0[To(heap, n, "R")] ELSE {n}]
    BY <2>2
  <2> HIDE DEF f0
  <2> QED
    BY <2>3 DEF Made, To
<1> DEFINE f1 == CHOOSE f : Eq(f)
<1>4. Eq(f1)
  BY <1>3
<1>5. Leaves = f1[R]
  BY DEF Leaves
<1> HIDE DEF f1
<1>6. \A n \in Made(heap) :
        f1[n] = IF Internal(heap, n) THEN f1[To(heap, n, "L")] \cup f1[To(heap, n, "R")] ELSE {n}
  BY <1>4 DEF Made, To
<1> DEFINE Z == {n \in Inners(heap) : f1[n] # lb(n)}
<1>7. \A n \in Made(heap) \ Z : f1[n] = lb(n)
  BY <1>2, <1>6 DEF Inners
<1>8. ASSUME NEW n \in Z PROVE \E s \in Sides : To(heap, n, s) \in Z
  <2>1. n \in Made(heap) /\ Internal(heap, n) /\ f1[n] # lb(n)
    BY DEF Inners
  <2> HIDE DEF Z
  <2> QED
    BY <1>2, <1>6, <1>7, <2>1 DEF Sides
<1>9. Z = {}
  <2>1. Z \in SUBSET Inners(heap) /\ \A n \in Z : \E s \in Sides : To(heap, n, s) \in Z
    BY <1>8
  <2> HIDE DEF Z
  <2> QED
    BY <2>1 DEF TreeInv, Founded
<1>10. f1[R] = lb(R)
  BY <1>1, <1>7, <1>9
<1> QED
  BY <1>5, <1>10 DEF lb

LEMMA MadeSearchable ==
  ASSUME Names, TreeInv(heap)
  PROVE  Searchable
<1>1. /\ Shape(heap) /\ Founded(heap) /\ Rooted(heap) /\ OnPath(heap)
  BY DEF TreeInv
<1>2. /\ R \in Made(heap) /\ Internal(heap, R) /\ To(heap, R, "L") = S
      /\ ~Internal(heap, To(heap, R, "R")) /\ heap.key[To(heap, R, "R")] = Inf
  BY <1>1 DEF Rooted, Inners
<1>3. To(heap, R, "R") \in Made(heap)
  BY <1>1, <1>2, EdgeTypes DEF Sides
<1>4. Below(heap, R) = {R} \cup Below(heap, S) \cup {To(heap, R, "R")}
  BY <1>1, <1>2, <1>3, BelowSplit
<1>5. ASSUME NEW z \in Leaves, heap.key[z] \in Keys PROVE End(heap, heap.key[z]) = z
  <2>1. z \in Below(heap, R) /\ ~Internal(heap, z)
    BY LeavesAre
  <2>2. z \in Below(heap, S)
    BY <1>2, <1>4, <1>5, <2>1 DEF Names
  <2>3. z \in Path(heap, heap.key[z])
    BY <1>1, <1>5, <2>1, <2>2 DEF OnPath
  <2> QED
    BY <1>1, <1>5, <2>1, <2>3, EndIs
<1> QED
  BY <1>5 DEF Searchable

\* The part of the tree that can be reached is a search tree, with the removals
\* under way: a leaf with a key is where a search for its key ends, so that no
\* insertion or splice (natarajan_mittal_tree.rs) puts it where seek misses it.
THEOREM TreeSearchable ==
  ASSUME Names
  PROVE  Spec => []Searchable
<1>1. TreeMade => Searchable
  BY MadeSearchable DEF TreeMade
<1> QED
  BY <1>1, TreeInvariant, PTL

-----------------------------------------------------------------------------
(* Statics *)

\* Thread u with call c has got g, and the contents C keep it.
Kept(C, u, c, g) ==
  IF c = None THEN g = None
  ELSE /\ c \in Map!Calls /\ c.op \in {"get", "insert"}
       /\ c.took # None => c.op = "insert" /\ c.took = u /\ C[c.key] # None
       /\ \A v \in c.seen : v # None => C[c.key] = v
       /\ c.answer # Pending => IF c.op = "get" THEN c.answer \in c.seen ELSE C[c.key] # None
       /\ g # None => c.op = "get" /\ c.answer = g /\ g # Pending

\* A thread that has inserted does not get None any more.
Found(C, H, u, c) ==
  Leaf(u) \in Made(H) \/ Inner(u) \in Made(H) =>
    c # None /\ (c.op = "get" => None \notin c.seen /\ C[c.key] # None)

StaticsMade ==
  /\ TreeMade /\ got = [u \in Threads |-> got[u]]
  /\ \A u \in Threads : Kept(Contents, u, call[u], got[u]) /\ Found(Contents, heap, u, call[u])

LEMMA KeyStays ==
  ASSUME Shape(heap), NEW E2, heap' = [heap EXCEPT !.edge = E2]
  PROVE  Made(heap') = Made(heap)
<1> DEFINE K == heap.key
           E == heap.edge
<1>1. heap = [key |-> K, edge |-> E]
  BY DEF Shape
<1> SUFFICES heap'.key = K
  BY DEF Made
<1> HIDE DEF K, E
<1> QED
  BY <1>1

\* An access neither begins a call nor makes the nodes of a thread that does not
\* insert.
LEMMA AccessIs ==
  ASSUME Names, TreeMade, NEW t \in Threads, Access(t), NEW u \in Threads
  PROVE  /\ call[u] = None => call'[u] = None
         /\ Leaf(u) \in Made(heap') \/ Inner(u) \in Made(heap') =>
              \/ Leaf(u) \in Made(heap) \/ Inner(u) \in Made(heap)
              \/ call[u] # None /\ call[u].op = "insert"
<1> DEFINE l == local[t]
<1>1. ThreadOK(heap, t, l, call[t]) /\ Shape(heap) /\ call = [v \in Threads |-> call[v]]
  BY DEF TreeMade, TreeInv
<1>2. l.pc \notin {"idle", "done"} => call[t] # None
  BY <1>1, CallIs DEF ThreadOK, Held, Running
<1>3. \A r : Go(t, r) => call' = call
  BY DEF Go
<1>4. \A a : Answer(t, a) /\ call[t] # None => (call[u] = None => call'[u] = None)
  BY <1>1 DEF Answer
<1>5. \A takes : Map!Witnessed(u, takes) = call[u] \/ call[u] # None
  BY DEF Map!Witnessed, Map!Open
<1>6. \A r : Reached(t, r) /\ call[t] # None => (call[u] = None => call'[u] = None)
  BY <1>3, <1>4 DEF Reached
<1>7. CASE Start(t) \/ Seek(t)
  <2>1. heap' = heap /\ call[t] # None
    BY <1>2, <1>7 DEF Start, Seek
  <2> QED
    BY <1>6, <1>7, <2>1 DEF Start, Seek
<1>8. Conflict(t) => call' = call
  BY <1>3 DEF Conflict, Retry
<1>9. CASE Insert(t)
  <2>1. l.pc = "link"
    BY <1>9 DEF Insert
  <2>2. call[t] # None /\ call[t].op = "insert"
    BY <1>1, <1>2, <2>1 DEF ThreadOK
  <2>3. CASE heap.edge[l.edge] = Edge(l.leaf)
    <3>1. call' = [v \in Threads |-> Map!Witnessed(v, [w \in {t} |-> call[t].key])]
          /\ heap' = Grown(heap, l.edge, l.leaf, t, call[t].key)
      BY <1>9, <2>3 DEF Insert
    <3>2. call[u] = None => call'[u] = None
      BY <1>5, <3>1
    <3>3. Made(heap') = Made(heap) \cup {Leaf(t), Inner(t)}
      BY <3>1 DEF Grown, Made
    <3>4. u # t => Leaf(u) # Leaf(t) /\ Inner(u) # Inner(t) /\ Leaf(u) # Inner(t) /\ Inner(u) # Leaf(t)
      BY DEF Leaf, Inner
    <3> QED
      BY <2>2, <3>2, <3>3, <3>4
  <2>4. CASE heap.edge[l.edge] # Edge(l.leaf)
    BY <1>8, <1>9, <2>4 DEF Insert
  <2> QED
    BY <2>3, <2>4
<1>10. CASE Return(t)
  <2>1. heap' = heap /\ call[t] # None /\ Answer(t, t)
    BY <1>2, <1>10 DEF Return
  <2> QED
    BY <1>4, <2>1
<1>11. CASE Flag(t)
  <2>1. CASE heap.edge[l.edge] = Edge(l.leaf)
    <3>1. heap' = [heap EXCEPT !.edge = [heap.edge EXCEPT ![l.edge].flag = TRUE]] /\ call' = call
      BY <1>3, <1>11, <2>1 DEF Flag
    <3> QED
      BY <1>1, <3>1, KeyStays
  <2>2. CASE heap.edge[l.edge] # Edge(l.leaf)
    BY <1>8, <1>11, <2>2 DEF Flag
  <2> QED
    BY <2>1, <2>2
<1>12. CASE Look(t)
  BY <1>3, <1>12 DEF Look
<1>13. CASE Tag(t)
  <2>1. heap' = [heap EXCEPT !.edge = [heap.edge EXCEPT ![l.edge].tag = TRUE]] /\ call' = call
    BY <1>3, <1>13 DEF Tag
  <2> QED
    BY <1>1, <2>1, KeyStays
<1>14. CASE Splice(t)
  <2>1. call[t] # None
    BY <1>2, <1>14 DEF Splice
  <2>2. CASE heap.edge[l.above] = Edge(l.successor)
    <3> DEFINE x == heap.edge[l.edge]
    <3>1. /\ heap' = [heap EXCEPT !.edge = [heap.edge EXCEPT ![l.above] = [Edge(x.to) EXCEPT !.flag = x.flag]]]
          /\ call' = [v \in Threads |->
               LET now == Map!Witnessed(v, Removed)
               IN IF v = t /\ l.mine # None THEN [now EXCEPT !.answer = l.mine[2]] ELSE now]
      BY <1>14, <2>2 DEF Splice
    <3>2. call[u] = None => call'[u] = None
      BY <1>5, <2>1, <3>1
    <3>3. Made(heap') = Made(heap)
      BY <1>1, <3>1, KeyStays
    <3> QED
      BY <3>2, <3>3
  <2>3. CASE heap.edge[l.above] # Edge(l.successor)
    BY <1>3, <1>14, <2>3 DEF Splice, Retry
  <2> QED
    BY <2>2, <2>3
<1> QED
  BY <1>7, <1>9, <1>10, <1>11, <1>12, <1>13, <1>14 DEF Access

\* A step of the map, when no one removes.
LEMMA KeptKeeps ==
  ASSUME Names, StaticsMade, TreeMade', Map!Next, UNCHANGED got,
         \A u \in Threads : call[u] = None => call'[u] = None
  PROVE  /\ \A k \in Keys : Contents[k] # None => Contents'[k] = Contents[k]
         /\ \A u \in Threads : Kept(Contents', u, call'[u], got'[u])
         /\ \A u \in Threads : call[u] # None =>
              /\ call'[u] # None /\ call'[u].op = call[u].op /\ call'[u].key = call[u].key
              /\ None \notin call[u].seen /\ Contents[call[u].key] # None => None \notin call'[u].seen
<1>1. PICK D \in SUBSET Map!Untaken : \E takes \in [D -> Keys] : Map!Step(takes)
  BY DEF Map!Next
<1>2. PICK takes \in [D -> Keys] : Map!Step(takes)
  BY <1>1
<1>3. Map!CanTake(takes) /\ Contents' = Map!Changed(takes) /\ DOMAIN takes = D
  BY <1>2 DEF Map!Step
<1>4. \A u \in Threads : Kept(Contents, u, call[u], got[u])
  BY DEF StaticsMade
<1>5. ASSUME NEW u \in D
      PROVE  /\ u \in Threads /\ Map!Open(u) /\ call[u].took = None /\ call[u].op = "insert"
             /\ call[u] # None /\ call[u] \in Map!Calls /\ takes[u] = call[u].key /\ takes[u] \in Keys
             /\ Contents[takes[u]] = None
  <2>1. u \in Threads /\ Map!Open(u) /\ call[u].took = None /\ call[u].op # "get"
    BY DEF Map!Untaken
  <2>2. call[u] # None
    BY <2>1 DEF Map!Open
  <2>3. call[u].op = "insert" /\ call[u] \in Map!Calls
    BY <1>4, <2>1, <2>2 DEF Kept
  <2> QED
    BY <1>3, <2>1, <2>2, <2>3 DEF Map!CanTake
<1>6. ASSUME NEW k \in Keys
      PROVE  Contents'[k] = IF \E u \in D : takes[u] = k THEN CHOOSE u \in D : takes[u] = k
                            ELSE Contents[k]
  <2>1. CASE \E u \in D : takes[u] = k
    <3> DEFINE w == CHOOSE u \in D : takes[u] = k
    <3>1. w \in D
      BY <2>1
    <3>2. call[w].op = "insert"
      BY <1>5, <3>1
    <3> QED
      BY <1>3, <2>1, <3>2 DEF Map!Changed
  <2>2. CASE ~\E u \in D : takes[u] = k
    BY <1>3, <2>2 DEF Map!Changed
  <2> QED
    BY <2>1, <2>2
<1>7. ASSUME NEW k \in Keys, Contents[k] # None
      PROVE  Contents'[k] = Contents[k]
  BY <1>5, <1>6, <1>7
<1>8. ASSUME NEW u \in D
      PROVE  Contents'[call[u].key] = u
  <2>1. \A v \in D : takes[v] = takes[u] => v = u
    BY <1>3 DEF Map!CanTake
  <2>2. (CHOOSE v \in D : takes[v] = takes[u]) = u
    BY <2>1
  <2> QED
    BY <1>5, <1>6, <2>2
<1>9. ASSUME NEW u \in Threads, call[u] # None
      PROVE  /\ call'[u] # None /\ call'[u].op = call[u].op /\ call'[u].key = call[u].key
             /\ None \notin call[u].seen /\ Contents[call[u].key] # None => None \notin call'[u].seen
             /\ Kept(Contents', u, call'[u], got'[u])
  <2> DEFINE c == call[u]
             g == got[u]
             C == Contents
             C2 == Contents'
             now == Map!Witnessed(u, takes)
  <2>1. /\ c \in Map!Calls /\ c.op \in {"get", "insert"} /\ c.key \in Keys
        /\ c.took # None => c.op = "insert" /\ c.took = u /\ C[c.key] # None
        /\ \A v \in c.seen : v # None => C[c.key] = v
        /\ c.answer # Pending => IF c.op = "get" THEN c.answer \in c.seen ELSE C[c.key] # None
        /\ g # None => c.op = "get" /\ c.answer = g /\ g # Pending
    BY <1>4, <1>9, CallIs DEF Kept
  <2>2. C[c.key] # None => C2[c.key] = C[c.key]
    BY <1>7, <2>1
  <2>3. g = got'[u] /\ u # None
    BY DEF Names
  <2>4. C2[c.key] \in Keys \cup Threads \cup {None}
    BY <2>1, ContentsAre, ValueIs DEF TreeMade
  <2> HIDE DEF C, C2
  <2>5. /\ now \in Map!Calls /\ now.op = c.op /\ now.key = c.key /\ now.answer = c.answer
        /\ now.took # None => now.op = "insert" /\ now.took = u /\ C2[c.key] # None
        /\ \A v \in now.seen : v # None => C2[c.key] = v
        /\ None \notin c.seen /\ C[c.key] # None => None \notin now.seen
        /\ c.seen \subseteq now.seen
    <3>1. CASE ~Map!Open(u) \/ c.took # None
      <4>1. now = c
        BY <3>1 DEF Map!Witnessed
      <4> QED
        BY <2>1, <2>2, <4>1
    <3>2. CASE u \in D
      <4>1. now = [c EXCEPT !.took = u] /\ C2[c.key] = u
        BY <1>3, <1>5, <1>8, <3>2 DEF Map!Witnessed, C2
      <4>2. /\ now \in Map!Calls /\ now.op = c.op /\ now.key = c.key /\ now.answer = c.answer
            /\ now.took = u /\ now.seen = c.seen
        BY <2>1, <4>1, CallWith
      <4>3. C[c.key] = None
        BY <1>5, <3>2 DEF C
      <4> QED
        BY <1>5, <2>1, <2>3, <3>2, <4>1, <4>2, <4>3
    <3>3. CASE Map!Open(u) /\ c.took = None /\ u \notin D
      <4> DEFINE v == C2[c.key]
      <4>1. now = [c EXCEPT !.seen = c.seen \cup {v}]
        BY <1>3, <2>1, <3>3 DEF Map!Witnessed, Map!Sight, C2
      <4> HIDE DEF v
      <4>2. /\ now \in Map!Calls /\ now.op = c.op /\ now.key = c.key /\ now.answer = c.answer
            /\ now.took = c.took /\ now.seen = c.seen \cup {v}
        BY <2>1, <2>4, <4>1, CallWith DEF v
      <4> QED
        BY <2>1, <2>2, <3>3, <4>2 DEF v
    <3> QED
      BY <3>1, <3>2, <3>3
  <2>6. \/ call'[u] = now
        \/ /\ Map!Open(u)
           /\ \E a \in Map!Values \cup {None} : Map!Permitted(now, a) /\ call'[u] = [now EXCEPT !.answer = a]
    BY <1>2, <1>9 DEF Map!Step
  <2> HIDE DEF now
  <2>7. CASE call'[u] = now
    <3>1. now # None
      BY <2>5, CallIs
    <3>2. now.answer # Pending => IF now.op = "get" THEN now.answer \in now.seen ELSE C2[now.key] # None
      BY <2>1, <2>2, <2>5
    <3>3. Kept(C2, u, now, g)
      BY <2>1, <2>5, <3>1, <3>2 DEF Kept
    <3> QED
      BY <2>3, <2>5, <2>7, <3>1, <3>3 DEF C, C2
  <2>8. ASSUME Map!Open(u), NEW a \in Map!Values \cup {None}, Map!Permitted(now, a),
               call'[u] = [now EXCEPT !.answer = a]
        PROVE  /\ call'[u] # None /\ call'[u].op = call[u].op /\ call'[u].key = call[u].key
               /\ None \notin call[u].seen /\ Contents[call[u].key] # None => None \notin call'[u].seen
               /\ Kept(Contents', u, call'[u], got'[u])
    <3> DEFINE d == call'[u]
    <3>1. /\ d \in Map!Calls /\ d.op = now.op /\ d.key = now.key /\ d.answer = a
          /\ d.took = now.took /\ d.seen = now.seen /\ d # None
      BY <2>5, <2>8, CallWith, CallIs DEF Map!Values
    <3>2. g = None
      <4>1. c.answer = Pending
        BY <2>8 DEF Map!Open
      <4> QED
        BY <2>1, <2>3, <4>1
    <3>3. IF d.op = "get" THEN a \in d.seen ELSE C2[d.key] # None
      <4>1. CASE now.op = "get"
        BY <2>8, <3>1, <4>1 DEF Map!Permitted
      <4>2. CASE now.op # "get"
        <5>1. /\ a = now.took
              /\ a = None => \E v \in now.seen : (v = None) <=> (now.op # "insert")
          BY <2>8, <4>2 DEF Map!Permitted
        <5>2. now.op = "insert"
          BY <2>1, <2>5, <4>2
        <5> QED
          BY <2>5, <3>1, <4>2, <5>1, <5>2
      <4> QED
        BY <4>1, <4>2
    <3>4. Kept(C2, u, d, None)
      BY <2>1, <2>5, <3>1, <3>3 DEF Kept
    <3> QED
      BY <2>3, <2>5, <3>1, <3>2, <3>4 DEF C, C2
  <2> QED
    BY <2>6, <2>7, <2>8
<1>10. ASSUME NEW u \in Threads, call[u] = None
       PROVE  Kept(Contents', u, call'[u], got'[u])
  BY <1>4, <1>10 DEF Kept
<1> QED
  BY <1>7, <1>9, <1>10

\* A thread whose call has been answered is not under way.
LEMMA AnsweredIs ==
  ASSUME Names, StaticsMade, NEW t \in Threads, NEW op, Answered(t, op)
  PROVE  /\ local[t].pc = "done" /\ call[t] \in Map!Calls /\ call[t].key \in Keys /\ call[t].op = op
         /\ call[t] # None /\ call[t].answer # Pending /\ got[t] = None
<1>1. call[t] # None /\ call[t].op = op /\ call[t].answer # Pending /\ got[t] = None
  BY DEF Answered
<1>2. ThreadOK(heap, t, local[t], call[t])
  BY DEF StaticsMade, TreeMade
<1>3. local[t].pc = "done" /\ call[t] \in Map!Calls
  BY <1>1, <1>2 DEF ThreadOK, Held, Running
<1> QED
  BY <1>1, <1>3, CallIs

\* A thread without a call, or with an answered one, begins the next.
LEMMA StartsMade ==
  ASSUME Names, StaticsMade, NEW t \in Threads, NEW op \in {"get", "insert"}, NEW k \in Keys,
         Starts(t, op, k), local[t].pc \in {"idle", "done"}, got[t] = None,
         Leaf(t) \in Made(heap) \/ Inner(t) \in Made(heap) => op = "get" /\ Contents[k] # None
  PROVE  StaticsMade'
<1> DEFINE c == Map!Fresh(op, k)
<1>1. /\ call' = [call EXCEPT ![t] = c] /\ heap' = heap /\ got' = got
      /\ local' = [local EXCEPT ![t] = [pc |-> "start", mine |-> None]]
  BY DEF Starts
<1>2. TreeMade' /\ Contents' = Contents
  BY <1>1, FreshMade DEF StaticsMade
<1>3. Contents[k] \in Keys \cup Threads \cup {None}
  BY ContentsAre, ValueIs DEF StaticsMade, TreeMade
<1>4. c = [op |-> op, key |-> k, seen |-> {Contents[k]}, took |-> None, answer |-> Pending]
  BY DEF Map!Fresh, Map!Sight
<1> HIDE DEF c
<1>5. /\ c \in Map!Calls /\ c.op = op /\ c.key = k /\ c.seen = {Contents[k]} /\ c.took = None
      /\ c.answer = Pending
  BY <1>3, <1>4 DEF Map!Calls, Map!Ops, Map!Values
<1>6. c # None
  BY <1>5, CallIs
<1>7. Kept(Contents, t, c, None) /\ Found(Contents, heap, t, c)
  BY <1>5, <1>6 DEF Kept, Found
<1>8. call'[t] = c /\ \A u \in Threads \ {t} : call'[u] = call[u]
  BY <1>1 DEF StaticsMade, TreeMade
<1> QED
  BY <1>1, <1>2, <1>7, <1>8 DEF StaticsMade

LEMMA StaticsStep ==
  ASSUME Names, StaticsMade, StaticsNext
  PROVE  StaticsMade'
<1>1. PICK t \in Threads : statics(t)
  BY DEF StaticsNext
<1>2. TreeMade /\ \A u \in Threads : Kept(Contents, u, call[u], got[u]) /\ Found(Contents, heap, u, call[u])
  BY DEF StaticsMade
<1>3. CASE Ask(t)
  <2>1. PICK id \in Keys : Starts(t, "get", id)
    BY <1>3 DEF Ask
  <2>2. call[t] = None
    BY <1>3 DEF Ask
  <2>3. ThreadOK(heap, t, local[t], None)
    BY <1>2, <2>2 DEF TreeMade
  <2>4. local[t].pc \in {"idle", "done"}
    BY <2>3, CallIs DEF ThreadOK, Held, Running
  <2>5. got[t] = None /\ Leaf(t) \notin Made(heap) /\ Inner(t) \notin Made(heap)
    BY <1>2, <2>2 DEF Kept, Found
  <2> QED
    BY <2>1, <2>4, <2>5, StartsMade
<1>4. CASE Use(t)
  <2>1. Answered(t, "get") /\ call[t].answer # None /\ UNCHANGED vars
        /\ got' = [got EXCEPT ![t] = call[t].answer]
    BY <1>4 DEF Use, vars
  <2>2. TreeMade' /\ Contents' = Contents /\ call' = call /\ heap' = heap
    BY <1>2, <2>1, StutterMade DEF vars
  <2>3. got'[t] = call[t].answer /\ (\A u \in Threads \ {t} : got'[u] = got[u]) /\ got' = [u \in Threads |-> got'[u]]
    BY <2>1 DEF StaticsMade
  <2>4. Kept(Contents, t, call[t], call[t].answer)
    BY <1>2, <2>1, AnsweredIs DEF Kept
  <2> QED
    BY <1>2, <2>2, <2>3, <2>4 DEF StaticsMade
<1>5. CASE Initialize(t)
  <2>1. Answered(t, "get") /\ call[t].answer = None /\ Starts(t, "insert", call[t].key)
    BY <1>5 DEF Initialize
  <2>2. /\ local[t].pc = "done" /\ call[t].key \in Keys /\ call[t].op = "get" /\ call[t] # None
        /\ call[t].answer # Pending /\ got[t] = None
    BY <2>1, AnsweredIs
  <2>3. None \in call[t].seen
    BY <1>2, <2>1, <2>2 DEF Kept
  <2>4. Leaf(t) \notin Made(heap) /\ Inner(t) \notin Made(heap)
    BY <1>2, <2>2, <2>3 DEF Found
  <2> QED
    BY <2>1, <2>2, <2>4, StartsMade
<1>6. CASE AskAgain(t)
  <2>1. Answered(t, "insert") /\ Starts(t, "get", call[t].key)
    BY <1>6 DEF AskAgain
  <2>2. /\ local[t].pc = "done" /\ call[t].key \in Keys /\ call[t].op = "insert" /\ call[t] # None
        /\ call[t].answer # Pending /\ got[t] = None
    BY <2>1, AnsweredIs
  <2>3. Contents[call[t].key] # None
    BY <1>2, <2>2 DEF Kept
  <2> QED
    BY <2>1, <2>2, <2>3, StartsMade
<1>7. CASE Access(t) /\ UNCHANGED got
  <2>1. TreeMade' /\ Map!Next
    BY <1>2, <1>7, StartMade, SeekMade, InsertMade, ReturnMade, FlagMade, LookMade, TagMade, SpliceMade
    DEF Access
  <2>2. \A u \in Threads :
          /\ call[u] = None => call'[u] = None
          /\ Leaf(u) \in Made(heap') \/ Inner(u) \in Made(heap') =>
               \/ Leaf(u) \in Made(heap) \/ Inner(u) \in Made(heap)
               \/ call[u] # None /\ call[u].op = "insert"
    BY <1>2, <1>7, AccessIs
  <2>3. /\ \A k \in Keys : Contents[k] # None => Contents'[k] = Contents[k]
        /\ \A u \in Threads : Kept(Contents', u, call'[u], got'[u])
        /\ \A u \in Threads : call[u] # None =>
              /\ call'[u] # None /\ call'[u].op = call[u].op /\ call'[u].key = call[u].key
              /\ None \notin call[u].seen /\ Contents[call[u].key] # None => None \notin call'[u].seen
    BY <1>7, <2>1, <2>2, KeptKeeps
  <2>4. ASSUME NEW u \in Threads PROVE Found(Contents', heap', u, call'[u])
    <3>1. SUFFICES ASSUME Leaf(u) \in Made(heap') \/ Inner(u) \in Made(heap')
                   PROVE  call'[u] # None
                          /\ (call'[u].op = "get" => None \notin call'[u].seen /\ Contents'[call'[u].key] # None)
      BY DEF Found
    <3>2. /\ call[u] # None
          /\ call[u].op = "get" => None \notin call[u].seen /\ Contents[call[u].key] # None
      BY <1>2, <2>2, <3>1 DEF Found
    <3>3. call[u].key \in Keys
      BY <1>2, <3>2, CallIs DEF Kept
    <3> QED
      BY <2>3, <3>2, <3>3
  <2>5. got' = [u \in Threads |-> got'[u]]
    BY <1>7 DEF StaticsMade
  <2> QED
    BY <2>1, <2>3, <2>4, <2>5 DEF StaticsMade
<1> QED
  BY <1>1, <1>3, <1>4, <1>5, <1>6, <1>7 DEF statics

LEMMA StaticsBegin ==
  ASSUME Names, StaticsInit
  PROVE  StaticsMade
<1>1. /\ heap = Empty /\ local = [t \in Threads |-> [pc |-> "idle", mine |-> None]]
      /\ call = [t \in Threads |-> None] /\ got = [t \in Threads |-> None]
  BY DEF StaticsInit
<1>2. TreeInv(heap) /\ Shape(heap) /\ \A n \in Inners(heap), s \in Sides : ~Marked(heap, n, s)
  BY <1>1, EmptyTree DEF TreeInv
<1>3. \A u \in Threads : Leaf(u) \notin Made(heap) /\ Inner(u) \notin Made(heap)
  BY <1>1, EmptyTree DEF Names
<1>4. \A n \in Below(heap, S), s \in Sides : Internal(heap, n) => ~Flagged(heap, n, s)
  BY <1>2, PathBelow DEF Inners, Marked
<1>5. \A u \in Threads : ThreadOK(heap, u, local[u], call[u]) /\ local[u].mine = None
  BY <1>1 DEF ThreadOK
<1>6. TreeMade
  BY <1>1, <1>2, <1>3, <1>4, <1>5 DEF TreeMade, Owned, Apart, Unmade
<1>7. \A u \in Threads : Kept(Contents, u, call[u], got[u]) /\ Found(Contents, heap, u, call[u])
  BY <1>1, <1>3 DEF Kept, Found
<1> QED
  BY <1>1, <1>6, <1>7 DEF StaticsMade

LEMMA StaticsStays ==
  ASSUME StaticsMade, UNCHANGED <<vars, got>>
  PROVE  StaticsMade'
<1>1. TreeMade' /\ Contents' = Contents /\ call' = call /\ heap' = heap /\ got' = got
  BY StutterMade DEF StaticsMade, vars
<1> QED
  BY <1>1 DEF StaticsMade

LEMMA MadeOne ==
  ASSUME StaticsMade
  PROVE  OneValue
<1> SUFFICES ASSUME NEW t \in Threads, got[t] # None
             PROVE  Contents[call[t].key] = got[t]
  BY DEF OneValue
<1>1. Kept(Contents, t, call[t], got[t])
  BY DEF StaticsMade
<1> QED
  BY <1>1 DEF Kept

\* statics of dyntls_host: whatever threads ask at once, everyone who got a value
\* got the one in the map, and it is never replaced.
THEOREM StaticsShared ==
  ASSUME Names
  PROVE  StaticsInit /\ [][StaticsNext]_<<vars, got>> => []OneValue
<1>1. StaticsMade /\ [StaticsNext]_<<vars, got>> => StaticsMade'
  BY StaticsStays, StaticsStep
<1> QED
  BY <1>1, StaticsBegin, MadeOne, PTL
=============================================================================
