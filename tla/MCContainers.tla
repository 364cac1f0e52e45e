---------------------------- MODULE MCContainers ----------------------------
(***************************************************************************)
(* The containers of SharedContainers, the skip list and the copy-on-write *)
(* tree, checked side by side.                                             *)
(***************************************************************************)
EXTENDS SharedContainers, TLC

CONSTANTS Head, MoreKeys, Top, Weight

Skip == INSTANCE SkipList WITH heap <- memory, local <- cursors, call <- calls
Bonsai == INSTANCE BonsaiTree WITH
  heap <- memory, local <- cursors, call <- calls, Keys <- MoreKeys

Symmetry == Permutations(Threads)

\* Buckets are interchangeable: the one of the first key may be any.
AnyBucket == heap.hash[CHOOSE k \in Keys : TRUE] = CHOOSE h \in Heads : TRUE

\* Bounds on the calls: two threads, or more of them if all use the same key.
Started == {t \in Threads : calls'[t] # None}
Two == Cardinality(Started) <= 2
SameKey == Cardinality({calls'[t].key : t \in Started}) = 1

ContainersInit ==
  /\ \/ SharedInit
     \/ Init /\ Resting /\ which = "skip" /\ Skip!Init /\ got = None
     \/ Init /\ Resting /\ which = "bonsai" /\ Bonsai!Init /\ got = None
  /\ AnyBucket

SkipNext ==
  /\ which = "skip"
  /\ \E t \in Threads : (Skip!Begin(t) /\ (Two \/ SameKey)) \/ Skip!Access(t)
BonsaiNext ==
  /\ which = "bonsai"
  /\ \E t \in Threads : (Bonsai!Begin(t) /\ Two) \/ Bonsai!Access(t)

ContainersNext ==
  \/ SharedNext
  \/ (SkipNext \/ BonsaiNext) /\ UNCHANGED <<which, vars, got>>

ContainersSpec == ContainersInit /\ [][ContainersNext]_<<which, vars, others>>

-----------------------------------------------------------------------------

\* The skip list implements the map, and its levels stay in the order of keys:
\* IsMap and Sorted of SkipList.
SkipIsMap ==
  /\ which = "skip" => Skip!Map!Init
  /\ [][which = "skip" => Skip!Map!Next]_others
  /\ [](which = "skip" => Skip!Sorted)

\* The copy-on-write tree implements it, and stays a search tree through the
\* rotations: IsMap and Searchable of BonsaiTree.
BonsaiIsMap ==
  /\ which = "bonsai" => Bonsai!Map!Init
  /\ [][which = "bonsai" => Bonsai!Map!Next]_others
  /\ [](which = "bonsai" => Bonsai!Searchable)
=============================================================================
