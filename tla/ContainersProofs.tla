-------------------------- MODULE ContainersProofs --------------------------
(***************************************************************************)
(* Proofs about the containers of SharedContainers, from those about each  *)
(* of them: for every set of threads, keys and buckets they keep their     *)
(* order, and implement the maps, the queue and the statics.               *)
(***************************************************************************)
EXTENDS SharedContainers, HarrisListProofs

TreeP == INSTANCE TreeProofs WITH heap <- memory, local <- cursors, call <- calls
QueueP == INSTANCE DoubleLinkProofs WITH heap <- memory, local <- cursors, call <- calls

-----------------------------------------------------------------------------
(* What Tree, Queue and Statics define, the modules of their proofs define *)
(* too.                                                                    *)

LEMMA TreeNames == TreeP!Names
BY HarrisListAssumption, ContainersAssumption, NoCallAssumption
DEF TreeP!Names, TreeP!Map!Calls, Map!Calls, TreeP!Map!Ops, Map!Ops, TreeP!Map!Values,
  Map!Values, TreeP!Leaf, Tree!Leaf, IsFiniteSet, TreeP!IsFiniteSet

LEMMA TreeBegins == Tree!Init => TreeP!Init
BY DEF
  Tree!Init, TreeP!Init, Tree!Filled, TreeP!Filled, Tree!Empty, TreeP!Empty, Tree!Cardinality,
  TreeP!Cardinality, Tree!Edge, TreeP!Edge, Tree!Leaf, TreeP!Leaf, Tree!Inner, TreeP!Inner,
  Tree!R, TreeP!R, Tree!S, TreeP!S, Tree!Internal, TreeP!Internal, Tree!Side, TreeP!Side,
  Tree!Other, TreeP!Other, Tree!Grown, TreeP!Grown, Tree!EdgeTo, TreeP!EdgeTo, Tree!End,
  TreeP!End

LEMMA TreeShows == Tree!Contents = TreeP!Contents
BY DEF
  Tree!Contents, TreeP!Contents, Tree!Edge, TreeP!Edge, Tree!Leaf, TreeP!Leaf, Tree!Inner,
  TreeP!Inner, Tree!R, TreeP!R, Tree!S, TreeP!S, Tree!Internal, TreeP!Internal, Tree!Side,
  TreeP!Side, Tree!Other, TreeP!Other, Tree!Grown, TreeP!Grown, Tree!EdgeTo, TreeP!EdgeTo,
  Tree!End, TreeP!End

LEMMA TreeSteps == Tree!Next => TreeP!Next
BY DEF
  Tree!Go, TreeP!Go, Tree!Retry, TreeP!Retry, Tree!Answer, TreeP!Answer, Tree!Reached,
  TreeP!Reached, Tree!Conflict, TreeP!Conflict, Tree!Begin, TreeP!Begin, Tree!Start, TreeP!Start,
  Tree!Seek, TreeP!Seek, Tree!Insert, TreeP!Insert, Tree!Return, TreeP!Return, Tree!Flag,
  TreeP!Flag, Tree!Look, TreeP!Look, Tree!Tag, TreeP!Tag, Tree!Removed, TreeP!Removed,
  Tree!Splice, TreeP!Splice, Tree!Access, TreeP!Access, Tree!Next, TreeP!Next, Tree!Contents,
  TreeP!Contents, Tree!Edge, TreeP!Edge, Tree!Leaf, TreeP!Leaf, Tree!Inner, TreeP!Inner, Tree!R,
  TreeP!R, Tree!S, TreeP!S, Tree!Internal, TreeP!Internal, Tree!Side, TreeP!Side, Tree!Other,
  TreeP!Other, Tree!Grown, TreeP!Grown, Tree!EdgeTo, TreeP!EdgeTo, Tree!End, TreeP!End,
  Tree!Map!Ops, TreeP!Map!Ops, Tree!Map!Sight, TreeP!Map!Sight, Tree!Map!Fresh, TreeP!Map!Fresh,
  Tree!Map!Open, TreeP!Map!Open, Tree!Map!Witnessed, TreeP!Map!Witnessed

LEMMA TreeMapBegins == TreeP!Map!Init => Tree!Map!Init
BY TreeShows DEF
  Tree!Map!Init, TreeP!Map!Init

LEMMA TreeMapSteps == TreeP!Map!Next => Tree!Map!Next
BY DEF
  Tree!Contents, TreeP!Contents, Tree!Edge, TreeP!Edge, Tree!Leaf, TreeP!Leaf, Tree!Inner,
  TreeP!Inner, Tree!R, TreeP!R, Tree!S, TreeP!S, Tree!Internal, TreeP!Internal, Tree!Side,
  TreeP!Side, Tree!Other, TreeP!Other, Tree!Grown, TreeP!Grown, Tree!EdgeTo, TreeP!EdgeTo,
  Tree!End, TreeP!End, Tree!Map!Ops, TreeP!Map!Ops, Tree!Map!Values, TreeP!Map!Values,
  Tree!Map!Calls, TreeP!Map!Calls, Tree!Map!Sight, TreeP!Map!Sight, Tree!Map!Fresh,
  TreeP!Map!Fresh, Tree!Map!Open, TreeP!Map!Open, Tree!Map!Permitted, TreeP!Map!Permitted,
  Tree!Map!Untaken, TreeP!Map!Untaken, Tree!Map!CanTake, TreeP!Map!CanTake, Tree!Map!Changed,
  TreeP!Map!Changed, Tree!Map!Witnessed, TreeP!Map!Witnessed, Tree!Map!Step, TreeP!Map!Step,
  Tree!Map!Next, TreeP!Map!Next

LEMMA TreeIsSearchable == TreeP!Searchable => Tree!Searchable
BY DEF
  Tree!Searchable, TreeP!Searchable, Tree!Leaves, TreeP!Leaves, Tree!Edge, TreeP!Edge, Tree!Leaf,
  TreeP!Leaf, Tree!Inner, TreeP!Inner, Tree!R, TreeP!R, Tree!S, TreeP!S, Tree!Internal,
  TreeP!Internal, Tree!Side, TreeP!Side, Tree!Other, TreeP!Other, Tree!Grown, TreeP!Grown,
  Tree!EdgeTo, TreeP!EdgeTo, Tree!End, TreeP!End

LEMMA QueueNames == QueueP!Names /\ None \notin QueueP!Fifo!Calls
BY HarrisListAssumption, ContainersAssumption
DEF QueueP!Names, QueueP!Fifo!Calls, Queue!Fifo!Calls, QueueP!Fifo!Ops, Queue!Fifo!Ops,
  IsFiniteSet, QueueP!IsFiniteSet

LEMMA QueueBegins == Queue!Init => QueueP!Init
BY DEF
  Queue!Init, QueueP!Init, Queue!Nodes, QueueP!Nodes

LEMMA QueueFifoBegins == QueueP!Fifo!Init => Queue!Fifo!Init
BY DEF
  Queue!Fifo!Init, QueueP!Fifo!Init, Queue!Cardinality, QueueP!Cardinality, Queue!Nodes,
  QueueP!Nodes, Queue!Lists, QueueP!Lists, Queue!Behind, QueueP!Behind, Queue!Items, QueueP!Items

LEMMA QueueSteps == Queue!Next => QueueP!Next
BY DEF
  Queue!Go, QueueP!Go, Queue!Answer, QueueP!Answer, Queue!After, QueueP!After, Queue!Store,
  QueueP!Store, Queue!Begin, QueueP!Begin, Queue!LoadTail, QueueP!LoadTail, Queue!Help,
  QueueP!Help, Queue!Mend, QueueP!Mend, Queue!Swing, QueueP!Swing, Queue!LinkTail,
  QueueP!LinkTail, Queue!LoadHead, QueueP!LoadHead, Queue!LoadNext, QueueP!LoadNext, Queue!Take,
  QueueP!Take, Queue!Access, QueueP!Access, Queue!Next, QueueP!Next, Queue!Cardinality,
  QueueP!Cardinality, Queue!Nodes, QueueP!Nodes, Queue!Lists, QueueP!Lists, Queue!Behind,
  QueueP!Behind, Queue!Items, QueueP!Items, Queue!Fifo!Ops, QueueP!Fifo!Ops, Queue!Fifo!Fresh,
  QueueP!Fifo!Fresh, Queue!Fifo!Open, QueueP!Fifo!Open, Queue!Fifo!Witnessed,
  QueueP!Fifo!Witnessed

LEMMA QueueFifoSteps == QueueP!Fifo!Next => Queue!Fifo!Next
BY DEF
  Queue!Cardinality, QueueP!Cardinality, Queue!Nodes, QueueP!Nodes, Queue!Lists, QueueP!Lists,
  Queue!Behind, QueueP!Behind, Queue!Items, QueueP!Items, Queue!Fifo!Ops, QueueP!Fifo!Ops,
  Queue!Fifo!Fresh, QueueP!Fifo!Fresh, Queue!Fifo!Open, QueueP!Fifo!Open, Queue!Fifo!Witnessed,
  QueueP!Fifo!Witnessed, Queue!Fifo!Permitted, QueueP!Fifo!Permitted, Queue!Fifo!Takes,
  QueueP!Fifo!Takes, Queue!Fifo!Step, QueueP!Fifo!Step, Queue!Fifo!Next, QueueP!Fifo!Next

LEMMA StaticsBegins == Statics!StaticsInit => TreeP!StaticsInit
BY DEF
  Statics!StaticsInit, TreeP!StaticsInit, Statics!Empty, TreeP!Empty, Statics!Edge, TreeP!Edge,
  Statics!Leaf, TreeP!Leaf, Statics!Inner, TreeP!Inner, Statics!R, TreeP!R, Statics!S, TreeP!S,
  Statics!Internal, TreeP!Internal, Statics!Side, TreeP!Side, Statics!Other, TreeP!Other,
  Statics!Grown, TreeP!Grown, Statics!EdgeTo, TreeP!EdgeTo, Statics!End, TreeP!End

LEMMA StaticsSteps == Statics!StaticsNext => TreeP!StaticsNext
BY DEF
  Statics!StaticsNext, TreeP!StaticsNext, Statics!statics, TreeP!statics, Statics!Starts,
  TreeP!Starts, Statics!Ask, TreeP!Ask, Statics!Answered, TreeP!Answered, Statics!Use, TreeP!Use,
  Statics!Initialize, TreeP!Initialize, Statics!AskAgain, TreeP!AskAgain, Statics!Go, TreeP!Go,
  Statics!Retry, TreeP!Retry, Statics!Answer, TreeP!Answer, Statics!Reached, TreeP!Reached,
  Statics!Conflict, TreeP!Conflict, Statics!Start, TreeP!Start, Statics!Seek, TreeP!Seek,
  Statics!Insert, TreeP!Insert, Statics!Return, TreeP!Return, Statics!Flag, TreeP!Flag,
  Statics!Look, TreeP!Look, Statics!Tag, TreeP!Tag, Statics!Removed, TreeP!Removed,
  Statics!Splice, TreeP!Splice, Statics!Access, TreeP!Access, Statics!Contents, TreeP!Contents,
  Statics!Edge, TreeP!Edge, Statics!Leaf, TreeP!Leaf, Statics!Inner, TreeP!Inner, Statics!R,
  TreeP!R, Statics!S, TreeP!S, Statics!Internal, TreeP!Internal, Statics!Side, TreeP!Side,
  Statics!Other, TreeP!Other, Statics!Grown, TreeP!Grown, Statics!EdgeTo, TreeP!EdgeTo,
  Statics!End, TreeP!End, Statics!Map!Ops, TreeP!Map!Ops, Statics!Map!Sight, TreeP!Map!Sight,
  Statics!Map!Fresh, TreeP!Map!Fresh, Statics!Map!Open, TreeP!Map!Open, Statics!Map!Witnessed,
  TreeP!Map!Witnessed

LEMMA StaticsShow == TreeP!OneValue => Statics!OneValue
BY DEF
  Statics!OneValue, TreeP!OneValue, Statics!Contents, TreeP!Contents, Statics!Edge, TreeP!Edge,
  Statics!Leaf, TreeP!Leaf, Statics!Inner, TreeP!Inner, Statics!R, TreeP!R, Statics!S, TreeP!S,
  Statics!Internal, TreeP!Internal, Statics!Side, TreeP!Side, Statics!Other, TreeP!Other,
  Statics!Grown, TreeP!Grown, Statics!EdgeTo, TreeP!EdgeTo, Statics!End, TreeP!End

-----------------------------------------------------------------------------
(* Every container keeps the invariant of its own proof. *)

SharedMade ==
  /\ ListInv
  /\ which = "tree" => TreeP!TreeMade
  /\ which = "queue" => QueueP!LinksInv
  /\ which = "statics" => TreeP!StaticsMade

LEMMA SharedBegins ==
  ASSUME SharedInit
  PROVE  /\ SharedMade /\ Map!Init
         /\ which = "tree" => Tree!Map!Init
         /\ which = "queue" => Queue!Fifo!Init
<1>1. ListInv /\ Map!Init
  BY InitIsInit DEF SharedInit
<1>2. ASSUME which = "tree" PROVE TreeP!TreeMade /\ Tree!Map!Init
  <2>1. TreeP!Init
    BY <1>2, TreeBegins DEF SharedInit, ListInit
  <2> QED
    BY <2>1, TreeNames, TreeP!InitMade, TreeMapBegins
<1>3. ASSUME which = "queue" PROVE QueueP!LinksInv /\ Queue!Fifo!Init
  <2>1. QueueP!Init
    BY <1>3, QueueBegins DEF SharedInit, ListInit
  <2> QED
    BY <2>1, QueueNames, QueueP!InitMade, QueueFifoBegins
<1>4. ASSUME which = "statics" PROVE TreeP!StaticsMade
  <2>1. TreeP!StaticsInit
    BY <1>4, StaticsBegins DEF SharedInit, ListInit
  <2> QED
    BY <2>1, TreeNames, TreeP!StaticsBegin
<1> QED
  BY <1>1, <1>2, <1>3, <1>4 DEF SharedMade

LEMMA SharedSteps ==
  ASSUME SharedMade, SharedNext
  PROVE  /\ SharedMade'
         /\ which = "list" => Map!Next
         /\ which = "tree" => Tree!Map!Next
         /\ which = "queue" => Queue!Fifo!Next
<1>1. which' = which
  BY DEF SharedNext
<1>2. UNCHANGED vars => ListInv'
  BY StutterKeeps DEF SharedMade
<1>3. CASE ListNext
  <2>1. ListInv' /\ Map!Next
    BY <1>3, StepIsStep DEF ListNext, SharedMade
  <2> QED
    BY <1>1, <1>3, <2>1 DEF ListNext, SharedMade
<1>4. CASE TreeNext
  <2>1. TreeP!TreeMade' /\ Tree!Map!Next
    <3>1. TreeP!TreeMade /\ TreeP!Next
      BY <1>4, TreeSteps DEF TreeNext, SharedMade
    <3> QED
      BY <3>1, TreeNames, TreeP!NextMade, TreeMapSteps
  <2> QED
    BY <1>1, <1>2, <1>4, <2>1 DEF TreeNext, SharedMade
<1>5. CASE QueueNext
  <2>1. QueueP!LinksInv' /\ Queue!Fifo!Next
    <3>1. QueueP!LinksInv /\ QueueP!Next
      BY <1>5, QueueSteps DEF QueueNext, SharedMade
    <3> QED
      BY <3>1, QueueNames, QueueP!NextMade, QueueFifoSteps
  <2> QED
    BY <1>1, <1>2, <1>5, <2>1 DEF QueueNext, SharedMade
<1>6. CASE StaticsNext
  <2>1. TreeP!StaticsMade'
    <3>1. TreeP!StaticsMade /\ TreeP!StaticsNext
      BY <1>6, StaticsSteps DEF StaticsNext, SharedMade
    <3> QED
      BY <3>1, TreeNames, TreeP!StaticsStep
  <2> QED
    BY <1>1, <1>2, <1>6, <2>1 DEF StaticsNext, SharedMade
<1> QED
  BY <1>3, <1>4, <1>5, <1>6 DEF SharedNext

LEMMA SharedStays ==
  ASSUME SharedMade, UNCHANGED <<which, vars, others>>
  PROVE  SharedMade' /\ UNCHANGED <<vars, others>>
<1>1. /\ which' = which /\ heap' = heap /\ local' = local /\ call' = call
      /\ memory' = memory /\ cursors' = cursors /\ calls' = calls /\ got' = got
  BY DEF vars, others
<1>2. ListInv'
  BY StutterKeeps DEF SharedMade
<1>3. ASSUME which = "tree" PROVE TreeP!TreeMade'
  BY <1>1, <1>3, TreeP!StutterMade DEF SharedMade, TreeP!vars
<1>4. ASSUME which = "queue" PROVE QueueP!LinksInv'
  BY <1>1, <1>4, QueueP!StutterMade DEF SharedMade, QueueP!vars
<1>5. ASSUME which = "statics" PROVE TreeP!StaticsMade'
  BY <1>1, <1>5, TreeP!StaticsStays DEF SharedMade, TreeP!vars
<1> QED
  BY <1>1, <1>2, <1>3, <1>4, <1>5 DEF SharedMade

LEMMA SharedInvariant == SharedSpec => []SharedMade
<1>1. SharedInit => SharedMade
  BY SharedBegins
<1>2. SharedMade /\ [SharedNext]_<<which, vars, others>> => SharedMade'
  BY SharedSteps, SharedStays
<1> QED
  BY <1>1, <1>2, PTL DEF SharedSpec

\* Nodes stay in the order of a search, in the lists of every bucket and in the
\* tree (list.rs, natarajan_mittal_tree.rs), wherever removals that are under way
\* have come to.
THEOREM InOrderHolds == SharedSpec => []InOrder
<1>1. SharedMade => InOrder
  <2> SUFFICES ASSUME SharedMade PROVE InOrder
    OBVIOUS
  <2>1. Sorted
    BY InvSorted DEF SharedMade
  <2>2. ASSUME which = "tree" PROVE Tree!Searchable
    <3>1. TreeP!TreeInv(memory)
      BY <2>2 DEF SharedMade, TreeP!TreeMade
    <3> QED
      BY <3>1, TreeNames, TreeP!MadeSearchable, TreeIsSearchable
  <2> QED
    BY <2>1, <2>2 DEF InOrder
<1> QED
  BY <1>1, SharedInvariant, PTL

\* The Natarajan-Mittal tree is linearizable (natarajan_mittal_tree.rs): every
\* get, insert and remove takes effect at once, at some step before its answer,
\* though a removal may be finished by whoever is in its way.
THEOREM TreeIsMapHolds == SharedSpec => TreeIsMap
<1>1. SharedInit => (which = "tree" => Tree!Map!Init)
  BY SharedBegins
<1>2. SharedMade /\ [SharedNext]_<<which, vars, others>>
        => [which = "tree" => Tree!Map!Next]_others
  BY SharedSteps, SharedStays
<1> QED
  BY <1>1, <1>2, SharedInvariant, PTL DEF SharedSpec, TreeIsMap

\* The queue is linearizable (double_link.rs): an enqueue takes effect once, by
\* its own thread or by a later one that helps, and items leave in that order.
THEOREM QueueIsFifoHolds == SharedSpec => QueueIsFifo
<1>1. SharedInit => (which = "queue" => Queue!Fifo!Init)
  BY SharedBegins
<1>2. SharedMade /\ [SharedNext]_<<which, vars, others>>
        => [which = "queue" => Queue!Fifo!Next]_others
  BY SharedSteps, SharedStays
<1> QED
  BY <1>1, <1>2, SharedInvariant, PTL DEF SharedSpec, QueueIsFifo

\* Whoever asks for a static gets the value that stays in the map (dyntls_host),
\* however many initialise it at once.
THEOREM OneStaticHolds == SharedSpec => []OneStatic
<1>1. SharedMade => OneStatic
  BY TreeNames, TreeP!MadeOne, StaticsShow DEF SharedMade, OneStatic
<1> QED
  BY <1>1, SharedInvariant, PTL

\* The lists and the hash map are linearizable (list.rs, michael_hash_map.rs):
\* every get, insert, remove and pop takes effect at once, at some step before
\* its answer, whatever other threads insert, mark and unlink in between.
THEOREM ListIsMapHolds == SharedSpec => ListIsMap
<1>1. SharedInit => (which = "list" => Map!Init)
  BY SharedBegins
<1>2. SharedMade /\ [SharedNext]_<<which, vars, others>> => [which = "list" => Map!Next]_vars
  BY SharedSteps, SharedStays
<1> QED
  BY <1>1, <1>2, SharedInvariant, PTL DEF SharedSpec, ListIsMap
=============================================================================
