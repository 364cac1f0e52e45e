-------------------------- MODULE SharedContainers --------------------------
(***************************************************************************)
(* The containers of circ_ds side by side: each behaviour is one of one    *)
(* container, which the first state chooses.  The list has the variables   *)
(* of its module, the others share variables.                              *)
(*                                                                         *)
(* The skip list and the copy-on-write tree are added in MCContainers.     *)
(***************************************************************************)
EXTENDS HarrisList, FiniteSets

CONSTANTS Sentinel, Inf

VARIABLES
  which,                   (* the container the behaviour is about         *)
  memory, cursors, calls,  (* heap, local and call of the other containers *)
  got

others == <<memory, cursors, calls, got>>

Tree == INSTANCE NatarajanMittalTree WITH heap <- memory, local <- cursors, call <- calls
Queue == INSTANCE DoubleLink WITH heap <- memory, local <- cursors, call <- calls
Statics == INSTANCE DynStatics WITH heap <- memory, local <- cursors, call <- calls

\* Threads are no numbers, and the nodes of every container are told apart.
ASSUME ContainersAssumption ==
  /\ IsFiniteSet(Threads) /\ IsFiniteSet(Keys) /\ Threads \cap Nat = {}
  /\ Inf \in Nat /\ \A k \in Keys : k < Inf
  /\ Sentinel \notin Threads \cup {None} /\ None \notin Queue!Fifo!Calls
  /\ \A v \in Keys \cup Threads : None # Tree!Leaf(v)

\* An empty list, while the behaviour is about another container.
Resting == heap.kind = "michael" /\ \A h \in Heads : heap.link[h].next = None

ListInit == which = "list" /\ memory = None /\ cursors = None /\ calls = None /\ got = None

SharedInit ==
  /\ Init
  /\ \/ ListInit
     \/ Resting /\ which = "tree" /\ Tree!Init /\ got = None
     \/ Resting /\ which = "queue" /\ Queue!Init /\ got = None
     \/ Resting /\ which = "statics" /\ Statics!StaticsInit

ListNext == which = "list" /\ Next /\ UNCHANGED others
TreeNext == which = "tree" /\ Tree!Next /\ UNCHANGED <<vars, got>>
QueueNext == which = "queue" /\ Queue!Next /\ UNCHANGED <<vars, got>>
StaticsNext == which = "statics" /\ Statics!StaticsNext /\ UNCHANGED vars

SharedNext ==
  /\ UNCHANGED which
  /\ ListNext \/ TreeNext \/ QueueNext \/ StaticsNext

SharedSpec == SharedInit /\ [][SharedNext]_<<which, vars, others>>

-----------------------------------------------------------------------------

\* Whatever threads do at once, the nodes of the lists and of the tree stay in
\* the order of their search, with the removals under way: Sorted of HarrisList
\* and Searchable of NatarajanMittalTree.
InOrder ==
  /\ Sorted
  /\ which = "tree" => Tree!Searchable

\* The lists and the hash map implement a linearizable map: IsMap of HarrisList.
ListIsMap ==
  /\ which = "list" => Map!Init
  /\ [][which = "list" => Map!Next]_vars

\* The Natarajan-Mittal tree implements a linearizable map: IsMap of
\* NatarajanMittalTree.
TreeIsMap ==
  /\ which = "tree" => Tree!Map!Init
  /\ [][which = "tree" => Tree!Map!Next]_others

\* The queue implements a linearizable queue: IsFifo of DoubleLink.
QueueIsFifo ==
  /\ which = "queue" => Queue!Fifo!Init
  /\ [][which = "queue" => Queue!Fifo!Next]_others

\* Everyone has the same static: OneValue of DynStatics.
OneStatic == which = "statics" => Statics!OneValue
=============================================================================
