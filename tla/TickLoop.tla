------------------------------ MODULE TickLoop ------------------------------
(***************************************************************************)
(* TaskSystem::tick of bubble_tasks (task_system_api.rs), as the tick      *)
(* thread of bubble_tests calls it: again and again until it answers false. *)
(*                                                                         *)
(* A bounded channel holds one answer for every frame that may be queued.  *)
(* tick receives one, and starts a tick task that joins a timer and the    *)
(* caller's future and sends the future's answer back.  All tasks run on   *)
(* the one thread that is inside tick, between the checks of its loops, so *)
(* a send that had to wait would stop the only thread that receives.       *)
(***************************************************************************)
EXTENDS Naturals, Sequences, FiniteSets

CONSTANTS
  Frames,   (* capacity of the channel: frame_delay                       *)
  Ticks,    (* tick tasks, named apart while they are in flight           *)
  None

ASSUME FramesAssumption == Frames \in Nat \ {0}

Answers == {"go", "stop"}
Places == {"outside", "running", "blocked", "draining", "stopped"}
Flights == [fired : BOOLEAN, answer : Answers \cup {"none"}]

ASSUME TicksAssumption ==
  /\ None \notin Ticks \cup Flights
  /\ IsFiniteSet(Ticks) /\ Cardinality(Ticks) > Frames

VARIABLES
  channel,  (* the answers between tick_sender and tick_reader            *)
  flight,   (* the timer and the answer of each tick task in flight       *)
  place,    (* where the tick thread is                                   *)
  frame     (* the tick task whose timer the thread waits for             *)

vars == <<channel, flight, place, frame>>

Init ==
  /\ channel = [i \in 1 .. Frames |-> "go"]
  /\ flight = [i \in Ticks |-> None]
  /\ place = "outside"
  /\ frame = None

Flying == {i \in Ticks : flight[i] # None}

\* Mutant: the timer alone ends the task.
Raced(i) == i \in Flying /\ flight[i].fired

Joined(i) == i \in Flying /\ flight[i].fired /\ flight[i].answer # "none"

\* The runtime polls tasks only while the thread is in one of the loops, and
\* not while a task waits in send.
Polls ==
  /\ place \in {"running", "blocked", "draining"}
  /\ \A i \in Ticks : ~Joined(i)

-----------------------------------------------------------------------------
(* The call *)

\* Mutant: the answer is looked at and left in the channel.
BeginPeeking(i) ==
  /\ place = "outside"
  /\ channel # <<>> /\ Head(channel) = "go"
  /\ i \notin Flying
  /\ flight' = [flight EXCEPT ![i] = [fired |-> FALSE, answer |-> "none"]]
  /\ place' = "running"
  /\ frame' = i
  /\ UNCHANGED channel

\* Mutant: another tick is started whatever the answer says.
BeginAnyway(i) ==
  /\ place = "outside"
  /\ channel # <<>>
  /\ i \notin Flying
  /\ channel' = Tail(channel)
  /\ flight' = [flight EXCEPT ![i] = [fired |-> FALSE, answer |-> "none"]]
  /\ place' = "running"
  /\ frame' = i

\* An answer to go on: the next tick task is started.
Begin(i) ==
  /\ place = "outside"
  /\ channel # <<>> /\ Head(channel) = "go"
  /\ i \notin Flying
  /\ channel' = Tail(channel)
  /\ flight' = [flight EXCEPT ![i] = [fired |-> FALSE, answer |-> "none"]]
  /\ place' = "running"
  /\ frame' = i

BeginDrain ==
  /\ place = "outside"
  /\ channel # <<>> /\ Head(channel) = "stop"
  /\ channel' = Tail(channel)
  /\ place' = "draining"
  /\ UNCHANGED <<flight, frame>>

BeginBlocked ==
  /\ place = "outside"
  /\ channel = <<>>
  /\ place' = "blocked"
  /\ UNCHANGED <<channel, flight, frame>>

\* Mutant: an answer that unblocks the thread is received.
UnblockReceiving ==
  /\ place = "blocked"
  /\ Polls /\ channel # <<>>
  /\ channel' = Tail(channel)
  /\ place' = "outside"
  /\ UNCHANGED <<flight, frame>>

\* Some tick task has answered; tick looks at the channel, and answers true.
Unblock ==
  /\ place = "blocked"
  /\ Polls /\ channel # <<>>
  /\ place' = "outside"
  /\ UNCHANGED <<channel, flight, frame>>

\* Mutant: the loop also ends when the frame's future has answered.
LeaveEarly ==
  /\ place = "running"
  /\ Polls
  /\ frame \in Flying => flight[frame].fired \/ flight[frame].answer # "none"
  /\ place' = "outside"
  /\ UNCHANGED <<channel, flight, frame>>

\* The timer of the frame has sent; tick answers true.
Leave ==
  /\ place = "running"
  /\ Polls
  /\ frame \in Flying => flight[frame].fired
  /\ place' = "outside"
  /\ UNCHANGED <<channel, flight, frame>>

Drain ==
  /\ place = "draining"
  /\ Polls /\ channel # <<>>
  /\ channel' = Tail(channel)
  /\ UNCHANGED <<flight, place, frame>>

\* The first look that finds nothing ends the loop; tick answers false.
Stop ==
  /\ place = "draining"
  /\ Polls /\ channel = <<>>
  /\ place' = "stopped"
  /\ UNCHANGED <<channel, flight, frame>>

-----------------------------------------------------------------------------
(* The tick tasks *)

Timer(i) ==
  /\ Polls
  /\ i \in Flying /\ ~flight[i].fired
  /\ flight' = [flight EXCEPT ![i].fired = TRUE]
  /\ UNCHANGED <<channel, place, frame>>

Answer(i, a) ==
  /\ Polls
  /\ i \in Flying /\ flight[i].answer = "none"
  /\ flight' = [flight EXCEPT ![i].answer = a]
  /\ UNCHANGED <<channel, place, frame>>

Send(i) ==
  /\ Joined(i)
  /\ Len(channel) < Frames
  /\ channel' = Append(channel, flight[i].answer)
  /\ flight' = [flight EXCEPT ![i] = None]
  /\ UNCHANGED <<place, frame>>

-----------------------------------------------------------------------------
(* Specification *)

Thread ==
  \/ \E i \in Ticks : Begin(i)
  \/ BeginDrain \/ BeginBlocked \/ Unblock \/ Leave \/ Drain \/ Stop
Task(i) == Timer(i) \/ Send(i) \/ \E a \in Answers : Answer(i, a)
Over == place = "stopped" /\ UNCHANGED vars

Next == Thread \/ (\E i \in Ticks : Task(i)) \/ Over

\* The caller ticks until it is told to stop; timers fire, and the futures
\* that the caller gave come to an answer.
Fairness == WF_vars(Thread) /\ \A i \in Ticks : WF_vars(Task(i))

Spec == Init /\ [][Next]_vars /\ Fairness

-----------------------------------------------------------------------------
(* Properties *)

\* The range of every variable.
TypeOK ==
  /\ channel \in Seq(Answers) /\ Len(channel) <= Frames
  /\ flight \in [Ticks -> Flights \cup {None}]
  /\ place \in Places
  /\ frame \in Ticks \cup {None}

\* Until the loop is drained every frame is an answer in the channel or a tick
\* in flight: never more ticks than frames, and no frame is lost.
FramesConserved ==
  place \notin {"draining", "stopped"} => Len(channel) + Cardinality(Flying) = Frames

\* A task that has its answer finds room in the channel: the send blocks never,
\* with which it would block the thread that receives.
SendNeverBlocks == \A i \in Ticks : Joined(i) => Len(channel) < Frames

\* A timer fires while its receiver is there, so that its send can be expected
\* to succeed: a call returns only after the timer of its own frame.
TimersAreHeard ==
  \A i \in Flying : ~flight[i].fired => place = "running" /\ frame = i

\* The answer to stop comes through: ticks that were queued before it, blocked
\* calls and ticks in flight only delay it.
StopIsSeen ==
  (\E i \in Ticks : i \in Flying /\ flight[i].answer = "stop") ~> place = "stopped"
=============================================================================
