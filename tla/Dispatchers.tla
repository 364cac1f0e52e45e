---------------------------- MODULE Dispatchers ----------------------------
(***************************************************************************)
(* The dispatchers of TaskSystem (bubble_tasks/src/task_system_api.rs):    *)
(* dispatch, dispatch_blocking and shutdown, from any threads.             *)
(*                                                                         *)
(* Dispatcher 1 runs on the performance cores, dispatcher 2, if there is   *)
(* one, on the efficient cores.  Each is an atomic pointer to an option    *)
(* under a reader-writer lock: shutdown clears the pointer, then takes the *)
(* dispatcher out of the option and joins it; a dispatch that has read the *)
(* pointer before still finds the option.                                  *)
(*                                                                         *)
(* The exchange of the second pointer never returns (see Refused), so that *)
(* a shutdown gets past it only where there is one dispatcher.             *)
(***************************************************************************)
EXTENDS Naturals, FiniteSets

CONSTANTS
  Callers,   (* threads that dispatch and shut down                       *)
  Jobs       (* bound: accepted jobs that wait in one dispatcher          *)

\* Performance, efficiency.
Kinds == {1, 2}

VARIABLES
  last,      (* the number of dispatchers, settled when they are made     *)
  pointer,   (* the kinds whose atomic pointer is not null                *)
  option,    (* the kinds whose option still holds the dispatcher         *)
  jobs,      (* jobs[k]: how many jobs dispatcher k has accepted, not run *)
  joined,    (* the kinds whose dispatcher has been joined                *)
  step,      (* step[c]: where the call of c is                           *)
  kind,      (* kind[c]: the dispatcher the step is about                 *)
  seen       (* seen[c]: the kinds whose pointer c's shutdown found set   *)

dispatchersVars == <<last, pointer, option, jobs, joined, step, kind, seen>>

DispatchersInit ==
  /\ last \in Kinds
  /\ pointer = 1 .. last
  /\ option = 1 .. last
  /\ jobs = [k \in Kinds |-> 0]
  /\ joined = {}
  /\ step = [c \in Callers |-> "idle"]
  /\ kind = [c \in Callers |-> 1]
  /\ seen = [c \in Callers |-> {}]

Go(c, s) == step' = [step EXCEPT ![c] = s]

\* The same for the next dispatcher, or, after the last, the next part.
Follow(c, same, next) ==
  IF kind[c] < last
  THEN kind' = [kind EXCEPT ![c] = @ + 1] /\ Go(c, same)
  ELSE kind' = [kind EXCEPT ![c] = 1] /\ Go(c, next)

-----------------------------------------------------------------------------
(* dispatch and dispatch_blocking *)

\* The hint picks the dispatcher; a null pointer is unwrapped.
Dispatch(c, k) ==
  /\ step[c] = "idle"
  /\ k <= last
  /\ kind' = [kind EXCEPT ![c] = k]
  /\ Go(c, IF k \in pointer THEN "found" ELSE "panicked")
  /\ UNCHANGED <<last, pointer, option, jobs, joined, seen>>

\* Mutant: what the pointer said is not asked again under the lock.
SubmitFound(c) ==
  /\ step[c] = "found"
  /\ jobs[kind[c]] < Jobs
  /\ jobs' = [jobs EXCEPT ![kind[c]] = @ + 1]
  /\ Go(c, "idle")
  /\ UNCHANGED <<last, pointer, option, joined, kind, seen>>

\* Under the read lock: the job is accepted if the dispatcher is still there.
Submit(c) ==
  /\ step[c] = "found"
  /\ \/ /\ kind[c] \in option
        /\ jobs[kind[c]] < Jobs
        /\ jobs' = [jobs EXCEPT ![kind[c]] = @ + 1]
        /\ Go(c, "idle")
     \/ /\ kind[c] \notin option
        /\ Go(c, "panicked")
        /\ UNCHANGED jobs
  /\ UNCHANGED <<last, pointer, option, joined, kind, seen>>

\* A worker takes a job and runs it.
Run(k) ==
  /\ jobs[k] > 0
  /\ jobs' = [jobs EXCEPT ![k] = @ - 1]
  /\ UNCHANGED <<last, pointer, option, joined, step, kind, seen>>

-----------------------------------------------------------------------------
(* shutdown *)

Shutdown(c) ==
  /\ step[c] = "idle"
  /\ kind' = [kind EXCEPT ![c] = 1]
  /\ Go(c, "load")
  /\ UNCHANGED <<last, pointer, option, jobs, joined, seen>>

Load(c) ==
  /\ step[c] = "load"
  /\ seen' = [seen EXCEPT ![c] = (@ \ {kind[c]}) \cup (pointer \cap {kind[c]})]
  /\ Go(c, "swap")
  /\ UNCHANGED <<last, pointer, option, jobs, joined, kind>>

\* The exchange of the efficiency dispatcher's pointer asks for AcqRel when it
\* fails.  There is no such ordering for a failure, and the atomics of the
\* standard library panic when they are given it, whatever the pointer holds.
Refused(c) ==
  /\ kind[c] = 2
  /\ Go(c, "panicked")
  /\ UNCHANGED <<pointer, kind, seen>>

\* Mutant: the pointer is stored over, whatever it has become.
SwapBlindly(c) ==
  /\ step[c] = "swap"
  /\ \/ Refused(c)
     \/ /\ kind[c] = 1
        /\ pointer' = pointer \ {1}
        /\ Follow(c, "load", "take")
        /\ UNCHANGED seen
  /\ UNCHANGED <<last, option, jobs, joined>>

\* Mutant: the exchange is tried again with what was seen first.
SwapStubbornly(c) ==
  /\ step[c] = "swap"
  /\ \/ Refused(c)
     \/ /\ kind[c] = 1
        /\ 1 \in seen[c] <=> 1 \in pointer
        /\ pointer' = pointer \ {1}
        /\ Follow(c, "load", "take")
        /\ UNCHANGED seen
     \/ /\ kind[c] = 1
        /\ 1 \in seen[c] /\ 1 \notin pointer
        /\ UNCHANGED <<pointer, kind, step, seen>>
  /\ UNCHANGED <<last, option, jobs, joined>>

\* The exchange of the performance dispatcher's pointer fails when it is not
\* what was seen, and is tried again with what it has become.
Swap(c) ==
  /\ step[c] = "swap"
  /\ \/ Refused(c)
     \/ /\ kind[c] = 1
        /\ 1 \in seen[c] <=> 1 \in pointer
        /\ pointer' = pointer \ {1}
        /\ Follow(c, "load", "take")
        /\ UNCHANGED seen
     \/ /\ kind[c] = 1
        /\ 1 \in seen[c] /\ 1 \notin pointer
        /\ seen' = [seen EXCEPT ![c] = @ \ {1}]
        /\ UNCHANGED <<pointer, kind, step>>
  /\ UNCHANGED <<last, option, jobs, joined>>

\* Under the write lock: the option is taken and unwrapped.
Take(c) ==
  /\ step[c] = "take"
  /\ kind[c] \in seen[c]
  /\ option' = option \ {kind[c]}
  /\ Go(c, IF kind[c] \in option THEN "join" ELSE "poisoned")
  /\ UNCHANGED <<last, pointer, jobs, joined, kind, seen>>

\* The pointer was null already: there is nothing to take.
Skip(c) ==
  /\ step[c] = "take"
  /\ kind[c] \notin seen[c]
  /\ Follow(c, "take", "idle")
  /\ UNCHANGED <<last, pointer, option, jobs, joined, seen>>

\* The join waits until the workers have run what was accepted.
Join(c) ==
  /\ step[c] = "join"
  /\ jobs[kind[c]] = 0
  /\ joined' = joined \cup {kind[c]}
  /\ Follow(c, "take", "idle")
  /\ UNCHANGED <<last, pointer, option, jobs, seen>>

-----------------------------------------------------------------------------
(* Specification *)

Call(c) == Shutdown(c) \/ \E k \in Kinds : Dispatch(c, k)
Step(c) == Submit(c) \/ Load(c) \/ Swap(c) \/ Take(c) \/ Skip(c) \/ Join(c)
DispatchersOver == (\A c \in Callers : step[c] = "panicked") /\ UNCHANGED dispatchersVars

DispatchersNext ==
  \/ \E c \in Callers : Call(c) \/ Step(c)
  \/ \E k \in Kinds : Run(k)
  \/ DispatchersOver

\* Threads go on inside a call, workers run what they have accepted.
DispatchersFairness ==
  /\ \A c \in Callers : WF_dispatchersVars(Step(c))
  /\ \A k \in Kinds : WF_dispatchersVars(Run(k))

DispatchersSpec == DispatchersInit /\ [][DispatchersNext]_dispatchersVars /\ DispatchersFairness

-----------------------------------------------------------------------------
(* Properties *)

\* The range of every variable.
DispatchersType ==
  /\ last \in Kinds
  /\ pointer \subseteq 1 .. last
  /\ option \subseteq 1 .. last
  /\ jobs \in [Kinds -> Nat]
  /\ joined \subseteq 1 .. last
  /\ step \in [Callers -> {"idle", "found", "panicked", "load", "swap", "take",
                           "join", "poisoned"}]
  /\ kind \in [Callers -> 1 .. last]
  /\ seen \in [Callers -> SUBSET Kinds]

\* However many shutdowns run at once, one of them takes each dispatcher and
\* the others find nothing: no unwrap under the write lock ever fails.
TakenOnce == \A c \in Callers : step[c] # "poisoned"

\* What dispatch has accepted is run before the dispatcher has been joined,
\* also when the dispatch had read the pointer before the shutdown cleared it.
AcceptedIsRun == \A k \in joined : jobs[k] = 0

\* A shutdown comes to its end, whatever is being dispatched and whoever shuts
\* down beside it.  It returns where there is one dispatcher; where there are
\* two it panics on the exchange of the second, with the first one's pointer
\* cleared and neither of them joined.
ShutdownEnds ==
  \A c \in Callers :
    step[c] \in {"load", "swap", "take", "join"} ~>
      IF last = 1 THEN step[c] = "idle"
      ELSE step[c] = "panicked" /\ 1 \notin pointer /\ joined = {}
=============================================================================
