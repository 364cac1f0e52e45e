----------------------------- MODULE DemandCache -----------------------------
(***************************************************************************)
(* What BufferStorage promises of a disk-backed buffer: it is in memory    *)
(* only after it was loaded, a load that began ends, and what is in memory *)
(* can leave it again.                                                     *)
(***************************************************************************)
CONSTANT Buffers

VARIABLE state

Init == state = [b \in Buffers |-> "out"]

Move(b, from, to) ==
  /\ state[b] = from
  /\ state' = [state EXCEPT ![b] = to]

BeginLoad(b) == Move(b, "out", "loading")
Loaded(b) == Move(b, "loading", "in")
GiveUp(b) == Move(b, "loading", "out")
Evict(b) == Move(b, "in", "out")

Next == \E b \in Buffers : BeginLoad(b) \/ Loaded(b) \/ GiveUp(b) \/ Evict(b)

Safety == Init /\ [][Next]_state

Spec == Safety /\ \A b \in Buffers : WF_state(Loaded(b) \/ GiveUp(b))
=============================================================================
