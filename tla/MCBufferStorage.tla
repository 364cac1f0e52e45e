--------------------------- MODULE MCBufferStorage ---------------------------
(* Instances of BufferStorage for TLC. *)
EXTENDS BufferStorage, TLC

CONSTANTS c1, c2, c3, t1, t2, b1, b2

\* Two calls share a thread, the third has its own.
SharedHome == c1 :> t1 @@ c2 :> t1 @@ c3 :> t2

\* Every call has a thread of its own.
OwnHome == [c \in Calls |-> c]

\* Buffers are interchangeable, and so are calls on threads of their own.
Symmetry == Permutations(Calls) \cup Permutations(Buffers)

\* What a call did before matters to no action and to no invariant: nothing of
\* an idle call, the buffer of a panicked one, the result of an inner get.
LiveView ==
  <<store, entries, pc, waitOn,
    [c \in Calls |->
      CASE pc[c] = "idle"     -> <<>>
        [] pc[c] = "panicked" -> <<arg[c]>>
        [] OTHER -> <<op[c], arg[c], IF op[c] \in PersistOps THEN ret[c] ELSE "none">>]>>
=============================================================================
