--------------------------- MODULE MCApiRegistry ---------------------------
(* Instances of ApiRegistry for TLC. *)
EXTENDS ApiRegistry, TLC

CONSTANTS old, new, again, p1, p2, t1, t2, d1

\* Two patches of one line, an incompatible major version.
SomeVersions == {V(1, 2, 3), V(1, 2, 4), V(2, 0, 0)}
OneVersion == {V(1, 2, 3)}

\* The api of version 1.2.4 exists twice: it is reloaded.
SomeApis ==
  old :> V(1, 2, 3) @@ new :> V(1, 2, 4) @@ again :> V(1, 2, 4)

Symmetry ==
  Permutations(Threads) \cup Permutations(Placeholders) \cup Permutations({new, again})

\* The version matters to a call under way and to who has a handle, the
\* dependency id to a set under way.
LiveView ==
  <<inner_apis, target, writer, poisoned, deps, pc, handle, todo,
    [t \in Threads |->
      <<IF handle[t] # None \/ pc[t] = "insert" THEN <<want[t]>> ELSE <<>>,
        IF pc[t] = "store" THEN dep[t] ELSE None>>]>>
=============================================================================
