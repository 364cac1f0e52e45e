------------------------- MODULE MCPluginsRegistry -------------------------
(* Instances of PluginsRegistry for TLC. *)
EXTENDS PluginsRegistry, TLC

CONSTANTS t1, t2, t3, p1, p2, d1, d2, d3, d4, d5, d6, h1, h2

\* One library is loaded, as hot reloadable.
HotOnly == {<<p1, TRUE>>}

\* What is known of a plugin that can still be called, instead of its name:
\* no action and no property tells one name from another.
Known(d) ==
  IF d = None THEN <<>>
  ELSE <<plugin[d], d \in live, {p \in Paths : api[p] = d}>>

\* An api of a plugin that is neither stored nor in hand.
Left(p) ==
  IF api[p] = None \/ Stored(api[p]) \/ InHand(api[p]) THEN <<>>
  ELSE <<api[p] \in unloaded, api[p] \in live>>

Nameless ==
  <<disk, broken, handles, listBroken, unticked, current_index, registryBroken,
    pc, at, copied, scan,
    [h \in Handles |-> Known(storage[h])],
    [t \in Threads |-> Known(hand[t])],
    [p \in Paths |-> Left(p)],
    Cardinality({d \in live : ~Stored(d) /\ ~InHand(d)})>>
=============================================================================
