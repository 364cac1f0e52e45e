----------------------- MODULE PluginsRegistryProofs -----------------------
(***************************************************************************)
(* Proofs about PluginsRegistry, for any clients, tick threads, libraries, *)
(* plugins and handles, and builds at any time.                            *)
(***************************************************************************)
EXTENDS PluginsRegistry, TLAPS

\* A step of thread t.
Move(t) == Call(t) \/ Tick(t) \/ Step(t)

Steps == {"idle", "panicked", "stat", "load", "insert", "push", "unload", "retire",
          "peek", "scan", "again"} \cup ReloadSteps

TypeWorld ==
  /\ disk \in [Paths -> {"whole", "partial", "absent"}]
  /\ plugin \in [Plugins -> Fields \cup {None}]
  /\ current_index \in 0 .. Rounds - 1
  /\ live \subseteq Plugins
  /\ api \in [Paths -> Plugins \cup {None}]
  /\ registryBroken \in BOOLEAN

TypeShelf ==
  /\ storage \in [Handles -> Plugins \cup {None}]
  /\ broken \subseteq Handles
  /\ handles \in Seq(Handles)
  /\ listBroken \in BOOLEAN
  /\ unloaded \subseteq Plugins
  /\ unticked \in BOOLEAN

TypeLocals ==
  /\ pc \in [Threads -> Steps]
  /\ at \in [Threads -> Handles \cup {None}]
  /\ hand \in [Threads -> Plugins \cup {None}]
  /\ copied \in [Threads -> Copies \cup {None}]
  /\ scan \in [Threads -> Nat]

HandPcs == {"load", "insert", "unload", "retire", "unplug", "plug"}
AtPcs == {"push", "unload", "retire"} \cup ReloadSteps
ScanPcs == {"peek", "scan", "again"}

\* What a call has by the step it has come to.
Carries(t) ==
  /\ pc[t] \in {"stat", "restat"} => copied[t] # None
  /\ pc[t] \in HandPcs => hand[t] # None
  /\ pc[t] \in AtPcs => at[t] # None
  /\ pc[t] \in ReloadSteps => storage[at[t]] # None
  /\ pc[t] \in ScanPcs => scan[t] # 0
  /\ scan[t] # 0 => pc[t] \in ScanPcs \cup ReloadSteps
  /\ pc[t] \in {"peek", "again"} => scan[t] \in DOMAIN handles

\* Every plugin that can still be called has its fields.
FieldsThere ==
  /\ \A h \in Handles : storage[h] # None => plugin[storage[h]] # None
  /\ \A t \in Threads : hand[t] # None => plugin[hand[t]] # None

Shape == TypeWorld /\ TypeShelf /\ TypeLocals /\ FieldsThere /\ \A t \in Threads : Carries(t)

-----------------------------------------------------------------------------
(* What is assumed, and the actions *)

LEMMA Names ==
  /\ None \notin Threads /\ None \notin Paths /\ None \notin Plugins /\ None \notin Handles
  /\ Clients \subseteq Threads /\ Tickers \subseteq Threads
  /\ Built \subseteq Paths /\ SameSecond \subseteq BOOLEAN
  /\ Rounds \in Nat /\ 0 \in 0 .. Rounds - 1
BY PluginsAssumption, LoadsAssumption, SameSecondAssumption, RoundsAssumption DEF Threads

LEMMA Moves ==
  ASSUME NEW t \in Threads, Move(t)
  PROVE  \/ \E p \in Paths : LoadFails(t, p) \/ \E hot \in BOOLEAN : Load(t, p, hot)
         \/ \E h \in Handles : Take(t, h) \/ ReloadCall(t, h) \/ \E p \in Paths : SetPath(t, h, p)
         \/ Tick(t)
         \/ LoadStat(t) \/ LoadPlugin(t) \/ Insert(t) \/ Push(t)
         \/ UnloadPlugin(t) \/ Retire(t)
         \/ ReloadCopy(t) \/ ReloadStat(t) \/ ReloadUnload(t) \/ ReloadLoad(t)
         \/ Peek(t) \/ Scan(t) \/ TickReload(t) \/ TickEnd(t)
<1>1. \A l \in Loads : l[1] \in Paths /\ l[2] \in BOOLEAN
  BY LoadsAssumption
<1> QED
  BY <1>1 DEF Move, Call, Step

LEMMA NextIsMove ==
  ASSUME [Next]_vars
  PROVE  \/ \E t \in Threads : Move(t)
         \/ \E p \in Paths : BuildBegin(p) \/ BuildEnd(p)
         \/ UNCHANGED vars
BY Names DEF Next, Move

LEMMA TypeParts == TypeOK <=> TypeWorld /\ TypeShelf /\ TypeLocals
BY DEF TypeOK, TypeWorld, TypeShelf, TypeLocals, Steps

LEMMA InitShape == Init => Shape
<1> SUFFICES ASSUME Init PROVE Shape
  OBVIOUS
<1> USE DEF Init
<1>1. TypeWorld
  BY Names DEF TypeWorld
<1>2. TypeShelf
  <2>1. handles \in Seq(Handles)
    OBVIOUS
  <2> QED
    BY <2>1 DEF TypeShelf
<1>3. TypeLocals
  BY Names DEF TypeLocals, Steps
<1>4. FieldsThere
  BY DEF FieldsThere
<1>5. ASSUME NEW t \in Threads PROVE Carries(t)
  BY DEF Carries, HandPcs, AtPcs, ScanPcs, ReloadSteps
<1> QED
  BY <1>1, <1>2, <1>3, <1>4, <1>5 DEF Shape

-----------------------------------------------------------------------------
(* Types *)

LEMMA PanicType ==
  ASSUME Shape, NEW t \in Threads, Panic(t)
  PROVE  TypeLocals' /\ broken' \subseteq Handles /\ listBroken' \in BOOLEAN
<1>1. TypeLocals'
  BY Names DEF Shape, TypeLocals, Panic, Steps
<1>2. broken' \subseteq Handles
  BY Names DEF Shape, TypeLocals, TypeShelf, Panic, Steps, Carries, AtPcs
<1>3. listBroken' \in BOOLEAN
  BY DEF Panic
<1> QED
  BY <1>1, <1>2, <1>3

LEMMA DoneType ==
  ASSUME TypeLocals, NEW t \in Threads, Done(t)
  PROVE  TypeLocals'
BY Names DEF TypeLocals, Done, Steps

LEMMA OpenType ==
  ASSUME TypeLocals, NEW t \in Threads, NEW p \in Paths, NEW hot \in BOOLEAN,
         NEW s \in Steps, Open(t, p, hot, s), UNCHANGED <<at, hand, scan>>
  PROVE  TypeLocals'
<1>1. [path |-> p, hot |-> hot, current |-> TRUE] \in Copies
  BY DEF Copies
<1> QED
  BY <1>1 DEF TypeLocals, Open, Go

LEMMA StatType ==
  ASSUME Shape, NEW t \in Threads, pc[t] \in {"stat", "restat"}, NEW s \in Steps,
         Stat(t, s), UNCHANGED <<disk, current_index>>
  PROVE  TypeWorld' /\ TypeShelf' /\ TypeLocals'
<1> USE DEF Shape, Stat
<1>1. copied[t] \in Copies
  BY DEF Carries, TypeLocals
<1>2. PICK d \in Plugins :
        /\ plugin' = [plugin EXCEPT ![d] =
             [lib |-> copied[t].path, path |-> copied[t].path, hot |-> copied[t].hot,
              stamped |-> TRUE, current |-> copied[t].current]]
        /\ hand' = [hand EXCEPT ![t] = d]
        /\ live' = live \cup {d}
        /\ unloaded' = unloaded \ {d}
  OBVIOUS
<1>3. [lib |-> copied[t].path, path |-> copied[t].path, hot |-> copied[t].hot,
       stamped |-> TRUE, current |-> copied[t].current] \in Fields
  BY <1>1 DEF Copies, Fields
<1>4. TypeWorld'
  BY <1>2, <1>3 DEF TypeWorld
<1>5. TypeShelf'
  BY <1>2 DEF TypeShelf
<1>6. TypeLocals'
  BY <1>2, Names DEF TypeLocals, Go
<1> QED
  BY <1>4, <1>5, <1>6

\* The plugins whose handles are known can be asked for their fields.
LEMMA StoredFields ==
  ASSUME Shape, NEW h \in Handles, storage[h] # None
  PROVE  storage[h] \in Plugins /\ plugin[storage[h]] \in Fields
BY DEF Shape, TypeShelf, TypeWorld, FieldsThere

LEMMA ReloadType ==
  ASSUME Shape, NEW t \in Threads, NEW h \in Handles, Reload(t, h)
  PROVE  TypeWorld' /\ TypeShelf' /\ TypeLocals'
<1> USE DEF Shape
<1>1. TypeWorld'
  BY DEF TypeWorld, Reload, registry
<1>2. TypeLocals'
  <2>1. CASE Panic(t)
    BY <2>1, PanicType
  <2>2. CASE Done(t)
    BY <2>2, DoneType
  <2>3. CASE at' = [at EXCEPT ![t] = h] /\ Go(t, "copy") /\ UNCHANGED <<hand, copied, scan>>
    BY <2>3 DEF Go, TypeLocals, Steps, ReloadSteps
  <2> QED
    BY <2>1, <2>2, <2>3 DEF Reload
<1>3. TypeShelf'
  <2>1. CASE Panic(t) /\ UNCHANGED <<storage, handles, unloaded, unticked>>
    BY <2>1, PanicType DEF TypeShelf
  <2>2. CASE unticked' = FALSE /\ UNCHANGED <<storage, broken, handles, listBroken, unloaded>>
    BY <2>2 DEF TypeShelf
  <2>3. CASE UNCHANGED shelf
    BY <2>3 DEF shelf, TypeShelf
  <2> QED
    BY <2>1, <2>2, <2>3 DEF Reload
<1> QED
  BY <1>1, <1>2, <1>3

LEMMA RetainedType ==
  ASSUME handles \in Seq(Handles), NEW h
  PROVE  Retained(h) \in Seq(Handles)
<1> DEFINE n == CHOOSE i \in DOMAIN handles : handles[i] = h
           less == [i \in 1 .. Len(handles) - 1 |-> IF i < n THEN handles[i] ELSE handles[i + 1]]
<1>1. CASE ~Listed(h)
  BY <1>1 DEF Retained
<1>2. CASE Listed(h)
  <2>1. Len(handles) \in Nat /\ DOMAIN handles = 1 .. Len(handles) /\ Len(handles) - 1 \in Nat
    BY <1>2 DEF Listed
  <2>2. \A i \in 1 .. Len(handles) - 1 : less[i] \in Handles
    BY <2>1
  <2>3. less \in Seq(Handles)
    <3> HIDE DEF n
    <3> QED BY <2>1, <2>2
  <2> QED
    BY <1>2, <2>3 DEF Retained
<1> QED
  BY <1>1, <1>2

LEMMA PlaceIsThere ==
  ASSUME Shape, handles # <<>>
  PROVE  Place \in DOMAIN handles
<1>1. Len(handles) \in Nat \ {0} /\ DOMAIN handles = 1 .. Len(handles)
  BY DEF Shape, TypeShelf
<1>2. current_index \in Nat
  BY Names DEF Shape, TypeWorld
<1>3. current_index % Len(handles) \in 0 .. Len(handles) - 1
  BY <1>1, <1>2
<1> QED
  BY <1>1, <1>3 DEF Place

-----------------------------------------------------------------------------
(* Every step keeps the types *)

Typed == TypeWorld /\ TypeShelf /\ TypeLocals

LEMMA LoadTypes ==
  ASSUME Shape, NEW t \in Threads,
         \/ \E p \in Paths : LoadFails(t, p) \/ \E hot \in BOOLEAN : Load(t, p, hot)
         \/ LoadStat(t) \/ LoadPlugin(t) \/ Insert(t) \/ Push(t)
  PROVE  Typed'
<1> USE DEF Typed, Shape
<1>1. ASSUME NEW p \in Paths, LoadFails(t, p) PROVE Typed'
  BY <1>1 DEF LoadFails, TypeWorld, TypeShelf, TypeLocals, registry, locals
<1>2. ASSUME NEW p \in Paths, NEW hot \in BOOLEAN, Load(t, p, hot) PROVE Typed'
  <2>1. TypeLocals'
    BY <1>2, OpenType DEF Load, Steps
  <2> QED
    BY <1>2, <2>1 DEF Load, TypeWorld, TypeShelf, registry
<1>3. CASE LoadStat(t)
  <2>1. CASE Stat(t, "load")
    BY <1>3, <2>1, StatType DEF LoadStat, Steps
  <2>2. CASE Done(t) /\ UNCHANGED <<plugin, shelf, registry>>
    BY <1>3, <2>2, DoneType DEF LoadStat, TypeWorld, TypeShelf, registry, shelf
  <2> QED
    BY <1>3, <2>1, <2>2 DEF LoadStat
<1>4. CASE LoadPlugin(t)
  <2>1. TypeWorld'
    BY <1>4 DEF LoadPlugin, Refuses, Sets, LockRegistry, TypeWorld, TypeLocals, registry
  <2>2. CASE Refuses(hand[t]) /\ Done(t) /\ UNCHANGED shelf
    BY <2>1, <2>2, DoneType DEF TypeShelf, shelf
  <2>3. CASE Sets(hand[t]) /\ Go(t, "insert") /\ UNCHANGED <<shelf, at, hand, copied, scan>>
    BY <2>1, <2>3 DEF TypeShelf, TypeLocals, Go, Steps, shelf
  <2>4. CASE LockRegistry(t)
    BY <2>1, <2>4, PanicType DEF LockRegistry, TypeShelf
  <2> QED
    BY <1>4, <2>2, <2>3, <2>4 DEF LoadPlugin
<1>5. CASE Insert(t)
  BY <1>5 DEF Insert, Go, TypeWorld, TypeShelf, TypeLocals, Steps, registry
<1>6. CASE Push(t)
  <2>1. TypeWorld'
    BY <1>6 DEF Push, TypeWorld, registry
  <2>2. CASE LockList(t)
    BY <1>6, <2>1, <2>2, PanicType DEF Push, LockList, TypeShelf
  <2>3. CASE handles' = Append(handles, at[t]) /\ Done(t) /\ UNCHANGED <<broken, listBroken>>
    <3>1. at[t] \in Handles
      BY <1>6 DEF Push, TypeLocals, Carries, AtPcs
    <3>2. handles' \in Seq(Handles)
      BY <2>3, <3>1 DEF TypeShelf
    <3> QED
      BY <1>6, <2>1, <2>3, <3>2, DoneType DEF Push, TypeShelf
  <2> QED
    BY <1>6, <2>2, <2>3 DEF Push
<1> QED
  BY <1>1, <1>2, <1>3, <1>4, <1>5, <1>6

LEMMA UnloadTypes ==
  ASSUME Shape, NEW t \in Threads,
         (\E h \in Handles : Take(t, h)) \/ UnloadPlugin(t) \/ Retire(t)
  PROVE  Typed'
<1> USE DEF Typed, Shape
<1>1. ASSUME NEW h \in Handles, Take(t, h) PROVE Typed'
  <2>1. TypeWorld' /\ TypeShelf'
    BY <1>1 DEF Take, TypeWorld, TypeShelf, registry
  <2>2. TypeLocals'
    BY ZenonT(30), <1>1 DEF Take, Go, TypeShelf, TypeLocals, Steps
  <2> QED
    BY <2>1, <2>2
<1>2. CASE UnloadPlugin(t)
  <2>1. TypeWorld'
    BY <1>2, Names DEF UnloadPlugin, LockRegistry, TypeWorld, registry
  <2>2. CASE Go(t, "retire") /\ UNCHANGED <<shelf, registryBroken, at, hand, copied, scan>>
    BY <2>1, <2>2 DEF TypeShelf, TypeLocals, Go, Steps, shelf
  <2>3. CASE Panic(t) /\ UNCHANGED <<storage, handles, unloaded, unticked>>
    BY <2>1, <2>3, PanicType DEF TypeShelf
  <2> QED
    BY <1>2, <2>2, <2>3 DEF UnloadPlugin, LockRegistry
<1>3. CASE Retire(t)
  <2>1. TypeWorld'
    BY <1>3 DEF Retire, TypeWorld, registry
  <2>2. CASE LockList(t) /\ UNCHANGED unticked
    BY <1>3, <2>1, <2>2, PanicType DEF Retire, LockList, TypeShelf
  <2>3. CASE /\ handles' = Retained(at[t])
             /\ unloaded' = unloaded \cup {hand[t]}
             /\ unticked' = FALSE
             /\ Done(t)
             /\ UNCHANGED <<broken, listBroken>>
    <3>1. hand[t] \in Plugins
      BY <1>3 DEF Retire, TypeLocals, Carries, HandPcs
    <3>2. handles' \in Seq(Handles)
      BY <2>3, RetainedType DEF TypeShelf
    <3> QED
      BY <1>3, <2>1, <2>3, <3>1, <3>2, DoneType DEF Retire, TypeShelf
  <2> QED
    BY <1>3, <2>2, <2>3 DEF Retire
<1> QED
  BY <1>1, <1>2, <1>3

LEMMA ReloadTypes ==
  ASSUME Shape, NEW t \in Threads,
         \/ \E h \in Handles : ReloadCall(t, h)
         \/ ReloadCopy(t) \/ ReloadStat(t) \/ ReloadUnload(t) \/ ReloadLoad(t)
  PROVE  Typed'
<1> USE DEF Typed, Shape
<1>1. ASSUME NEW h \in Handles, ReloadCall(t, h) PROVE Typed'
  BY <1>1, ReloadType DEF ReloadCall
<1>2. CASE ReloadCopy(t)
  <2>1. at[t] \in Handles /\ storage[at[t]] # None
    BY <1>2 DEF ReloadCopy, TypeLocals, Carries, AtPcs, ReloadSteps
  <2>2. plugin[storage[at[t]]].path \in Paths /\ plugin[storage[at[t]]].hot \in BOOLEAN
    BY <2>1, StoredFields DEF Fields
  <2>3. TypeWorld'
    BY <1>2 DEF ReloadCopy, TypeWorld, registry
  <2>4. CASE /\ Open(t, plugin[storage[at[t]]].path, plugin[storage[at[t]]].hot, "restat")
             /\ UNCHANGED <<shelf, at, hand, scan>>
    <3>1. TypeLocals'
      BY <2>2, <2>4, OpenType DEF Steps, ReloadSteps
    <3> QED
      BY <2>3, <2>4, <3>1 DEF TypeShelf, shelf
  <2>5. CASE Panic(t) /\ UNCHANGED <<storage, handles, unloaded, unticked>>
    BY <2>3, <2>5, PanicType DEF TypeShelf
  <2> QED
    BY <1>2, <2>4, <2>5 DEF ReloadCopy
<1>3. CASE ReloadStat(t)
  <2>1. CASE Stat(t, "unplug")
    BY <1>3, <2>1, StatType DEF ReloadStat, Steps, ReloadSteps
  <2>2. CASE Panic(t) /\ UNCHANGED <<plugin, storage, handles, unloaded, unticked, registry>>
    BY <1>3, <2>2, PanicType DEF ReloadStat, TypeWorld, TypeShelf, registry
  <2> QED
    BY <1>3, <2>1, <2>2 DEF ReloadStat
<1>4. CASE ReloadUnload(t)
  BY <1>4 DEF ReloadUnload, Go, TypeWorld, TypeShelf, TypeLocals, Steps, ReloadSteps,
     shelf
<1>5. CASE ReloadLoad(t)
  <2>1. TypeWorld'
    BY <1>5 DEF ReloadLoad, Refuses, Sets, LockRegistry, TypeWorld, TypeLocals, registry
  <2>2. CASE Swap(t)
    <3>1. at[t] \in Handles /\ storage[at[t]] # None
      BY <1>5 DEF ReloadLoad, TypeLocals, Carries, AtPcs, ReloadSteps
    <3>2. storage' \in [Handles -> Plugins \cup {None}]
      BY <2>2 DEF Swap, TypeShelf, TypeLocals
    <3>3. unloaded' \subseteq Plugins
      BY <2>2, <3>1 DEF Swap, TypeShelf
    <3> QED
      BY <2>1, <2>2, <3>2, <3>3, DoneType DEF Swap, TypeShelf
  <2>3. CASE LockRegistry(t)
    BY <2>1, <2>3, PanicType DEF LockRegistry, TypeShelf
  <2> QED
    BY <1>5, <2>2, <2>3 DEF ReloadLoad
<1> QED
  BY <1>1, <1>2, <1>3, <1>4, <1>5

LEMMA TickTypes ==
  ASSUME Shape, NEW t \in Threads,
         \/ \E h \in Handles : \E p \in Paths : SetPath(t, h, p)
         \/ Tick(t) \/ Peek(t) \/ Scan(t) \/ TickReload(t) \/ TickEnd(t)
  PROVE  Typed'
<1> USE DEF Typed, Shape
<1>1. ASSUME NEW h \in Handles, NEW p \in Paths, SetPath(t, h, p) PROVE Typed'
  <2>1. storage[h] \in Plugins /\ plugin[storage[h]] \in Fields
    BY <1>1, StoredFields DEF SetPath, Given
  <2>2. plugin' \in [Plugins -> Fields \cup {None}]
    <3>1. CASE UNCHANGED plugin
      BY <3>1 DEF TypeWorld
    <3>2. ASSUME NEW same \in SameSecond,
                 plugin' = [plugin EXCEPT ![storage[h]].path = p,
                                          ![storage[h]].stamped = same,
                                          ![storage[h]].current = FALSE]
          PROVE  plugin' \in [Plugins -> Fields \cup {None}]
      <4>1. \A r \in Fields :
              [[[r EXCEPT !.path = p] EXCEPT !.stamped = same] EXCEPT !.current = FALSE] \in Fields
        BY Names DEF Fields
      <4> QED
        BY <2>1, <3>2, <4>1 DEF TypeWorld
    <3> QED
      BY <1>1, <3>1, <3>2 DEF SetPath
  <2> QED
    BY <1>1, <2>2 DEF SetPath, TypeWorld, TypeShelf, TypeLocals, registry, locals
<1>2. CASE Tick(t)
  <2>1. CASE LockList(t) /\ UNCHANGED <<unticked, current_index>>
    BY <1>2, <2>1, PanicType DEF Tick, LockList, TypeWorld, TypeShelf, registry
  <2>2. CASE /\ handles # <<>>
             /\ Go(t, "peek")
             /\ scan' = [scan EXCEPT ![t] = Place]
             /\ current_index' = (current_index + 1) % Rounds
             /\ UNCHANGED <<shelf, registry, at, hand, copied>>
    <3>1. current_index' \in 0 .. Rounds - 1
      BY <2>2, Names DEF TypeWorld
    <3>2. Place \in DOMAIN handles
      BY <2>2, PlaceIsThere
    <3> QED
      BY <1>2, <2>2, <3>1, <3>2 DEF Tick, Go, TypeWorld, TypeShelf, TypeLocals, Steps,
         registry, shelf
  <2> QED
    BY <1>2, <2>1, <2>2 DEF Tick
<1>3. CASE Peek(t) \/ Scan(t)
  <2>1. CASE Panic(t) /\ UNCHANGED <<storage, handles, unloaded, unticked>>
    BY <1>3, <2>1, PanicType DEF Peek, Scan, TypeWorld, TypeShelf, registry
  <2>2. CASE UNCHANGED <<shelf, at, hand, copied>>
    <3>1. pc' \in [Threads -> Steps] /\ scan' \in [Threads -> Nat]
      <4>1. CASE Peek(t)
        BY <4>1, <2>2 DEF Peek, Panic, Go, TypeLocals, Steps
      <4>2. CASE Scan(t)
        <5>1. CASE Panic(t)
          BY <5>1, PanicType DEF TypeLocals
        <5>2. CASE Go(t, "again") /\ UNCHANGED scan
          BY <5>2 DEF Go, TypeLocals, Steps
        <5>3. CASE scan' = [scan EXCEPT ![t] = @ + 1] /\ UNCHANGED pc
          BY <5>3 DEF TypeLocals
        <5> QED
          BY <4>2, <5>1, <5>2, <5>3 DEF Scan
      <4> QED
        BY <1>3, <4>1, <4>2
    <3> QED
      BY <1>3, <2>2, <3>1 DEF Peek, Scan, TypeWorld, TypeShelf, TypeLocals, registry,
         shelf
  <2> QED
    BY <1>3, <2>1, <2>2 DEF Peek, Scan
<1>4. CASE TickReload(t)
  <2>1. CASE Reload(t, handles[scan[t]])
    <3>1. handles[scan[t]] \in Handles
      BY <1>4 DEF TickReload, TypeShelf, Carries
    <3> QED
      BY <2>1, <3>1, ReloadType
  <2>2. CASE Done(t) /\ UNCHANGED <<disk, plugin, shelf, current_index, registry>>
    BY <2>2, DoneType DEF TypeWorld, TypeShelf, registry, shelf
  <2> QED
    BY <1>4, <2>1, <2>2 DEF TickReload
<1>5. CASE TickEnd(t)
  BY <1>5 DEF TickEnd, Go, TypeWorld, TypeShelf, TypeLocals, Steps, registry, shelf
<1> QED
  BY <1>1, <1>2, <1>3, <1>4, <1>5

LEMMA BuildTypes ==
  ASSUME Shape, NEW p \in Paths, BuildBegin(p) \/ BuildEnd(p)
  PROVE  Typed'
<1> USE DEF Typed, Shape
<1>1. CASE BuildBegin(p)
  <2>1. disk' \in [Paths -> {"whole", "partial", "absent"}]
    BY <1>1 DEF BuildBegin, TypeWorld
  <2>2. plugin' \in [Plugins -> Fields \cup {None}]
    <3>1. PICK same \in SameSecond :
            plugin' = [d \in Plugins |->
              IF plugin[d] = None \/ plugin[d].path # p THEN plugin[d]
              ELSE [plugin[d] EXCEPT !.current = FALSE, !.stamped = @ /\ same]]
      BY <1>1 DEF BuildBegin, TypeWorld
    <3>2. \A r \in Fields : [r EXCEPT !.current = FALSE, !.stamped = @ /\ same] \in Fields
      BY DEF Fields
    <3> QED
      BY <3>1, <3>2 DEF TypeWorld
  <2>3. copied' \in [Threads -> Copies \cup {None}]
    <3>1. \A r \in Copies : [r EXCEPT !.current = FALSE] \in Copies
      BY DEF Copies
    <3> QED
      BY <1>1, <3>1 DEF BuildBegin, TypeLocals
  <2> QED
    BY <1>1, <2>1, <2>2, <2>3 DEF BuildBegin, TypeShelf, TypeLocals, shelf, registry,
       TypeWorld
<1>2. CASE BuildEnd(p)
  <2>1. disk' \in [Paths -> {"whole", "partial", "absent"}]
    BY <1>2 DEF BuildEnd, TypeWorld
  <2>2. plugin' \in [Plugins -> Fields \cup {None}]
    BY <1>2, Names DEF BuildEnd, Fields, TypeWorld
  <2> QED
    BY <1>2, <2>1, <2>2 DEF BuildEnd, TypeShelf, TypeLocals, shelf, registry, locals,
       TypeWorld
<1> QED
  BY <1>1, <1>2

-----------------------------------------------------------------------------
(* Every step keeps what calls carry *)

LEMMA OpenCarries ==
  ASSUME Shape, NEW t \in Threads, NEW p \in Paths, NEW hot \in BOOLEAN, NEW s,
         Open(t, p, hot, s)
  PROVE  pc'[t] = s /\ copied'[t] # None
<1>1. [path |-> p, hot |-> hot, current |-> TRUE] \in Copies
  BY DEF Copies
<1> QED
  BY <1>1, FieldsAssumption DEF Open, Go, Shape, TypeLocals

LEMMA OthersCarry ==
  ASSUME Shape, NEW t \in Threads, Move(t), NEW u \in Threads \ {t}
  PROVE  Carries(u)'
<1> USE DEF Shape, Carries, TypeLocals, TypeShelf, HandPcs, AtPcs, locals, ScanPcs,
            shelf, Go, Panic
<1>1. ASSUME NEW p \in Paths, LoadFails(t, p) PROVE Carries(u)'
  BY <1>1, Names DEF LoadFails, ReloadSteps
<1>2. ASSUME NEW p \in Paths, NEW hot \in BOOLEAN, Load(t, p, hot) PROVE Carries(u)'
  BY <1>2, Names DEF Load, Open
<1>3. CASE LoadStat(t)
  BY <1>3, Names DEF LoadStat, Stat, Done, FreshPlugin
<1>4. CASE LoadPlugin(t)
  BY <1>4, Names DEF LoadPlugin, Refuses, Sets, Done, LockRegistry, ReloadSteps
<1>5. CASE Insert(t)
  BY <1>5, Names DEF Insert, FreshKey, FreeKey, ReloadSteps
<1>6. CASE Push(t)
  BY <1>6, Names DEF Push, Done, LockList, ListLocked
<1>7. ASSUME NEW h \in Handles, Take(t, h) PROVE Carries(u)'
  BY <1>7, Names DEF Take, Given, Locked, ReloadSteps
<1>8. CASE UnloadPlugin(t)
  BY <1>8, Names DEF UnloadPlugin, LockRegistry, ReloadSteps
<1>9. CASE Retire(t)
  BY <1>9, Names DEF Retire, Done, LockList, ListLocked
<1>10. ASSUME NEW h \in Handles, ReloadCall(t, h) PROVE Carries(u)'
  BY <1>10, Names DEF ReloadCall, Reload, Done
<1>11. CASE ReloadCopy(t)
  BY <1>11, Names DEF ReloadCopy, Open, ReloadSteps
<1>12. CASE ReloadStat(t)
  BY <1>12, Names DEF ReloadStat, Stat, FreshPlugin
<1>13. CASE ReloadUnload(t)
  BY <1>13, Names DEF ReloadUnload
<1>14. CASE ReloadLoad(t)
  BY <1>14, Names DEF ReloadLoad, Refuses, Sets, Swap, Done, LockRegistry, ReloadSteps
<1>15. ASSUME NEW h \in Handles, NEW p \in Paths, SetPath(t, h, p) PROVE Carries(u)'
  BY <1>15, Names DEF SetPath, ReloadSteps
<1>16. CASE Tick(t)
  BY <1>16, Names DEF Tick, LockList, ListLocked
<1>17. CASE Peek(t)
  BY <1>17, Names DEF Peek, ReloadSteps
<1>18. CASE Scan(t)
  BY <1>18, Names DEF Scan, ReloadSteps
<1>19. CASE TickReload(t)
  BY <1>19, Names DEF TickReload, Reload, Done
<1>20. CASE TickEnd(t)
  BY <1>20, Names DEF TickEnd
<1> HIDE DEF Shape, Carries, TypeLocals, TypeShelf, HandPcs, AtPcs, locals, ScanPcs,
             shelf, Go, Panic
<1> QED
  BY Moves, <1>1, <1>2, <1>3, <1>4, <1>5, <1>6, <1>7, <1>8, <1>9, <1>10, <1>11, <1>12,
     <1>13, <1>14, <1>15, <1>16, <1>17, <1>18, <1>19, <1>20

LEMMA MineCarries ==
  ASSUME Shape, NEW t \in Threads, Move(t)
  PROVE  Carries(t)'
<1> USE DEF Shape, TypeLocals, Carries, AtPcs, ReloadSteps, TypeShelf, HandPcs, ScanPcs,
            shelf, locals
<1>1. ASSUME NEW p \in Paths, LoadFails(t, p) PROVE Carries(t)'
  BY <1>1, Names DEF LoadFails
<1>2. ASSUME NEW p \in Paths, NEW hot \in BOOLEAN, Load(t, p, hot) PROVE Carries(t)'
  BY <1>2, OpenCarries DEF Load
<1>3. CASE LoadStat(t)
  BY <1>3, Names DEF LoadStat, Stat, Go, Done, FreshPlugin
<1>4. CASE LoadPlugin(t)
  BY <1>4, Names DEF LoadPlugin, Refuses, Sets, Done, Go, LockRegistry, Panic
<1>5. CASE Insert(t)
  <2>1. PICK h \in Handles : at' = [at EXCEPT ![t] = h]
    BY <1>5 DEF Insert
  <2>2. pc'[t] = "push" /\ at'[t] # None /\ scan'[t] = scan[t]
    BY <1>5, <2>1, Names DEF Insert, Go
  <2> QED
    BY <1>5, <2>2 DEF Insert
<1>6. CASE Push(t)
  BY <1>6, Names DEF Push, Done, LockList, Panic, ListLocked
<1>7. ASSUME NEW h \in Handles, Take(t, h) PROVE Carries(t)'
  BY <1>7, Names DEF Take, Go, Given, Locked
<1>8. CASE UnloadPlugin(t)
  BY <1>8, Names DEF UnloadPlugin, Go, Panic, LockRegistry
<1>9. CASE Retire(t)
  BY <1>9, Names DEF Retire, Done, LockList, Panic, ListLocked
<1>10. ASSUME NEW h \in Handles, ReloadCall(t, h) PROVE Carries(t)'
  BY <1>10, Names DEF ReloadCall, Reload, Panic, Done, Go
<1>11. CASE ReloadCopy(t)
  <2>1. at[t] \in Handles /\ storage[at[t]] # None
    BY <1>11, Names DEF ReloadCopy
  <2>2. plugin[storage[at[t]]].path \in Paths /\ plugin[storage[at[t]]].hot \in BOOLEAN
    BY <2>1, StoredFields DEF Fields
  <2> QED
    BY <1>11, <2>1, <2>2, OpenCarries, Names DEF ReloadCopy, Panic
<1>12. CASE ReloadStat(t)
  BY <1>12, Names DEF ReloadStat, Stat, Go, Panic, FreshPlugin
<1>13. CASE ReloadUnload(t)
  BY <1>13, Names DEF ReloadUnload, Go
<1>14. CASE ReloadLoad(t)
  BY <1>14, Names DEF ReloadLoad, Refuses, Sets, Swap, Done, LockRegistry, Panic
<1>15. ASSUME NEW h \in Handles, NEW p \in Paths, SetPath(t, h, p) PROVE Carries(t)'
  BY <1>15, Names DEF SetPath
<1>16. CASE Tick(t)
  BY <1>16, Names, PlaceIsThere DEF Tick, LockList, Panic, Go, ListLocked
<1>17. CASE Peek(t)
  BY <1>17, Names DEF Peek, Panic, Go
<1>18. CASE Scan(t)
  BY <1>18, Names DEF Scan, Panic, Go
<1>19. CASE TickReload(t)
  BY <1>19, Names DEF TickReload, Reload, Panic, Done, Go
<1>20. CASE TickEnd(t)
  BY <1>20, Names DEF TickEnd, Go
<1> HIDE DEF Shape, TypeLocals, Carries, AtPcs, ReloadSteps, TypeShelf, HandPcs,
             ScanPcs, shelf, locals
<1> QED
  BY Moves, <1>1, <1>2, <1>3, <1>4, <1>5, <1>6, <1>7, <1>8, <1>9, <1>10, <1>11, <1>12,
     <1>13, <1>14, <1>15, <1>16, <1>17, <1>18, <1>19, <1>20

LEMMA BuildsCarry ==
  ASSUME Shape, NEW p \in Paths, BuildBegin(p) \/ BuildEnd(p), NEW t \in Threads
  PROVE  Carries(t)'
<1>1. \A c \in Copies : [c EXCEPT !.current = FALSE] \in Copies
  BY DEF Copies
<1>2. copied[t] # None => copied'[t] # None
  <2>1. CASE BuildBegin(p)
    <3>1. copied[t] # None => copied'[t] \in Copies
      BY <1>1, <2>1 DEF BuildBegin, Shape, TypeLocals
    <3> QED
      BY <3>1, FieldsAssumption
  <2>2. CASE BuildEnd(p)
    BY <2>2 DEF BuildEnd, locals
  <2> QED
    BY <2>1, <2>2
<1>3. UNCHANGED <<pc, at, hand, scan, shelf>>
  BY DEF BuildBegin, BuildEnd, locals
<1> QED
  BY <1>2, <1>3 DEF Shape, Carries, shelf

LEMMA StatFields ==
  ASSUME Shape, NEW t \in Threads, pc[t] \in {"stat", "restat"}, NEW s \in Steps,
         Stat(t, s), UNCHANGED <<disk, current_index>>
  PROVE  FieldsThere'
<1>1. copied[t] \in Copies
  BY DEF Shape, Carries, TypeLocals
<1>2. PICK d \in Plugins :
        /\ plugin' = [plugin EXCEPT ![d] =
             [lib |-> copied[t].path, path |-> copied[t].path, hot |-> copied[t].hot,
              stamped |-> TRUE, current |-> copied[t].current]]
        /\ hand' = [hand EXCEPT ![t] = d]
  BY DEF Stat
<1>3. [lib |-> copied[t].path, path |-> copied[t].path, hot |-> copied[t].hot,
       stamped |-> TRUE, current |-> copied[t].current] \in Fields
  BY <1>1 DEF Copies, Fields
<1>4. \A e \in Plugins : plugin[e] # None \/ e = d => plugin'[e] # None
  BY <1>2, <1>3, FieldsAssumption DEF Shape, TypeWorld
<1> QED
  BY <1>2, <1>4 DEF Stat, FieldsThere, Shape

\* A plugin that is moved still has fields.
LEMMA MovedFields ==
  ASSUME Shape, NEW h \in Handles, NEW p \in Paths, NEW same \in SameSecond,
         plugin' = [plugin EXCEPT ![storage[h]].path = p,
                                  ![storage[h]].stamped = same,
                                  ![storage[h]].current = FALSE],
         NEW e \in Plugins, plugin[e] # None
  PROVE  plugin'[e] # None
<1>1. \A r \in Fields :
        [[[r EXCEPT !.path = p] EXCEPT !.stamped = same] EXCEPT !.current = FALSE] # None
  BY FieldsAssumption, Names DEF Fields
<1> QED
  BY <1>1 DEF Shape, TypeWorld

LEMMA FieldsKept ==
  ASSUME Shape, NEW t \in Threads, Move(t)
  PROVE  FieldsThere'
<1> USE DEF Shape, FieldsThere, ReloadSteps, Carries, HandPcs, AtPcs, shelf, locals,
            TypeShelf
<1>1. ASSUME NEW p \in Paths, LoadFails(t, p) PROVE FieldsThere'
  BY <1>1 DEF LoadFails, TypeLocals
<1>2. ASSUME NEW p \in Paths, NEW hot \in BOOLEAN, Load(t, p, hot) PROVE FieldsThere'
  BY <1>2 DEF Load, Open, Go
<1>3. CASE LoadStat(t)
  <2>1. CASE Stat(t, "load")
    BY <1>3, <2>1, StatFields DEF LoadStat, Steps
  <2>2. CASE Done(t) /\ UNCHANGED <<plugin, shelf, registry>>
    BY <2>2 DEF Done, TypeLocals
  <2> QED
    BY <1>3, <2>1, <2>2 DEF LoadStat
<1>4. CASE LoadPlugin(t)
  BY <1>4 DEF LoadPlugin, Refuses, Sets, Done, Go, LockRegistry, Panic, TypeLocals
<1>5. CASE Insert(t)
  BY <1>5 DEF Insert, Go, FreshKey, FreeKey, TypeLocals
<1>6. CASE Push(t)
  BY <1>6 DEF Push, Done, LockList, Panic, ListLocked, TypeLocals
<1>7. ASSUME NEW h \in Handles, Take(t, h) PROVE FieldsThere'
  BY <1>7 DEF Take, Go, Given, Locked, TypeLocals
<1>8. CASE UnloadPlugin(t)
  BY <1>8 DEF UnloadPlugin, Go, Panic, LockRegistry, TypeLocals
<1>9. CASE Retire(t)
  BY <1>9 DEF Retire, Done, LockList, Panic, ListLocked, TypeLocals
<1>10. ASSUME NEW h \in Handles, ReloadCall(t, h) PROVE FieldsThere'
  BY <1>10 DEF ReloadCall, Reload, Panic, Done, Go, TypeLocals
<1>11. CASE ReloadCopy(t)
  BY <1>11 DEF ReloadCopy, Open, Go, Panic, TypeLocals
<1>12. CASE ReloadStat(t)
  <2>1. CASE Stat(t, "unplug")
    BY <1>12, <2>1, StatFields DEF ReloadStat, Steps
  <2>2. CASE Panic(t) /\ UNCHANGED <<plugin, storage, handles, unloaded, unticked, registry>>
    BY <2>2 DEF Panic
  <2> QED
    BY <1>12, <2>1, <2>2 DEF ReloadStat
<1>13. CASE ReloadUnload(t)
  BY <1>13 DEF ReloadUnload, Go
<1>14. CASE ReloadLoad(t)
  BY <1>14 DEF ReloadLoad, Refuses, Sets, Swap, Done, LockRegistry, Panic, TypeLocals
<1>15. ASSUME NEW h \in Handles, NEW p \in Paths, SetPath(t, h, p) PROVE FieldsThere'
  <2>1. \A e \in Plugins : plugin[e] # None => plugin'[e] # None
    <3>1. CASE UNCHANGED plugin
      BY <3>1
    <3>2. ASSUME NEW same \in SameSecond,
                 plugin' = [plugin EXCEPT ![storage[h]].path = p,
                                          ![storage[h]].stamped = same,
                                          ![storage[h]].current = FALSE],
                 NEW e \in Plugins, plugin[e] # None
          PROVE  plugin'[e] # None
      BY <3>2, MovedFields
    <3> QED
      BY <1>15, <3>1, <3>2 DEF SetPath
  <2> QED
    BY <1>15, <2>1 DEF SetPath, TypeLocals
<1>16. CASE Tick(t)
  BY <1>16 DEF Tick, LockList, Panic, Go, ListLocked, TypeLocals
<1>17. CASE Peek(t)
  BY <1>17 DEF Peek, Panic, Go, TypeLocals
<1>18. CASE Scan(t)
  BY <1>18 DEF Scan, Panic, Go, TypeLocals
<1>19. CASE TickReload(t)
  BY ZenonT(30), <1>19 DEF TickReload, Reload, Panic, Done, Go, TypeLocals
<1>20. CASE TickEnd(t)
  BY <1>20 DEF TickEnd, Go
<1> QED
  BY Moves, <1>1, <1>2, <1>3, <1>4, <1>5, <1>6, <1>7, <1>8, <1>9, <1>10, <1>11, <1>12,
     <1>13, <1>14, <1>15, <1>16, <1>17, <1>18, <1>19, <1>20

LEMMA BuildsKeepFields ==
  ASSUME Shape, NEW p \in Paths, BuildBegin(p) \/ BuildEnd(p)
  PROVE  FieldsThere'
<1>1. PICK same \in SameSecond :
        \/ plugin' = [d \in Plugins |->
             IF plugin[d] = None \/ plugin[d].path # p THEN plugin[d]
             ELSE [plugin[d] EXCEPT !.current = FALSE, !.stamped = @ /\ same]]
        \/ plugin' = [d \in Plugins |->
             IF plugin[d] = None \/ plugin[d].path # p THEN plugin[d]
             ELSE [plugin[d] EXCEPT !.stamped = @ /\ same]]
  BY DEF BuildBegin, BuildEnd
<1>2. \A r \in Fields : /\ [r EXCEPT !.current = FALSE, !.stamped = @ /\ same] # None
                       /\ [r EXCEPT !.stamped = @ /\ same] # None
  BY FieldsAssumption DEF Fields
<1>3. \A d \in Plugins : plugin[d] # None => plugin'[d] # None
  BY ZenonT(30), <1>1, <1>2 DEF Shape, TypeWorld
<1> QED
  <2>1. UNCHANGED <<storage, hand>>
    BY DEF BuildBegin, BuildEnd, locals, shelf
  <2> QED
    BY <1>3, <2>1 DEF FieldsThere, Shape, TypeShelf, TypeLocals

LEMMA ShapeKept ==
  ASSUME Shape, [Next]_vars
  PROVE  Shape'
<1> USE DEF Shape
<1>1. ASSUME NEW t \in Threads, Move(t) PROVE Shape'
  <2>1. Typed'
    BY <1>1, Moves, LoadTypes, UnloadTypes, ReloadTypes, TickTypes
  <2>2. \A u \in Threads : Carries(u)'
    BY <1>1, MineCarries, OthersCarry
  <2> QED
    BY <1>1, <2>1, <2>2, FieldsKept DEF Typed
<1>2. ASSUME NEW p \in Paths, BuildBegin(p) \/ BuildEnd(p) PROVE Shape'
  BY <1>2, BuildTypes, BuildsCarry, BuildsKeepFields DEF Typed
<1>3. CASE UNCHANGED vars
  <2>1. TypeWorld' /\ TypeShelf' /\ TypeLocals'
    BY <1>3 DEF vars, shelf, registry, locals, TypeWorld, TypeShelf, TypeLocals
  <2>2. FieldsThere'
    BY <1>3 DEF vars, shelf, locals, FieldsThere
  <2>3. ASSUME NEW t \in Threads PROVE Carries(t)'
    BY <1>3 DEF vars, shelf, locals, Carries
  <2> QED
    BY <2>1, <2>2, <2>3
<1> QED
  BY <1>1, <1>2, <1>3, NextIsMove

\* Every variable of the registry keeps its type (TypeOK), for any threads,
\* libraries, plugins and handles, whenever libraries are built.
THEOREM TypeCorrect == Spec => []TypeOK
<1>1. Spec => []Shape
  BY InitShape, ShapeKept, PTL DEF Spec
<1>2. Shape => TypeOK
  BY TypeParts DEF Shape
<1> QED
  BY <1>1, <1>2, PTL

-----------------------------------------------------------------------------
(* Deadlock and the version tick follow from the shape *)

\* Whenever threads are inside calls, one of them can go on (SomeoneGoesOn): who
\* waits for the list waits for a tick, and who waits for a plugin waits for a
\* reload, which waits for nobody.
THEOREM SomeoneGoesOnHolds == Spec => []SomeoneGoesOn
<1> DEFINE busy == {t \in Threads : pc[t] \notin {"idle", "panicked"}}
           waits == {t \in busy :
             \/ pc[t] \in {"push", "retire"} /\ ListLocked
             \/ pc[t] \in {"peek", "scan", "again"}
                  /\ scan[t] \in DOMAIN handles /\ Locked(handles[scan[t]])}
<1>1. ASSUME Shape, busy # {}, waits = busy PROVE FALSE
  <2>1. \A t \in Threads : pc[t] \notin ReloadSteps
    BY <1>1 DEF ReloadSteps
  <2>2. \A h : ~Locked(h)
    BY <2>1 DEF Locked
  <2>3. \A t \in Threads : pc[t] \notin ScanPcs
    BY <1>1, <2>2 DEF ScanPcs
  <2>4. ~ListLocked
    BY <1>1, <2>1, <2>3 DEF ListLocked, Shape, Carries
  <2> QED
    BY <1>1, <2>2, <2>4
<1>2. Shape => SomeoneGoesOn
  BY <1>1 DEF SomeoneGoesOn
<1>3. Spec => []Shape
  BY InitShape, ShapeKept, PTL DEF Spec
<1> QED
  BY <1>2, <1>3, PTL

LEMMA PanicsLast ==
  ASSUME Shape, NEW t \in Threads, Move(t), Panicked
  PROVE  Panicked'
<1> SUFFICES ASSUME NEW u \in Threads, pc[u] = "panicked" PROVE pc'[u] = "panicked"
  BY DEF Panicked
<1> USE DEF Shape, TypeLocals, Go
<1>1. ASSUME NEW p \in Paths, LoadFails(t, p) PROVE pc'[u] = "panicked"
  BY <1>1 DEF LoadFails, locals, ReloadSteps
<1>2. ASSUME NEW p \in Paths, NEW hot \in BOOLEAN, Load(t, p, hot) PROVE pc'[u] = "panicked"
  BY <1>2 DEF Load, Open, ReloadSteps
<1>3. CASE LoadStat(t)
  BY <1>3 DEF LoadStat, Stat, Done, FreshPlugin, locals, ReloadSteps
<1>4. CASE LoadPlugin(t)
  BY <1>4 DEF LoadPlugin, Refuses, Sets, Done, LockRegistry, Panic
<1>5. CASE Insert(t)
  BY <1>5 DEF Insert, FreshKey, FreeKey, locals, ReloadSteps
<1>6. CASE Push(t)
  BY <1>6 DEF Push, Done, LockList, Panic, ListLocked, locals, ReloadSteps
<1>7. ASSUME NEW h \in Handles, Take(t, h) PROVE pc'[u] = "panicked"
  BY <1>7 DEF Take, Given, Locked
<1>8. CASE UnloadPlugin(t)
  BY <1>8 DEF UnloadPlugin, Panic, LockRegistry
<1>9. CASE Retire(t)
  BY <1>9 DEF Retire, Done, LockList, Panic, ListLocked, locals, ReloadSteps
<1>10. ASSUME NEW h \in Handles, ReloadCall(t, h) PROVE pc'[u] = "panicked"
  BY <1>10 DEF ReloadCall, Reload, Panic, Done, locals, ReloadSteps
<1>11. CASE ReloadCopy(t)
  BY <1>11 DEF ReloadCopy, Open, Panic
<1>12. CASE ReloadStat(t)
  BY <1>12 DEF ReloadStat, Stat, Panic, FreshPlugin, locals, ReloadSteps
<1>13. CASE ReloadUnload(t)
  BY <1>13 DEF ReloadUnload
<1>14. CASE ReloadLoad(t)
  BY <1>14 DEF ReloadLoad, Refuses, Sets, Swap, Done, LockRegistry, Panic
<1>15. ASSUME NEW h \in Handles, NEW p \in Paths, SetPath(t, h, p) PROVE pc'[u] = "panicked"
  BY <1>15 DEF SetPath, locals, ReloadSteps
<1>16. CASE Tick(t)
  BY <1>16 DEF Tick, LockList, Panic, ListLocked, locals, ReloadSteps
<1>17. CASE Peek(t)
  BY <1>17 DEF Peek, Panic, locals
<1>18. CASE Scan(t)
  BY <1>18 DEF Scan, Panic, locals
<1>19. CASE TickReload(t)
  BY <1>19 DEF TickReload, Reload, Panic, Done, locals, ReloadSteps
<1>20. CASE TickEnd(t)
  BY <1>20 DEF TickEnd
<1> QED
  BY Moves, <1>1, <1>2, <1>3, <1>4, <1>5, <1>6, <1>7, <1>8, <1>9, <1>10, <1>11, <1>12,
     <1>13, <1>14, <1>15, <1>16, <1>17, <1>18, <1>19, <1>20

LEMMA TickFollowsKept ==
  ASSUME Shape, TickFollows, NEW t \in Threads, Move(t)
  PROVE  TickFollows'
<1> SUFFICES ASSUME ~Panicked PROVE TickFollows'
  BY PanicsLast DEF TickFollows
<1> USE DEF TickFollows, Panicked, Shape, TypeLocals, Go, locals, shelf
<1>1. ASSUME NEW p \in Paths, LoadFails(t, p) PROVE TickFollows'
  BY <1>1 DEF LoadFails
<1>2. ASSUME NEW p \in Paths, NEW hot \in BOOLEAN, Load(t, p, hot) PROVE TickFollows'
  BY <1>2 DEF Load, Open
<1>3. CASE LoadStat(t)
  BY <1>3 DEF LoadStat, Stat, Done, FreshPlugin, ReloadSteps
<1>4. CASE LoadPlugin(t)
  BY <1>4 DEF LoadPlugin, Refuses, Sets, Done, LockRegistry, Panic, ReloadSteps
<1>5. CASE Insert(t)
  BY <1>5 DEF Insert, FreshKey, FreeKey, ReloadSteps
<1>6. CASE Push(t)
  BY <1>6 DEF Push, Done, LockList, Panic, ListLocked
<1>7. ASSUME NEW h \in Handles, Take(t, h) PROVE TickFollows'
  BY <1>7 DEF Take, Given, Locked, ReloadSteps
<1>8. CASE UnloadPlugin(t)
  BY <1>8 DEF UnloadPlugin, Panic, LockRegistry, ReloadSteps
<1>9. CASE Retire(t)
  BY <1>9 DEF Retire, Done, LockList, Panic, ListLocked
<1>10. ASSUME NEW h \in Handles, ReloadCall(t, h) PROVE TickFollows'
  BY <1>10 DEF ReloadCall, Reload, Panic, Done
<1>11. CASE ReloadCopy(t)
  BY <1>11 DEF ReloadCopy, Open, Panic, ReloadSteps
<1>12. CASE ReloadStat(t)
  BY <1>12 DEF ReloadStat, Stat, Panic, FreshPlugin
<1>13. CASE ReloadUnload(t)
  BY <1>13 DEF ReloadUnload, ReloadSteps
<1>14. CASE ReloadLoad(t)
  BY <1>14 DEF ReloadLoad, Refuses, Sets, Swap, Done, LockRegistry, Panic, ReloadSteps
<1>15. ASSUME NEW h \in Handles, NEW p \in Paths, SetPath(t, h, p) PROVE TickFollows'
  BY <1>15 DEF SetPath
<1>16. CASE Tick(t)
  BY <1>16 DEF Tick, LockList, Panic, ListLocked
<1>17. CASE Peek(t)
  BY <1>17 DEF Peek, Panic, ReloadSteps
<1>18. CASE Scan(t)
  BY <1>18 DEF Scan, Panic, ReloadSteps
<1>19. CASE TickReload(t)
  BY <1>19 DEF TickReload, Reload, Panic, Done
<1>20. CASE TickEnd(t)
  BY <1>20 DEF TickEnd, ReloadSteps
<1> QED
  BY Moves, <1>1, <1>2, <1>3, <1>4, <1>5, <1>6, <1>7, <1>8, <1>9, <1>10, <1>11, <1>12,
     <1>13, <1>14, <1>15, <1>16, <1>17, <1>18, <1>19, <1>20

\* While no call has panicked, a change of the storage that no version tick has
\* followed yet belongs to a call that is still under way (TickFollows).
THEOREM TickFollowsHolds == Spec => []TickFollows
<1>1. Init => TickFollows
  BY DEF Init, TickFollows
<1>2. ASSUME Shape, TickFollows, [Next]_vars PROVE TickFollows'
  <2>1. ASSUME NEW t \in Threads, Move(t) PROVE TickFollows'
    BY <1>2, <2>1, TickFollowsKept
  <2>2. CASE UNCHANGED <<unticked, pc>>
    BY <1>2, <2>2 DEF TickFollows, Panicked
  <2>3. ASSUME NEW p \in Paths, BuildBegin(p) \/ BuildEnd(p) PROVE UNCHANGED <<unticked, pc>>
    BY <2>3 DEF BuildBegin, BuildEnd, shelf, locals
  <2>4. UNCHANGED vars => UNCHANGED <<unticked, pc>>
    BY DEF vars, shelf, locals
  <2> QED
    BY <1>2, <2>1, <2>2, <2>3, <2>4, NextIsMove
<1> QED
  BY <1>1, <1>2, InitShape, ShapeKept, PTL DEF Spec

-----------------------------------------------------------------------------
(* Contexts and libraries: who has which plugin *)

\* A plugin is in one place.
HandsApart ==
  \A t, u \in Threads : t # u /\ hand[t] # None => hand[t] # hand[u]
StoredApart ==
  \A h, k \in Handles : h # k /\ storage[h] # None => storage[h] # storage[k]
HandNotStored ==
  \A t \in Threads : \A h \in Handles : hand[t] # None => hand[t] # storage[h]

\* Only a call on its way has one in hand.
HandsHaveSteps == \A t \in Threads : hand[t] # None => pc[t] \in HandPcs

\* A plugin is reloaded by one call at a time.
OneReload ==
  \A t, u \in Threads :
    t # u /\ pc[t] \in ReloadSteps /\ pc[u] \in ReloadSteps => at[t] # at[u]

\* The context and the api of a plugin that t has in hand, and the context of
\* the one that t's reload is about to replace.
Backed(t) ==
  /\ pc[t] \in {"load", "insert", "unplug", "plug"} => hand[t] \in live
  /\ pc[t] \in {"load", "unplug", "plug"} => ~Registered(hand[t])
  /\ pc[t] = "plug" => storage[at[t]] \notin live
  /\ pc[t] = "retire" => hand[t] \notin live

Places ==
  /\ HandsApart /\ StoredApart /\ HandNotStored /\ HandsHaveSteps /\ OneReload
  /\ \A t \in Threads : Backed(t)

\* A new plugin and a new handle are nobody's.
LEMMA StatFresh ==
  ASSUME Shape, NEW t \in Threads, NEW s, Stat(t, s)
  PROVE  \E d \in Plugins :
           /\ ~Stored(d) /\ ~InHand(d) /\ ~Registered(d) /\ d \notin live
           /\ hand' = [hand EXCEPT ![t] = d]
           /\ live' = live \cup {d}
           /\ unloaded' = unloaded \ {d}
           /\ pc' = [pc EXCEPT ![t] = s]
           /\ UNCHANGED <<storage, broken, handles, listBroken, unticked, api, registryBroken, at, scan>>
BY DEF Stat, FreshPlugin, Unused, Go

LEMMA InsertFresh ==
  ASSUME Shape, NEW t \in Threads, Insert(t)
  PROVE  \E h \in Handles :
           /\ pc[t] = "insert" /\ storage[h] = None
           /\ \A u \in Threads : at[u] # h
           /\ storage' = [storage EXCEPT ![h] = hand[t]]
           /\ hand' = [hand EXCEPT ![t] = None]
           /\ at' = [at EXCEPT ![t] = h]
           /\ pc' = [pc EXCEPT ![t] = "push"]
           /\ UNCHANGED <<live, api, unloaded, broken, scan, registryBroken>>
BY DEF Insert, FreshKey, FreeKey, Go, registry

LEMMA HandsApartKept ==
  ASSUME Shape, Places, NEW t \in Threads, Move(t)
  PROVE  HandsApart'
<1> USE DEF Places, HandsApart, Shape, TypeLocals, Carries, TypeShelf, HandPcs, AtPcs,
            ReloadSteps, shelf, locals, HandNotStored
<1>1. ASSUME NEW p \in Paths, LoadFails(t, p) PROVE HandsApart'
  BY <1>1, Names DEF LoadFails, registry
<1>2. ASSUME NEW p \in Paths, NEW hot \in BOOLEAN, Load(t, p, hot) PROVE HandsApart'
  BY <1>2, Names DEF Load, Open, Go, registry
<1>3. CASE LoadStat(t)
  <2>0. pc[t] = "stat"
    BY <1>3 DEF LoadStat
  <2>1. CASE Stat(t, "load")
    BY <2>0, <2>1, StatFresh DEF Stored, InHand, registry
  <2>2. CASE Done(t) /\ UNCHANGED <<plugin, shelf, registry>>
    BY <1>3, <2>2 DEF LoadStat, Done
  <2> QED
    BY <1>3, <2>1, <2>2 DEF LoadStat
<1>4. CASE LoadPlugin(t)
  <2>1. \A u \in Threads : hand'[u] \in {hand[u], None}
    BY <1>4, Names DEF LoadPlugin, Done, Go, LockRegistry, Panic
  <2> QED
    BY <2>1
<1>5. CASE Insert(t)
  BY <1>5, InsertFresh DEF registry
<1>6. CASE Push(t)
  BY <1>6, Names DEF Push, Done, LockList, Panic, ListLocked
<1>7. ASSUME NEW h \in Handles, Take(t, h) PROVE HandsApart'
  <2>1. CASE UNCHANGED hand
    BY <2>1
  <2>2. CASE hand' = [hand EXCEPT ![t] = storage[h]]
    BY <2>2
  <2> QED
    BY <1>7, <2>1, <2>2 DEF Take
<1>8. CASE UnloadPlugin(t)
  <2>1. CASE LockRegistry(t)
    BY <1>8, <2>1, Names DEF Panic, LockRegistry, registry
  <2>2. CASE Go(t, "retire") /\ UNCHANGED <<shelf, at, hand, copied, scan>>
    BY <1>8, <2>2, Names DEF UnloadPlugin, Go
  <2>3. CASE Panic(t) /\ UNCHANGED <<storage, handles, unloaded, unticked>>
    BY <1>8, <2>3, Names DEF UnloadPlugin, Panic
  <2> QED
    BY <1>8, <2>1, <2>2, <2>3 DEF UnloadPlugin
<1>9. CASE Retire(t)
  BY <1>9, Names DEF Retire, Done, LockList, Panic, ListLocked
<1>10. ASSUME NEW h \in Handles, ReloadCall(t, h) PROVE HandsApart'
  <2>1. \A u \in Threads : hand'[u] = hand[u] \/ hand'[u] = None
    BY <1>10 DEF ReloadCall, Reload, Panic, Done
  <2> QED
    BY <2>1
<1>11. CASE ReloadCopy(t)
  BY <1>11, Names DEF ReloadCopy, Open, Go, Panic, registry
<1>12. CASE ReloadStat(t)
  <2>0. pc[t] = "restat"
    BY <1>12 DEF ReloadStat
  <2>1. CASE Stat(t, "unplug")
    BY <2>0, <2>1, StatFresh DEF Stored, InHand, registry
  <2>2. CASE Panic(t) /\ UNCHANGED <<plugin, storage, handles, unloaded, unticked, registry>>
    BY <1>12, <2>2 DEF ReloadStat, Panic
  <2> QED
    BY <1>12, <2>1, <2>2 DEF ReloadStat
<1>13. CASE ReloadUnload(t)
  BY <1>13, Names DEF ReloadUnload, Go, registry
<1>14. CASE ReloadLoad(t)
  BY <1>14, Names DEF ReloadLoad, Refuses, Sets, Swap, Done, LockRegistry, Panic, registry
<1>15. ASSUME NEW h \in Handles, NEW p \in Paths, SetPath(t, h, p) PROVE HandsApart'
  BY <1>15, Names DEF SetPath, registry
<1>16. CASE Tick(t)
  BY <1>16, Names DEF Tick, LockList, Panic, Go, ListLocked
<1>17. CASE Peek(t)
  BY <1>17, Names DEF Peek, Panic, Go, registry
<1>18. CASE Scan(t)
  BY <1>18, Names DEF Scan, Panic, Go, registry
<1>19. CASE TickReload(t)
  <2>1. \A u \in Threads : hand'[u] \in {hand[u], None}
    BY <1>19, Names DEF TickReload, Reload, Panic, Done, Go
  <2> QED
    BY <2>1
<1>20. CASE TickEnd(t)
  BY <1>20, Names DEF TickEnd, Go
<1> QED
  BY Moves, <1>1, <1>2, <1>3, <1>4, <1>5, <1>6, <1>7, <1>8, <1>9, <1>10, <1>11, <1>12,
     <1>13, <1>14, <1>15, <1>16, <1>17, <1>18, <1>19, <1>20

LEMMA StoredApartKept ==
  ASSUME Shape, Places, NEW t \in Threads, Move(t)
  PROVE  StoredApart'
<1> USE DEF Shape, Places, Carries, TypeLocals, TypeShelf, HandPcs, AtPcs, ReloadSteps,
            shelf, locals, StoredApart, HandNotStored
<1>1. ASSUME NEW p \in Paths, LoadFails(t, p) PROVE StoredApart'
  BY <1>1, Names DEF LoadFails, registry
<1>2. ASSUME NEW p \in Paths, NEW hot \in BOOLEAN, Load(t, p, hot) PROVE StoredApart'
  BY <1>2, Names DEF Load, Open, Go, registry
<1>3. CASE LoadStat(t)
  <2>0. pc[t] = "stat"
    BY <1>3 DEF LoadStat
  <2>1. CASE Stat(t, "load")
    BY <2>0, <2>1, StatFresh DEF Stored, InHand, registry
  <2>2. CASE Done(t) /\ UNCHANGED <<plugin, shelf, registry>>
    BY <1>3, <2>2 DEF LoadStat, Done
  <2> QED
    BY <1>3, <2>1, <2>2 DEF LoadStat
<1>4. CASE LoadPlugin(t)
  <2>1. UNCHANGED storage
    BY <1>4 DEF LoadPlugin, Refuses, Sets, LockRegistry
  <2> QED
    BY <2>1
<1>5. CASE Insert(t)
  <2>1. PICK h \in Handles : storage' = [storage EXCEPT ![h] = hand[t]]
    BY <1>5, InsertFresh
  <2> QED
    BY <2>1
<1>6. CASE Push(t)
  BY <1>6, Names DEF Push, Done, LockList, Panic, ListLocked
<1>7. ASSUME NEW h \in Handles, Take(t, h) PROVE StoredApart'
  BY <1>7, Names DEF Take, Go, Given, Locked, registry
<1>8. CASE UnloadPlugin(t)
  <2>1. CASE LockRegistry(t)
    BY <1>8, <2>1, Names DEF Panic, LockRegistry, registry
  <2>2. CASE Go(t, "retire") /\ UNCHANGED <<shelf, at, hand, copied, scan>>
    BY <1>8, <2>2, Names DEF UnloadPlugin, Go
  <2>3. CASE Panic(t) /\ UNCHANGED <<storage, handles, unloaded, unticked>>
    BY <1>8, <2>3, Names DEF UnloadPlugin, Panic
  <2> QED
    BY <1>8, <2>1, <2>2, <2>3 DEF UnloadPlugin
<1>9. CASE Retire(t)
  BY <1>9, Names DEF Retire, Done, LockList, Panic, ListLocked
<1>10. ASSUME NEW h \in Handles, ReloadCall(t, h) PROVE StoredApart'
  BY <1>10, Names DEF ReloadCall, Reload, Panic, Done, Go
<1>11. CASE ReloadCopy(t)
  BY <1>11, Names DEF ReloadCopy, Open, Go, Panic, registry
<1>12. CASE ReloadStat(t)
  <2>0. pc[t] = "restat"
    BY <1>12 DEF ReloadStat
  <2>1. CASE Stat(t, "unplug")
    BY <2>0, <2>1, StatFresh DEF Stored, InHand, registry
  <2>2. CASE Panic(t) /\ UNCHANGED <<plugin, storage, handles, unloaded, unticked, registry>>
    BY <1>12, <2>2 DEF ReloadStat, Panic
  <2> QED
    BY <1>12, <2>1, <2>2 DEF ReloadStat
<1>13. CASE ReloadUnload(t)
  BY <1>13, Names DEF ReloadUnload, Go, registry
<1>14. CASE ReloadLoad(t)
  BY <1>14, Names DEF ReloadLoad, Refuses, Sets, Swap, Done, LockRegistry, Panic, registry
<1>15. ASSUME NEW h \in Handles, NEW p \in Paths, SetPath(t, h, p) PROVE StoredApart'
  BY <1>15, Names DEF SetPath, registry
<1>16. CASE Tick(t)
  BY <1>16, Names DEF Tick, LockList, Panic, Go, ListLocked
<1>17. CASE Peek(t)
  BY <1>17, Names DEF Peek, Panic, Go, registry
<1>18. CASE Scan(t)
  BY <1>18, Names DEF Scan, Panic, Go, registry
<1>19. CASE TickReload(t)
  BY <1>19, Names DEF TickReload, Reload, Panic, Done, Go
<1>20. CASE TickEnd(t)
  BY <1>20, Names DEF TickEnd, Go
<1> QED
  BY Moves, <1>1, <1>2, <1>3, <1>4, <1>5, <1>6, <1>7, <1>8, <1>9, <1>10, <1>11, <1>12,
     <1>13, <1>14, <1>15, <1>16, <1>17, <1>18, <1>19, <1>20

LEMMA HandNotStoredKept ==
  ASSUME Shape, Places, NEW t \in Threads, Move(t)
  PROVE  HandNotStored'
<1> USE DEF Shape, Places, HandNotStored, TypeLocals, Carries, TypeShelf, HandPcs,
            shelf, AtPcs, ReloadSteps, locals, registry
<1>1. ASSUME NEW p \in Paths, LoadFails(t, p) PROVE HandNotStored'
  BY <1>1, Names DEF LoadFails, HandsApart, StoredApart
<1>2. ASSUME NEW p \in Paths, NEW hot \in BOOLEAN, Load(t, p, hot) PROVE HandNotStored'
  BY <1>2, Names DEF Load, Open, Go
<1>3. CASE LoadStat(t)
  <2>0. pc[t] = "stat"
    BY <1>3 DEF LoadStat
  <2>1. CASE Stat(t, "load")
    BY <2>0, <2>1, StatFresh DEF Stored, InHand, HandsApart, StoredApart
  <2>2. CASE Done(t) /\ UNCHANGED <<plugin, shelf, registry>>
    BY <1>3, <2>2 DEF LoadStat, Done, HandsApart
  <2> QED
    BY <1>3, <2>1, <2>2 DEF LoadStat
<1>4. CASE LoadPlugin(t)
  <2>1. UNCHANGED storage
    BY <1>4 DEF LoadPlugin, LockRegistry
  <2>2. \A u \in Threads : hand'[u] = hand[u] \/ hand'[u] = None
    BY <1>4 DEF LoadPlugin, LockRegistry, Panic, Done
  <2> QED
    BY <2>1, <2>2
<1>5. CASE Insert(t)
  <2>1. PICK h \in Handles : /\ storage' = [storage EXCEPT ![h] = hand[t]]
                             /\ hand' = [hand EXCEPT ![t] = None]
    BY <1>5, InsertFresh
  <2> QED
    BY <2>1 DEF HandsApart
<1>6. CASE Push(t)
  BY <1>6, Names DEF Push, Done, LockList, Panic, ListLocked, HandsApart
<1>7. ASSUME NEW h \in Handles, Take(t, h) PROVE HandNotStored'
  BY <1>7, Names DEF Take, Go, Given, Locked, HandsApart, StoredApart
<1>8. CASE UnloadPlugin(t)
  <2>1. CASE LockRegistry(t)
    BY <1>8, <2>1, Names DEF Panic, LockRegistry, HandsApart, StoredApart
  <2>2. CASE Go(t, "retire") /\ UNCHANGED <<shelf, at, hand, copied, scan>>
    BY <1>8, <2>2, Names DEF UnloadPlugin, Go
  <2>3. CASE Panic(t) /\ UNCHANGED <<storage, handles, unloaded, unticked>>
    BY <1>8, <2>3, Names DEF UnloadPlugin, Panic
  <2> QED
    BY <1>8, <2>1, <2>2, <2>3 DEF UnloadPlugin
<1>9. CASE Retire(t)
  BY <1>9, Names DEF Retire, Done, LockList, Panic, ListLocked, HandsApart
<1>10. ASSUME NEW h \in Handles, ReloadCall(t, h) PROVE HandNotStored'
  BY <1>10, Names DEF ReloadCall, Reload, Panic, Done, Go, HandsApart
<1>11. CASE ReloadCopy(t)
  BY <1>11, Names DEF ReloadCopy, Open, Go, Panic, HandsApart, StoredApart
<1>12. CASE ReloadStat(t)
  <2>0. pc[t] = "restat"
    BY <1>12 DEF ReloadStat
  <2>1. CASE Stat(t, "unplug")
    BY <2>0, <2>1, StatFresh DEF Stored, InHand, HandsApart, StoredApart
  <2>2. CASE Panic(t) /\ UNCHANGED <<plugin, storage, handles, unloaded, unticked, registry>>
    BY <1>12, <2>2 DEF ReloadStat, Panic, HandsApart
  <2> QED
    BY <1>12, <2>1, <2>2 DEF ReloadStat
<1>13. CASE ReloadUnload(t)
  BY <1>13, Names DEF ReloadUnload, Go, HandsApart
<1>14. CASE ReloadLoad(t)
  <2>1. CASE Swap(t)
    <3>1. hand' = [hand EXCEPT ![t] = None] /\ storage' = [storage EXCEPT ![at[t]] = hand[t]]
      BY <2>1 DEF Swap, Done
    <3>2. hand[t] # None
      BY <1>14 DEF ReloadLoad
    <3> QED
      BY <3>1, <3>2 DEF HandsApart
  <2>2. CASE LockRegistry(t)
    BY <2>2 DEF LockRegistry, Panic
  <2> QED
    BY <1>14, <2>1, <2>2 DEF ReloadLoad
<1>15. ASSUME NEW h \in Handles, NEW p \in Paths, SetPath(t, h, p) PROVE HandNotStored'
  <2>1. UNCHANGED <<hand, storage>>
    BY <1>15 DEF SetPath
  <2> QED
    BY <2>1
<1>16. CASE Tick(t)
  BY <1>16, Names DEF Tick, LockList, Panic, Go, ListLocked, HandsApart
<1>17. CASE Peek(t)
  BY <1>17, Names DEF Peek, Panic, Go
<1>18. CASE Scan(t)
  BY <1>18, Names DEF Scan, Panic, Go
<1>19. CASE TickReload(t)
  <2>1. storage' = storage /\ \A u \in Threads : hand'[u] \in {hand[u], None}
    BY <1>19, Names DEF TickReload, Reload, Panic, Done, Go
  <2> QED
    BY <2>1
<1>20. CASE TickEnd(t)
  BY <1>20, Names DEF TickEnd, Go, HandsApart
<1> QED
  BY Moves, <1>1, <1>2, <1>3, <1>4, <1>5, <1>6, <1>7, <1>8, <1>9, <1>10, <1>11, <1>12,
     <1>13, <1>14, <1>15, <1>16, <1>17, <1>18, <1>19, <1>20

LEMMA HandsHaveStepsKept ==
  ASSUME Shape, Places, NEW t \in Threads, Move(t)
  PROVE  HandsHaveSteps'
<1> USE DEF Shape, Places, TypeLocals, HandsHaveSteps, HandPcs, locals
<1>1. ASSUME NEW p \in Paths, LoadFails(t, p) PROVE HandsHaveSteps'
  BY <1>1, Names DEF LoadFails
<1>2. ASSUME NEW p \in Paths, NEW hot \in BOOLEAN, Load(t, p, hot) PROVE HandsHaveSteps'
  BY <1>2, Names DEF Load, Open, Go
<1>3. CASE LoadStat(t)
  <2>0. pc[t] = "stat"
    BY <1>3 DEF LoadStat
  <2>1. CASE Stat(t, "load")
    BY <2>0, <2>1, StatFresh DEF Stored, InHand
  <2>2. CASE Done(t) /\ UNCHANGED <<plugin, shelf, registry>>
    BY <1>3, <2>2 DEF LoadStat, Done
  <2> QED
    BY <1>3, <2>1, <2>2 DEF LoadStat
<1>4. CASE LoadPlugin(t)
  <2>1. CASE Go(t, "insert") /\ UNCHANGED hand
    BY <2>1 DEF Go
  <2>2. CASE Done(t) \/ Panic(t)
    BY <2>2 DEF Done, Panic
  <2> QED
    BY <1>4, <2>1, <2>2 DEF LoadPlugin, LockRegistry
<1>5. CASE Insert(t)
  BY <1>5, InsertFresh
<1>6. CASE Push(t)
  BY <1>6, Names DEF Push, Done, LockList, Panic, ListLocked
<1>7. ASSUME NEW h \in Handles, Take(t, h) PROVE HandsHaveSteps'
  BY <1>7, Names DEF Take, Go, Given, Locked
<1>8. CASE UnloadPlugin(t)
  BY <1>8, Names DEF UnloadPlugin, Go, Panic, LockRegistry
<1>9. CASE Retire(t)
  BY <1>9, Names DEF Retire, Done, LockList, Panic, ListLocked
<1>10. ASSUME NEW h \in Handles, ReloadCall(t, h) PROVE HandsHaveSteps'
  BY <1>10, Names DEF ReloadCall, Reload, Panic, Done, Go
<1>11. CASE ReloadCopy(t)
  BY <1>11, Names DEF ReloadCopy, Open, Go, Panic
<1>12. CASE ReloadStat(t)
  <2>1. CASE Stat(t, "unplug")
    BY <2>1, StatFresh
  <2>2. CASE Panic(t)
    BY <2>2 DEF Panic
  <2> QED
    BY <1>12, <2>1, <2>2 DEF ReloadStat
<1>13. CASE ReloadUnload(t)
  BY <1>13, Names DEF ReloadUnload, Go
<1>14. CASE ReloadLoad(t)
  BY <1>14, Names DEF ReloadLoad, Refuses, Sets, Swap, Done, LockRegistry, Panic
<1>15. ASSUME NEW h \in Handles, NEW p \in Paths, SetPath(t, h, p) PROVE HandsHaveSteps'
  BY <1>15, Names DEF SetPath
<1>16. CASE Tick(t)
  BY <1>16, Names DEF Tick, LockList, Panic, Go, ListLocked
<1>17. CASE Peek(t)
  BY <1>17, Names DEF Peek, Panic, Go
<1>18. CASE Scan(t)
  BY <1>18, Names DEF Scan, Panic, Go
<1>19. CASE TickReload(t)
  BY <1>19, Names DEF TickReload, Reload, Panic, Done, Go
<1>20. CASE TickEnd(t)
  BY <1>20, Names DEF TickEnd, Go
<1> QED
  BY Moves, <1>1, <1>2, <1>3, <1>4, <1>5, <1>6, <1>7, <1>8, <1>9, <1>10, <1>11, <1>12,
     <1>13, <1>14, <1>15, <1>16, <1>17, <1>18, <1>19, <1>20

LEMMA OneReloadKept ==
  ASSUME Shape, Places, NEW t \in Threads, Move(t)
  PROVE  OneReload'
<1> USE DEF Shape, Places, TypeLocals, ReloadSteps, OneReload, Carries, TypeShelf,
            HandPcs, AtPcs, shelf, locals, Locked
<1>1. ASSUME NEW p \in Paths, LoadFails(t, p) PROVE OneReload'
  BY <1>1, Names DEF LoadFails, registry
<1>2. ASSUME NEW p \in Paths, NEW hot \in BOOLEAN, Load(t, p, hot) PROVE OneReload'
  BY <1>2, Names DEF Load, Open, Go, registry
<1>3. CASE LoadStat(t)
  <2>0. pc[t] = "stat"
    BY <1>3 DEF LoadStat
  <2>1. CASE Stat(t, "load")
    BY <2>0, <2>1, StatFresh DEF Stored, InHand, registry
  <2>2. CASE Done(t) /\ UNCHANGED <<plugin, shelf, registry>>
    BY <1>3, <2>2 DEF LoadStat, Done
  <2> QED
    BY <1>3, <2>1, <2>2 DEF LoadStat
<1>4. CASE LoadPlugin(t)
  <2>1. pc'[t] \notin ReloadSteps
    BY <1>4 DEF LoadPlugin, Done, Go, LockRegistry, Panic
  <2>2. \A u \in Threads : u # t => pc'[u] = pc[u] /\ at'[u] = at[u]
    BY <1>4 DEF LoadPlugin, Done, Go, LockRegistry, Panic
  <2> QED
    BY <2>1, <2>2
<1>5. CASE Insert(t)
  <2>1. \A u \in Threads : pc'[u] \in ReloadSteps => pc[u] \in ReloadSteps /\ at'[u] = at[u]
    BY <1>5, InsertFresh
  <2> QED
    BY <2>1
<1>6. CASE Push(t)
  BY <1>6, Names DEF Push, Done, LockList, Panic, ListLocked
<1>7. ASSUME NEW h \in Handles, Take(t, h) PROVE OneReload'
  <2>1. \A u \in Threads : pc'[u] \in ReloadSteps => pc[u] \in ReloadSteps /\ at'[u] = at[u]
    BY <1>7 DEF Take, Go
  <2> QED
    BY <2>1
<1>8. CASE UnloadPlugin(t)
  <2>1. CASE LockRegistry(t)
    BY <1>8, <2>1, Names DEF Panic, LockRegistry, registry
  <2>2. CASE Go(t, "retire") /\ UNCHANGED <<shelf, at, hand, copied, scan>>
    BY <1>8, <2>2, Names DEF UnloadPlugin, Go
  <2>3. CASE Panic(t) /\ UNCHANGED <<storage, handles, unloaded, unticked>>
    BY <1>8, <2>3, Names DEF UnloadPlugin, Panic
  <2> QED
    BY <1>8, <2>1, <2>2, <2>3 DEF UnloadPlugin
<1>9. CASE Retire(t)
  BY <1>9, Names DEF Retire, Done, LockList, Panic, ListLocked
<1>10. ASSUME NEW h \in Handles, ReloadCall(t, h) PROVE OneReload'
  BY <1>10, Names DEF ReloadCall, Reload, Panic, Done, Go
<1>11. CASE ReloadCopy(t)
  BY <1>11, Names DEF ReloadCopy, Open, Go, Panic, registry
<1>12. CASE ReloadStat(t)
  <2>0. pc[t] = "restat"
    BY <1>12 DEF ReloadStat
  <2>1. CASE Stat(t, "unplug")
    BY <2>0, <2>1, StatFresh DEF Stored, InHand, registry
  <2>2. CASE Panic(t) /\ UNCHANGED <<plugin, storage, handles, unloaded, unticked, registry>>
    BY <1>12, <2>2 DEF ReloadStat, Panic
  <2> QED
    BY <1>12, <2>1, <2>2 DEF ReloadStat
<1>13. CASE ReloadUnload(t)
  BY <1>13, Names DEF ReloadUnload, Go, registry
<1>14. CASE ReloadLoad(t)
  <2>1. \A u \in Threads : pc'[u] \in ReloadSteps => pc[u] \in ReloadSteps /\ at'[u] = at[u]
    BY <1>14 DEF ReloadLoad, Swap, LockRegistry, Done, Panic
  <2> QED
    BY <2>1
<1>15. ASSUME NEW h \in Handles, NEW p \in Paths, SetPath(t, h, p) PROVE OneReload'
  BY <1>15, Names DEF SetPath, registry
<1>16. CASE Tick(t)
  BY <1>16, Names DEF Tick, LockList, Panic, Go, ListLocked
<1>17. CASE Peek(t)
  BY <1>17, Names DEF Peek, Panic, Go, registry
<1>18. CASE Scan(t)
  BY <1>18, Names DEF Scan, Panic, Go, registry
<1>19. CASE TickReload(t)
  BY <1>19, Names DEF TickReload, Reload, Panic, Done, Go, registry
<1>20. CASE TickEnd(t)
  BY <1>20, Names DEF TickEnd, Go
<1> QED
  BY Moves, <1>1, <1>2, <1>3, <1>4, <1>5, <1>6, <1>7, <1>8, <1>9, <1>10, <1>11, <1>12,
     <1>13, <1>14, <1>15, <1>16, <1>17, <1>18, <1>19, <1>20

LEMMA OthersBacked ==
  ASSUME Shape, Places, NEW t \in Threads, Move(t), NEW u \in Threads \ {t}
  PROVE  Backed(u)'
<1> USE DEF Shape, Places, Carries, TypeLocals, TypeShelf, HandPcs, AtPcs, ReloadSteps,
            shelf, locals, registry, Backed, Registered
<1>1. ASSUME NEW p \in Paths, LoadFails(t, p) PROVE Backed(u)'
  BY <1>1, Names DEF LoadFails, HandsApart
<1>2. ASSUME NEW p \in Paths, NEW hot \in BOOLEAN, Load(t, p, hot) PROVE Backed(u)'
  BY <1>2, Names DEF Load, Open, Go, HandsApart, HandNotStored
<1>3. CASE LoadStat(t)
  <2>0. pc[t] = "stat"
    BY <1>3 DEF LoadStat
  <2>1. CASE Stat(t, "load")
    BY <2>0, <2>1, StatFresh DEF Stored, InHand
  <2>2. CASE Done(t) /\ UNCHANGED <<plugin, shelf, registry>>
    BY <1>3, <2>2 DEF LoadStat, Done
  <2> QED
    BY <1>3, <2>1, <2>2 DEF LoadStat
<1>4. CASE LoadPlugin(t)
  BY <1>4, Names DEF LoadPlugin, Refuses, Sets, Done, Go, LockRegistry, Panic,
     HandsApart, HandNotStored, StoredApart, OneReload, Locked, TypeWorld
<1>5. CASE Insert(t)
  BY <1>5, InsertFresh DEF HandsApart, HandNotStored
<1>6. CASE Push(t)
  BY <1>6, Names DEF Push, Done, LockList, Panic, ListLocked
<1>7. ASSUME NEW h \in Handles, Take(t, h) PROVE Backed(u)'
  BY <1>7, Names DEF Take, Go, Given, HandsApart, HandNotStored, StoredApart, OneReload,
     TypeWorld
<1>8. CASE UnloadPlugin(t)
  BY <1>8, Names DEF UnloadPlugin, Go, Panic, LockRegistry, HandsApart, HandNotStored,
     StoredApart, OneReload, Locked, TypeWorld
<1>9. CASE Retire(t)
  BY <1>9, Names DEF Retire, Done, LockList, Panic, ListLocked
<1>10. ASSUME NEW h \in Handles, ReloadCall(t, h) PROVE Backed(u)'
  BY <1>10, Names DEF ReloadCall, Reload, Panic, Done, Go
<1>11. CASE ReloadCopy(t)
  BY <1>11, Names DEF ReloadCopy, Open, Go, Panic, HandsApart
<1>12. CASE ReloadStat(t)
  <2>0. pc[t] = "restat"
    BY <1>12 DEF ReloadStat
  <2>1. CASE Stat(t, "unplug")
    BY <2>0, <2>1, StatFresh DEF Stored, InHand
  <2>2. CASE Panic(t) /\ UNCHANGED <<plugin, storage, handles, unloaded, unticked, registry>>
    BY <1>12, <2>2 DEF ReloadStat, Panic
  <2> QED
    BY <1>12, <2>1, <2>2 DEF ReloadStat
<1>13. CASE ReloadUnload(t)
  BY <1>13, Names DEF ReloadUnload, Go, HandsApart, HandNotStored, StoredApart
<1>14. CASE ReloadLoad(t)
  BY <1>14, Names DEF ReloadLoad, Refuses, Sets, Swap, Done, LockRegistry, Panic,
     HandsApart, HandNotStored, StoredApart, OneReload, Locked, TypeWorld
<1>15. ASSUME NEW h \in Handles, NEW p \in Paths, SetPath(t, h, p) PROVE Backed(u)'
  BY <1>15, Names DEF SetPath, HandsApart
<1>16. CASE Tick(t)
  BY <1>16, Names DEF Tick, LockList, Panic, Go, ListLocked
<1>17. CASE Peek(t)
  BY <1>17, Names DEF Peek, Panic, Go, HandsApart, HandNotStored
<1>18. CASE Scan(t)
  BY <1>18, Names DEF Scan, Panic, Go, HandsApart, HandNotStored
<1>19. CASE TickReload(t)
  BY <1>19, Names DEF TickReload, Reload, Panic, Done, Go
<1>20. CASE TickEnd(t)
  BY <1>20, Names DEF TickEnd, Go
<1> QED
  BY Moves, <1>1, <1>2, <1>3, <1>4, <1>5, <1>6, <1>7, <1>8, <1>9, <1>10, <1>11, <1>12,
     <1>13, <1>14, <1>15, <1>16, <1>17, <1>18, <1>19, <1>20

LEMMA MineBacked ==
  ASSUME Shape, Places, NEW t \in Threads, Move(t)
  PROVE  Backed(t)'
<1> USE DEF Shape, Places, Carries, TypeLocals, TypeShelf, HandPcs, AtPcs, ReloadSteps,
            shelf, locals, registry, Backed, Registered
<1>1. ASSUME NEW p \in Paths, LoadFails(t, p) PROVE Backed(t)'
  BY <1>1, Names DEF LoadFails, HandsApart
<1>2. ASSUME NEW p \in Paths, NEW hot \in BOOLEAN, Load(t, p, hot) PROVE Backed(t)'
  BY <1>2, Names DEF Load, Open, Go, HandsApart, HandNotStored
<1>3. CASE LoadStat(t)
  <2>0. pc[t] = "stat"
    BY <1>3 DEF LoadStat
  <2>1. CASE Stat(t, "load")
    BY <2>0, <2>1, StatFresh DEF Stored, InHand
  <2>2. CASE Done(t) /\ UNCHANGED <<plugin, shelf, registry>>
    BY <1>3, <2>2 DEF LoadStat, Done
  <2> QED
    BY <1>3, <2>1, <2>2 DEF LoadStat
<1>4. CASE LoadPlugin(t)
  BY <1>4, Names DEF LoadPlugin, Refuses, Sets, Done, Go, LockRegistry, Panic, HandsApart
<1>5. CASE Insert(t)
  BY <1>5, InsertFresh DEF HandsApart, HandNotStored
<1>6. CASE Push(t)
  BY <1>6, Names DEF Push, Done, LockList, Panic, ListLocked
<1>7. ASSUME NEW h \in Handles, Take(t, h) PROVE Backed(t)'
  BY <1>7, Names DEF Take, Go, Given, HandsApart
<1>8. CASE UnloadPlugin(t)
  BY <1>8, Names DEF UnloadPlugin, Go, Panic, LockRegistry, HandsApart
<1>9. CASE Retire(t)
  BY <1>9, Names DEF Retire, Done, LockList, Panic, ListLocked
<1>10. ASSUME NEW h \in Handles, ReloadCall(t, h) PROVE Backed(t)'
  BY <1>10, Names DEF ReloadCall, Reload, Panic, Done, Go
<1>11. CASE ReloadCopy(t)
  BY <1>11, Names DEF ReloadCopy, Open, Go, Panic, HandsApart
<1>12. CASE ReloadStat(t)
  <2>0. pc[t] = "restat"
    BY <1>12 DEF ReloadStat
  <2>1. CASE Stat(t, "unplug")
    BY <2>0, <2>1, StatFresh DEF Stored, InHand
  <2>2. CASE Panic(t) /\ UNCHANGED <<plugin, storage, handles, unloaded, unticked, registry>>
    BY <1>12, <2>2 DEF ReloadStat, Panic
  <2> QED
    BY <1>12, <2>1, <2>2 DEF ReloadStat
<1>13. CASE ReloadUnload(t)
  BY <1>13, Names DEF ReloadUnload, Go, HandsApart, HandNotStored, StoredApart
<1>14. CASE ReloadLoad(t)
  BY <1>14, Names DEF ReloadLoad, Refuses, Sets, Swap, Done, LockRegistry, Panic,
     HandsApart
<1>15. ASSUME NEW h \in Handles, NEW p \in Paths, SetPath(t, h, p) PROVE Backed(t)'
  BY <1>15, Names DEF SetPath, HandsApart
<1>16. CASE Tick(t)
  BY <1>16, Names DEF Tick, LockList, Panic, Go, ListLocked
<1>17. CASE Peek(t)
  BY <1>17, Names DEF Peek, Panic, Go, HandsApart, HandNotStored
<1>18. CASE Scan(t)
  BY <1>18, Names DEF Scan, Panic, Go, HandsApart, HandNotStored
<1>19. CASE TickReload(t)
  BY <1>19, Names DEF TickReload, Reload, Panic, Done, Go
<1>20. CASE TickEnd(t)
  BY <1>20, Names DEF TickEnd, Go
<1> QED
  BY Moves, <1>1, <1>2, <1>3, <1>4, <1>5, <1>6, <1>7, <1>8, <1>9, <1>10, <1>11, <1>12,
     <1>13, <1>14, <1>15, <1>16, <1>17, <1>18, <1>19, <1>20

LEMMA PlacesKept ==
  ASSUME Shape, Places, [Next]_vars
  PROVE  Places'
<1>1. ASSUME NEW t \in Threads, Move(t) PROVE Places'
  <2>1. \A u \in Threads : Backed(u)'
    BY <1>1, MineBacked, OthersBacked
  <2> QED
    BY <1>1, <2>1, HandsApartKept, StoredApartKept, HandNotStoredKept,
       HandsHaveStepsKept, OneReloadKept
       DEF Places
<1>2. CASE UNCHANGED <<storage, hand, pc, at, live, api>>
  BY <1>2 DEF Places, HandsApart, StoredApart, HandNotStored, HandsHaveSteps, OneReload,
     Backed, Registered
<1>3. ASSUME NEW p \in Paths, BuildBegin(p) \/ BuildEnd(p)
      PROVE  UNCHANGED <<storage, hand, pc, at, live, api>>
  BY <1>3 DEF BuildBegin, BuildEnd, shelf, registry, locals
<1>4. UNCHANGED vars => UNCHANGED <<storage, hand, pc, at, live, api>>
  BY DEF vars, shelf, registry, locals
<1> QED
  BY <1>1, <1>2, <1>3, <1>4, NextIsMove

LEMMA InitPlaces == Init => Places
BY Names DEF Init, Places, HandsApart, StoredApart, HandNotStored, HandsHaveSteps,
   OneReload, Backed, ReloadSteps

-----------------------------------------------------------------------------
(* Contexts neither leak nor die early *)

ContextsOwned == \A d \in live : Stored(d) \/ InHand(d) \/ Panicked

ContextsThere ==
  \A h \in Handles :
    storage[h] # None /\ Registered(storage[h]) =>
      storage[h] \in live \/ Locked(h) \/ h \in broken

-----------------------------------------------------------------------------
(* What a step that does not panic does to plugins, contexts and apis *)

Quiet == UNCHANGED <<storage, hand, live, api, unloaded>>

Comes(t) ==
  /\ pc[t] \in {"stat", "restat"}
  /\ \E d \in Plugins :
       /\ ~Stored(d) /\ ~InHand(d) /\ ~Registered(d) /\ d \notin live
       /\ hand' = [hand EXCEPT ![t] = d]
       /\ live' = live \cup {d}
       /\ unloaded' = unloaded \ {d}
  /\ UNCHANGED <<storage, api>>

IsRefused(t) ==
  /\ pc[t] = "load"
  /\ live' = live \ {hand[t]}
  /\ hand' = [hand EXCEPT ![t] = None]
  /\ UNCHANGED <<storage, api, unloaded>>

IsSet(t) ==
  /\ pc[t] = "load"
  /\ \E p : api' = [api EXCEPT ![p] = hand[t]]
  /\ UNCHANGED <<storage, hand, live, unloaded>>

IsStored(t) ==
  /\ pc[t] = "insert"
  /\ \E h \in Handles : storage[h] = None /\ storage' = [storage EXCEPT ![h] = hand[t]]
  /\ hand' = [hand EXCEPT ![t] = None]
  /\ UNCHANGED <<live, api, unloaded>>

IsTaken(t) ==
  /\ pc[t] = "idle"
  /\ \E h \in Handles :
       /\ storage[h] # None
       /\ hand' = [hand EXCEPT ![t] = storage[h]]
       /\ storage' = [storage EXCEPT ![h] = None]
  /\ UNCHANGED <<live, api, unloaded>>

IsUnloaded(t) ==
  /\ pc[t] = "unload"
  /\ \E p : api' = [api EXCEPT ![p] = None]
  /\ live' = live \ {hand[t]}
  /\ UNCHANGED <<storage, hand, unloaded>>

IsRetired(t) ==
  /\ pc[t] = "retire"
  /\ unloaded' = unloaded \cup {hand[t]}
  /\ hand' = [hand EXCEPT ![t] = None]
  /\ UNCHANGED <<storage, live, api>>

IsUnplugged(t) ==
  /\ pc[t] = "unplug"
  /\ live' = live \ {storage[at[t]]}
  /\ UNCHANGED <<storage, hand, api, unloaded>>

IsReplaced(t) ==
  /\ pc[t] = "plug"
  /\ storage' = [storage EXCEPT ![at[t]] = hand[t]]
  /\ unloaded' = unloaded \cup {storage[at[t]]}
  /\ hand' = [hand EXCEPT ![t] = None]
  /\ \/ live' = live \ {hand[t]} /\ UNCHANGED api
     \/ UNCHANGED live /\ \E p : api' = [api EXCEPT ![p] = hand[t]]

Effect(t) ==
  \/ Quiet \/ Comes(t) \/ IsRefused(t) \/ IsSet(t) \/ IsStored(t) \/ IsTaken(t)
  \/ IsUnloaded(t) \/ IsRetired(t) \/ IsUnplugged(t) \/ IsReplaced(t)

\* A call without a plugin in hand that ends leaves every hand as it is.
LEMMA EmptyHand ==
  ASSUME Shape, NEW t \in Threads, hand[t] = None, hand' = [hand EXCEPT ![t] = None]
  PROVE  hand' = hand
BY DEF Shape, TypeLocals

LEMMA Effects ==
  ASSUME Shape, Places, NEW t \in Threads, Move(t), pc'[t] # "panicked"
  PROVE  Effect(t)
<1>calm. Panic(t) => FALSE
  BY DEF Panic, Shape, TypeLocals
<1>empty. pc[t] \notin HandPcs => hand[t] = None
  BY DEF Places, HandsHaveSteps
<1>hands. Done(t) \/ UNCHANGED hand => hand' = [hand EXCEPT ![t] = None] \/ UNCHANGED hand
  BY DEF Done
<1> USE EmptyHand
<1> USE DEF Effect, HandPcs, shelf
<1>1. ASSUME NEW p \in Paths, LoadFails(t, p) PROVE Effect(t)
  BY <1>1, <1>calm, <1>empty, <1>hands DEF LoadFails, ReloadSteps, Quiet, locals, registry
<1>2. ASSUME NEW p \in Paths, NEW hot \in BOOLEAN, Load(t, p, hot) PROVE Effect(t)
  BY <1>2, <1>calm, <1>empty, <1>hands DEF Load, Open, ReloadSteps, Quiet, locals,
     registry
<1>3. CASE LoadStat(t)
  <2>1. CASE Stat(t, "load")
    BY <1>3, <2>1, StatFresh DEF LoadStat, Comes
  <2>2. CASE Done(t) /\ UNCHANGED <<plugin, shelf, registry>>
    BY <1>3, <1>empty, <2>2 DEF LoadStat, Done, Quiet, registry
  <2> QED
    BY <1>3, <2>1, <2>2 DEF LoadStat
<1>4. CASE LoadPlugin(t)
  BY <1>4, <1>calm, <1>empty, <1>hands DEF LoadPlugin, Refuses, Sets, Done,
     LockRegistry, ReloadSteps, IsRefused, IsSet, locals
<1>5. CASE Insert(t)
  BY <1>5, InsertFresh DEF IsStored
<1>6. CASE Push(t)
  BY <1>6, <1>calm, <1>empty, <1>hands DEF Push, Done, LockList, ReloadSteps, Quiet,
     locals, registry
<1>7. ASSUME NEW h \in Handles, Take(t, h) PROVE Effect(t)
  <2>1. h \notin broken
    BY <1>7 DEF Take, Shape, TypeLocals
  <2> QED
    BY <1>7, <2>1 DEF Take, Given, IsTaken, registry
<1>8. CASE UnloadPlugin(t)
  BY <1>8, <1>calm, <1>empty, <1>hands DEF UnloadPlugin, LockRegistry, ReloadSteps,
     IsUnloaded, locals, registry
<1>9. CASE Retire(t)
  BY <1>9, <1>calm, <1>empty, <1>hands DEF Retire, Done, LockList, ReloadSteps,
     IsRetired, locals, registry
<1>10. ASSUME NEW h \in Handles, ReloadCall(t, h) PROVE Effect(t)
  BY <1>10, <1>calm, <1>empty, <1>hands DEF ReloadCall, Reload, Done, ReloadSteps,
     Quiet, locals, registry
<1>11. CASE ReloadCopy(t)
  BY <1>11, <1>calm, <1>empty, <1>hands DEF ReloadCopy, Open, ReloadSteps, Quiet,
     locals, registry
<1>12. CASE ReloadStat(t)
  <2>1. Stat(t, "unplug")
    BY <1>12, <1>calm DEF ReloadStat
  <2> QED
    BY <1>12, <2>1, StatFresh DEF ReloadStat, Comes
<1>13. CASE ReloadUnload(t)
  BY <1>13, <1>calm, <1>empty, <1>hands DEF ReloadUnload, ReloadSteps, IsUnplugged,
     locals, registry
<1>14. CASE ReloadLoad(t)
  BY <1>14, <1>calm, <1>empty, <1>hands DEF ReloadLoad, Swap, Done, Refuses, Sets,
     LockRegistry, ReloadSteps, IsReplaced, locals
<1>15. ASSUME NEW h \in Handles, NEW p \in Paths, SetPath(t, h, p) PROVE Effect(t)
  BY <1>15, <1>calm, <1>empty, <1>hands DEF SetPath, ReloadSteps, Quiet, locals, registry
<1>16. CASE Tick(t)
  BY <1>16, <1>calm, <1>empty, <1>hands DEF Tick, LockList, ReloadSteps, Quiet, locals,
     registry
<1>17. CASE Peek(t)
  BY <1>17, <1>calm, <1>empty, <1>hands DEF Peek, ReloadSteps, Quiet, locals, registry
<1>18. CASE Scan(t)
  BY <1>18, <1>calm, <1>empty, <1>hands DEF Scan, ReloadSteps, Quiet, locals, registry
<1>19. CASE TickReload(t)
  BY <1>19, <1>calm, <1>empty, <1>hands DEF TickReload, Reload, Done, ReloadSteps,
     Quiet, locals, registry
<1>20. CASE TickEnd(t)
  BY <1>20, <1>calm, <1>empty, <1>hands DEF TickEnd, ReloadSteps, Quiet, locals, registry
<1> QED
  BY Moves, <1>1, <1>2, <1>3, <1>4, <1>5, <1>6, <1>7, <1>8, <1>9, <1>10, <1>11, <1>12,
     <1>13, <1>14, <1>15, <1>16, <1>17, <1>18, <1>19, <1>20

LEMMA OthersStand ==
  ASSUME Shape, NEW t \in Threads, Move(t), NEW u \in Threads \ {t}
  PROVE  pc'[u] = pc[u] /\ at'[u] = at[u]
<1> USE DEF Shape, locals, TypeLocals, Go, Panic
<1>1. ASSUME NEW p \in Paths, LoadFails(t, p) PROVE pc'[u] = pc[u] /\ at'[u] = at[u]
  BY <1>1 DEF LoadFails
<1>2. ASSUME NEW p \in Paths, NEW hot \in BOOLEAN, Load(t, p, hot) PROVE pc'[u] = pc[u] /\ at'[u] = at[u]
  BY <1>2 DEF Load, Open
<1>3. CASE LoadStat(t)
  BY <1>3 DEF LoadStat, Stat, Done, FreshPlugin
<1>4. CASE LoadPlugin(t)
  BY <1>4 DEF LoadPlugin, Refuses, Sets, Done, LockRegistry
<1>5. CASE Insert(t)
  BY <1>5 DEF Insert, FreshKey
<1>6. CASE Push(t)
  BY <1>6 DEF Push, Done, LockList, ListLocked
<1>7. ASSUME NEW h \in Handles, Take(t, h) PROVE pc'[u] = pc[u] /\ at'[u] = at[u]
  BY <1>7 DEF Take, Given, Locked
<1>8. CASE UnloadPlugin(t)
  BY <1>8 DEF UnloadPlugin, LockRegistry
<1>9. CASE Retire(t)
  BY <1>9 DEF Retire, Done, LockList, ListLocked
<1>10. ASSUME NEW h \in Handles, ReloadCall(t, h) PROVE pc'[u] = pc[u] /\ at'[u] = at[u]
  BY <1>10 DEF ReloadCall, Reload, Done
<1>11. CASE ReloadCopy(t)
  BY <1>11 DEF ReloadCopy, Open
<1>12. CASE ReloadStat(t)
  BY <1>12 DEF ReloadStat, Stat, FreshPlugin
<1>13. CASE ReloadUnload(t)
  BY <1>13 DEF ReloadUnload
<1>14. CASE ReloadLoad(t)
  BY <1>14 DEF ReloadLoad, Refuses, Sets, Swap, Done, LockRegistry
<1>15. ASSUME NEW h \in Handles, NEW p \in Paths, SetPath(t, h, p) PROVE pc'[u] = pc[u] /\ at'[u] = at[u]
  BY <1>15 DEF SetPath
<1>16. CASE Tick(t)
  BY <1>16 DEF Tick, LockList, ListLocked
<1>17. CASE Peek(t)
  BY <1>17 DEF Peek
<1>18. CASE Scan(t)
  BY <1>18 DEF Scan
<1>19. CASE TickReload(t)
  BY <1>19 DEF TickReload, Reload, Done
<1>20. CASE TickEnd(t)
  BY <1>20 DEF TickEnd
<1> QED
  BY Moves, <1>1, <1>2, <1>3, <1>4, <1>5, <1>6, <1>7, <1>8, <1>9, <1>10, <1>11, <1>12,
     <1>13, <1>14, <1>15, <1>16, <1>17, <1>18, <1>19, <1>20

\* A reload's lock lasts until the plugin is replaced, or poisons its mutex.
LEMMA LocksLast ==
  ASSUME Shape, NEW t \in Threads, Move(t), NEW h \in Handles, Locked(h)
  PROVE  Locked(h)' \/ h \in broken' \/ (pc[t] = "plug" /\ at[t] = h /\ Swap(t))
<1> PICK u \in Threads : at[u] = h /\ pc[u] \in ReloadSteps
  BY DEF Locked
<1>1. CASE pc'[u] \in ReloadSteps /\ at'[u] = at[u]
  BY <1>1 DEF Locked
<1>2. CASE u # t
  <2>1. pc'[u] = pc[u] /\ at'[u] = at[u]
    BY <1>2, OthersStand
  <2> QED
    BY <1>1, <2>1
<1>3. CASE u = t
  <2>1. pc[t] \notin {"idle", "stat", "load", "insert", "push", "unload", "retire", "peek", "scan", "again"}
    BY <1>3 DEF ReloadSteps
  <2>2. CASE Panic(t)
    BY <1>3, <2>2 DEF Panic
  <2>3. CASE Swap(t) /\ pc[t] = "plug"
    BY <1>3, <2>3
  <2>4. CASE UNCHANGED at /\ \E s \in ReloadSteps : Go(t, s)
    BY <1>1, <1>3, <2>4 DEF Go, Shape, TypeLocals
  <2>5. Panic(t) \/ (Swap(t) /\ pc[t] = "plug") \/ (UNCHANGED at /\ \E s \in ReloadSteps : Go(t, s))
    <3>1. ReloadCopy(t) \/ ReloadStat(t) \/ ReloadUnload(t) \/ ReloadLoad(t)
      BY <2>1, Moves DEF LoadFails, Load, LoadStat, LoadPlugin, Insert, Push, Take,
         UnloadPlugin,
         Retire, ReloadCall, SetPath, Tick, Peek, Scan, TickReload, TickEnd
    <3> QED
      BY <3>1 DEF ReloadCopy, ReloadStat, ReloadUnload, ReloadLoad, Open, Stat,
         LockRegistry, ReloadSteps
  <2> QED
    BY <2>2, <2>3, <2>4, <2>5
<1> QED
  BY <1>2, <1>3

\* A poisoned mutex stays so, but for that of a plugin that is taken out.
LEMMA BrokenLasts ==
  ASSUME Shape, NEW t \in Threads, Move(t), NEW h \in broken
  PROVE  h \in broken' \/ storage'[h] = None
<1> USE DEF Shape, locals, shelf, Go, Panic
<1>1. ASSUME NEW p \in Paths, LoadFails(t, p) PROVE h \in broken' \/ storage'[h] = None
  BY <1>1 DEF LoadFails, TypeShelf
<1>2. ASSUME NEW p \in Paths, NEW hot \in BOOLEAN, Load(t, p, hot) PROVE h \in broken' \/ storage'[h] = None
  BY <1>2 DEF Load, Open
<1>3. CASE LoadStat(t)
  BY <1>3 DEF LoadStat, Stat
<1>4. CASE LoadPlugin(t)
  BY <1>4 DEF LoadPlugin, Refuses, Sets, Done, LockRegistry, TypeShelf
<1>5. CASE Insert(t)
  BY <1>5 DEF Insert, TypeShelf
<1>6. CASE Push(t)
  BY <1>6 DEF Push, Done, LockList, ListLocked
<1>7. ASSUME NEW k \in Handles, Take(t, k) PROVE h \in broken' \/ storage'[h] = None
  BY <1>7 DEF Take, Given, Locked, TypeShelf
<1>8. CASE UnloadPlugin(t)
  BY <1>8 DEF UnloadPlugin, LockRegistry, TypeShelf
<1>9. CASE Retire(t)
  BY <1>9 DEF Retire, Done, LockList, ListLocked
<1>10. ASSUME NEW k \in Handles, ReloadCall(t, k) PROVE h \in broken' \/ storage'[h] = None
  BY <1>10 DEF ReloadCall, Reload, Done
<1>11. CASE ReloadCopy(t)
  BY <1>11 DEF ReloadCopy, Open, TypeShelf
<1>12. CASE ReloadStat(t)
  BY <1>12 DEF ReloadStat, Stat
<1>13. CASE ReloadUnload(t)
  BY <1>13 DEF ReloadUnload
<1>14. CASE ReloadLoad(t)
  BY <1>14 DEF ReloadLoad, Refuses, Sets, Swap, Done, LockRegistry, TypeShelf
<1>15. ASSUME NEW k \in Handles, NEW p \in Paths, SetPath(t, k, p) PROVE h \in broken' \/ storage'[h] = None
  BY <1>15 DEF SetPath, TypeShelf
<1>16. CASE Tick(t)
  BY <1>16 DEF Tick, LockList, ListLocked
<1>17. CASE Peek(t)
  BY <1>17 DEF Peek, TypeShelf
<1>18. CASE Scan(t)
  BY <1>18 DEF Scan, TypeShelf
<1>19. CASE TickReload(t)
  BY <1>19 DEF TickReload, Reload, Done
<1>20. CASE TickEnd(t)
  BY <1>20 DEF TickEnd
<1> QED
  BY Moves, <1>1, <1>2, <1>3, <1>4, <1>5, <1>6, <1>7, <1>8, <1>9, <1>10, <1>11, <1>12,
     <1>13, <1>14, <1>15, <1>16, <1>17, <1>18, <1>19, <1>20

LEMMA ContextsOwnedKept ==
  ASSUME Shape, Places, ContextsOwned, NEW t \in Threads, Move(t)
  PROVE  ContextsOwned'
<1> SUFFICES ASSUME ~Panicked, ~Panicked', NEW d \in live' PROVE (Stored(d) \/ InHand(d))'
  BY PanicsLast DEF ContextsOwned
<1>effect. Effect(t)
  BY Effects DEF Panicked
<1>owned. d \in live => (Stored(d) \/ InHand(d)) /\ d # None
  BY Names DEF ContextsOwned, Shape, TypeWorld
<1>1. CASE Quiet
  BY <1>1 DEF Quiet, ContextsOwned, Stored, InHand
<1>2. CASE Comes(t)
  <2>1. hand[t] = None
    BY <1>2 DEF Comes, Places, HandsHaveSteps, HandPcs
  <2>2. CASE d \in live
    BY <1>owned, <1>2, <2>1, <2>2 DEF Comes, Stored, InHand
  <2>3. CASE d \notin live
    BY <1>2, <2>3 DEF Comes, InHand, Shape, TypeLocals
  <2> QED
    BY <2>2, <2>3
<1>3. CASE IsRefused(t)
  BY <1>3 DEF IsRefused, ContextsOwned, Stored, InHand, Shape, TypeLocals
<1>4. CASE IsSet(t)
  BY <1>4 DEF IsSet, ContextsOwned, Stored, InHand
<1>5. CASE IsStored(t)
  <2>1. PICK h \in Handles : storage[h] = None /\ storage' = [storage EXCEPT ![h] = hand[t]]
    BY <1>5 DEF IsStored
  <2>2. CASE d = hand[t]
    BY <2>1, <2>2 DEF Stored, Shape, TypeShelf
  <2>3. CASE d # hand[t]
    BY <1>owned, <1>5, <2>1, <2>3 DEF IsStored, Stored, InHand
  <2> QED
    BY <2>2, <2>3
<1>6. CASE IsTaken(t)
  <2>1. hand[t] = None
    BY <1>6 DEF IsTaken, Places, HandsHaveSteps, HandPcs
  <2> QED
    BY <1>owned, <1>6, <2>1 DEF IsTaken, Stored, InHand, Shape, TypeLocals, TypeShelf
<1>7. CASE IsUnloaded(t) \/ IsUnplugged(t)
  BY <1>7 DEF IsUnloaded, IsUnplugged, ContextsOwned, Stored, InHand
<1>8. CASE IsRetired(t)
  <2>1. d \in live /\ d # hand[t]
    BY <1>8 DEF IsRetired, Places, Backed
  <2> QED
    BY <1>8, <2>1 DEF IsRetired, ContextsOwned, Stored, InHand, Shape, TypeLocals
<1>9. CASE IsReplaced(t)
  <2>1. d \in live /\ d # storage[at[t]]
    BY <1>9 DEF IsReplaced, Places, Backed
  <2>2. at[t] \in Handles
    BY <1>9 DEF IsReplaced, Shape, TypeLocals, Carries, AtPcs, ReloadSteps
  <2>3. CASE d = hand[t]
    BY <1>9, <2>2, <2>3 DEF IsReplaced, Stored, Shape, TypeShelf
  <2>4. CASE d # hand[t]
    BY <1>9, <2>1, <2>2, <2>4 DEF IsReplaced, ContextsOwned, Stored, InHand, Shape,
       TypeShelf
  <2> QED
    BY <2>3, <2>4
<1> QED
  BY <1>effect, <1>1, <1>2, <1>3, <1>4, <1>5, <1>6, <1>7, <1>8, <1>9 DEF Effect

\* A panic drops plugins, and changes at most that an api is removed.
PanicsWell ==
  /\ \A h \in Handles : storage'[h] = storage[h] \/ storage'[h] = None
  /\ UNCHANGED <<live, unloaded>>
  /\ \A p \in Paths : api'[p] = api[p] \/ api'[p] = None

LEMMA PanicEffect ==
  ASSUME Shape, NEW t \in Threads, Move(t), pc'[t] = "panicked"
  PROVE  PanicsWell
<1> USE DEF PanicsWell, Shape, TypeLocals, TypeShelf, registry, Go, Panic
<1>1. ASSUME NEW p \in Paths, LoadFails(t, p) PROVE PanicsWell
  BY <1>1 DEF LoadFails, TypeWorld, shelf, locals
<1>2. ASSUME NEW p \in Paths, NEW hot \in BOOLEAN, Load(t, p, hot) PROVE PanicsWell
  BY <1>2 DEF Load, Open
<1>3. CASE LoadStat(t)
  BY <1>3 DEF LoadStat, Stat, Done, TypeWorld
<1>4. CASE LoadPlugin(t)
  BY <1>4 DEF LoadPlugin, Refuses, Sets, Done, LockRegistry, TypeWorld, locals
<1>5. CASE Insert(t)
  BY <1>5 DEF Insert
<1>6. CASE Push(t)
  BY <1>6 DEF Push, Done, LockList, ListLocked
<1>7. ASSUME NEW k \in Handles, Take(t, k) PROVE PanicsWell
  BY <1>7 DEF Take, Given, Locked, TypeWorld, shelf, locals
<1>8. CASE UnloadPlugin(t)
  BY <1>8 DEF UnloadPlugin, LockRegistry, TypeWorld, locals
<1>9. CASE Retire(t)
  BY <1>9 DEF Retire, Done, LockList, ListLocked
<1>10. ASSUME NEW k \in Handles, ReloadCall(t, k) PROVE PanicsWell
  BY <1>10 DEF ReloadCall, Reload, Done
<1>11. CASE ReloadCopy(t)
  BY <1>11 DEF ReloadCopy, Open, TypeWorld, locals
<1>12. CASE ReloadStat(t)
  BY <1>12 DEF ReloadStat, Stat, TypeWorld, shelf, locals
<1>13. CASE ReloadUnload(t)
  BY <1>13 DEF ReloadUnload
<1>14. CASE ReloadLoad(t)
  BY <1>14 DEF ReloadLoad, Refuses, Sets, Swap, Done, LockRegistry, TypeWorld, shelf,
     locals
<1>15. ASSUME NEW k \in Handles, NEW p \in Paths, SetPath(t, k, p) PROVE PanicsWell
  BY <1>15 DEF SetPath, TypeWorld, shelf, locals
<1>16. CASE Tick(t)
  BY <1>16 DEF Tick, LockList, ListLocked
<1>17. CASE Peek(t)
  BY <1>17 DEF Peek, TypeWorld, shelf, locals
<1>18. CASE Scan(t)
  BY <1>18 DEF Scan, TypeWorld, shelf, locals
<1>19. CASE TickReload(t)
  BY <1>19 DEF TickReload, Reload, Done
<1>20. CASE TickEnd(t)
  BY <1>20 DEF TickEnd
<1> QED
  BY Moves, <1>1, <1>2, <1>3, <1>4, <1>5, <1>6, <1>7, <1>8, <1>9, <1>10, <1>11, <1>12,
     <1>13, <1>14, <1>15, <1>16, <1>17, <1>18, <1>19, <1>20

LEMMA ContextsThereKept ==
  ASSUME Shape, Places, ContextsThere, NEW t \in Threads, Move(t)
  PROVE  ContextsThere'
<1> SUFFICES ASSUME NEW h \in Handles, storage'[h] # None, Registered(storage[h])',
                    ~Locked(h)', h \notin broken'
             PROVE  storage'[h] \in live'
  BY DEF ContextsThere
<1>before. h \notin broken /\ (Locked(h) => pc[t] = "plug" /\ at[t] = h /\ Swap(t))
  BY LocksLast, BrokenLasts
<1>1. CASE Locked(h)
  <2>1. pc[t] = "plug" /\ at[t] = h /\ Swap(t)
    BY <1>before, <1>1
  <2>2. hand[t] \in live /\ ~Registered(hand[t]) /\ hand[t] # None
    BY <2>1 DEF Places, Backed, Shape, Carries, HandPcs
  <2>3. storage'[h] = hand[t] /\ hand'[t] = None /\ pc'[t] # "panicked"
    BY <2>1 DEF Swap, Done, Shape, TypeShelf, TypeLocals
  <2>4. IsReplaced(t)
    BY <2>1, <2>2, <2>3, Effects DEF Effect, Quiet, Comes, IsRefused, IsSet, IsStored,
       IsTaken,
       IsUnloaded, IsRetired, IsUnplugged
  <2>5. api' # api
    BY <2>2, <2>3 DEF Registered
  <2> QED
    BY <2>2, <2>3, <2>4, <2>5 DEF IsReplaced
<1>2. CASE ~Locked(h) /\ pc'[t] = "panicked"
  <2>1. PanicsWell
    BY <1>2, PanicEffect
  <2>2. storage'[h] = storage[h] /\ Registered(storage[h])
    BY <2>1, Names DEF PanicsWell, Registered, Shape, TypeShelf
  <2> QED
    BY <1>before, <1>2, <2>1, <2>2 DEF PanicsWell, ContextsThere
<1>3. CASE ~Locked(h) /\ pc'[t] # "panicked"
  <2>effect. Effect(t)
    BY <1>3, Effects
  <2>1. storage[h] # None /\ Registered(storage[h]) => storage[h] \in live
    BY <1>before, <1>3 DEF ContextsThere
  <2>2. hand[t] # None => storage[h] # hand[t]
    BY DEF Places, HandNotStored
  <2>3. pc[t] \in ReloadSteps => at[t] # h
    BY <1>3 DEF Locked
  <2>4. CASE Quiet \/ IsRetired(t) \/ Comes(t)
    BY <2>1, <2>4 DEF Quiet, IsRetired, Comes, Registered
  <2>5. CASE IsRefused(t)
    BY <2>1, <2>2, <2>5 DEF IsRefused, Registered, Shape
  <2>6. CASE IsSet(t)
    <3>1. hand[t] # None
      BY <2>6 DEF IsSet, Shape, Carries, HandPcs
    <3> QED
      BY <2>1, <2>2, <2>6, <3>1 DEF IsSet, Registered, Shape, TypeWorld
  <2>7. CASE IsStored(t)
    BY <2>1, <2>7 DEF IsStored, Registered, Places, Backed, Shape, TypeShelf
  <2>8. CASE IsTaken(t)
    BY <2>1, <2>8 DEF IsTaken, Registered, Shape, TypeShelf
  <2>9. CASE IsUnloaded(t)
    <3>1. hand[t] # None
      BY <2>9 DEF IsUnloaded, Shape, Carries, HandPcs
    <3> QED
      BY <2>1, <2>2, <2>9, <3>1, Names DEF IsUnloaded, Registered, Shape
  <2>10. CASE IsUnplugged(t)
    <3>1. at[t] \in Handles /\ at[t] # h /\ storage[at[t]] # None
      BY <2>3, <2>10 DEF IsUnplugged, Shape, TypeLocals, Carries, AtPcs, ReloadSteps
    <3> QED
      BY <2>1, <2>10, <3>1 DEF IsUnplugged, Registered, Places, StoredApart
  <2>11. CASE IsReplaced(t)
    <3>1. at[t] # h /\ hand[t] # None
      BY <2>3, <2>11 DEF IsReplaced, Shape, Carries, HandPcs, ReloadSteps
    <3>2. storage'[h] = storage[h] /\ storage[h] # hand[t]
      BY <2>2, <2>11, <3>1 DEF IsReplaced, Shape, TypeShelf
    <3> QED
      BY <2>1, <2>11, <3>2 DEF IsReplaced, Registered, Shape, TypeWorld
  <2> QED
    BY <2>effect, <2>4, <2>5, <2>6, <2>7, <2>8, <2>9, <2>10, <2>11 DEF Effect
<1> QED
  BY <1>1, <1>2, <1>3

LEMMA PlacesAlways == Spec => [](Shape /\ Places)
BY InitShape, InitPlaces, ShapeKept, PlacesKept, PTL DEF Spec

\* No context of a plugin outlives its library but after a panic, and a stored
\* plugin whose api is registered has its context (ContextsMatch): a refused load or
\* reload cleans up, and no interleaving takes a context from a plugin in use.
THEOREM ContextsMatchHolds == Spec => []ContextsMatch
<1>1. ContextsMatch <=> ContextsOwned /\ ContextsThere
  BY DEF ContextsMatch, ContextsOwned, ContextsThere
<1>2. Init => ContextsOwned /\ ContextsThere
  BY DEF Init, ContextsOwned, ContextsThere
<1>3. ASSUME Shape, Places, ContextsOwned, ContextsThere, [Next]_vars
      PROVE  (ContextsOwned /\ ContextsThere)'
  <2>1. ASSUME NEW t \in Threads, Move(t) PROVE (ContextsOwned /\ ContextsThere)'
    BY <1>3, <2>1, ContextsOwnedKept, ContextsThereKept
  <2>2. CASE UNCHANGED <<storage, hand, pc, at, live, api, broken>>
    BY <1>3, <2>2 DEF ContextsOwned, ContextsThere, Stored, InHand, Registered,
       Panicked, Locked
  <2>3. ASSUME NEW p \in Paths, BuildBegin(p) \/ BuildEnd(p)
        PROVE  UNCHANGED <<storage, hand, pc, at, live, api, broken>>
    BY <2>3 DEF BuildBegin, BuildEnd, shelf, registry, locals
  <2>4. UNCHANGED vars => UNCHANGED <<storage, hand, pc, at, live, api, broken>>
    BY DEF vars, shelf, registry, locals
  <2> QED
    BY <1>3, <2>1, <2>2, <2>3, <2>4, NextIsMove
<1> QED
  BY <1>1, <1>2, <1>3, PlacesAlways, PTL DEF Spec

-----------------------------------------------------------------------------
(* No library is closed while its api is registered *)

LEMMA KeptStep ==
  ASSUME Shape, Places, KeptWhileSound, NEW t \in Threads, Move(t)
  PROVE  KeptWhileSound'
<1> SUFFICES ASSUME ~Panicked, ~Panicked', NEW p \in Paths, api'[p] # None
             PROVE  Mapped(api[p])'
  BY PanicsLast DEF KeptWhileSound
<1>effect. Effect(t)
  BY Effects DEF Panicked
<1>1. \A q \in Paths : api[q] # None => Mapped(api[q])
  BY DEF KeptWhileSound
<1>2. hand[t] # None => pc[t] \in HandPcs
  BY DEF Places, HandsHaveSteps
<1> USE DEF Mapped, Stored, InHand
<1>3. CASE Quiet \/ IsUnplugged(t)
  BY <1>1, <1>3 DEF Quiet, IsUnplugged
<1>4. CASE Comes(t)
  <2>1. hand[t] = None
    BY <1>2, <1>4 DEF Comes, HandPcs
  <2> QED
    BY <1>1, <1>4, <2>1 DEF Comes, Registered, Shape, TypeLocals
<1>5. CASE IsRefused(t)
  <2>1. api[p] # hand[t]
    BY <1>5 DEF IsRefused, Places, Backed, Registered
  <2> QED
    BY <1>1, <1>5, <2>1 DEF IsRefused, Shape, TypeLocals
<1>6. CASE IsSet(t)
  BY <1>1, <1>6 DEF IsSet, Shape, TypeWorld
<1>7. CASE IsStored(t)
  <2>1. PICK h \in Handles : storage[h] = None /\ storage' = [storage EXCEPT ![h] = hand[t]]
    BY <1>7 DEF IsStored
  <2>2. api[p] # None /\ Mapped(api[p]) /\ api' = api
    BY <1>1, <1>7 DEF IsStored
  <2> QED
    BY <1>7, <2>1, <2>2 DEF IsStored, Shape, TypeLocals, TypeShelf
<1>8. CASE IsTaken(t)
  <2>1. hand[t] = None
    BY <1>2, <1>8 DEF IsTaken, HandPcs
  <2>2. PICK h \in Handles : storage' = [storage EXCEPT ![h] = None] /\ hand' = [hand EXCEPT ![t] = storage[h]]
    BY <1>8 DEF IsTaken
  <2>3. api[p] # None /\ Mapped(api[p]) /\ api' = api
    BY <1>1, <1>8 DEF IsTaken
  <2> QED
    BY <1>8, <2>1, <2>2, <2>3 DEF IsTaken, Shape, TypeLocals, TypeShelf
<1>9. CASE IsUnloaded(t)
  BY <1>1, <1>9 DEF IsUnloaded, Shape, TypeWorld
<1>10. CASE IsRetired(t)
  BY <1>1, <1>10 DEF IsRetired, Shape, TypeLocals
<1>11. CASE IsReplaced(t)
  <2>1. at[t] \in Handles
    BY <1>11 DEF IsReplaced, Shape, TypeLocals, Carries, AtPcs, ReloadSteps
  <2>2. CASE api'[p] = hand[t]
    BY <1>11, <2>1, <2>2 DEF IsReplaced, Shape, TypeShelf
  <2>3. CASE api'[p] # hand[t]
    <3>1. api'[p] = api[p] /\ Mapped(api[p])
      BY <1>1, <1>11, <2>3 DEF IsReplaced, Shape, TypeWorld
    <3> QED
      BY <1>11, <2>1, <2>3, <3>1 DEF IsReplaced, Shape, TypeShelf, TypeLocals
  <2> QED
    BY <2>2, <2>3
<1> QED
  BY <1>effect, <1>3, <1>4, <1>5, <1>6, <1>7, <1>8, <1>9, <1>10, <1>11 DEF Effect

\* While no call has panicked, no api is left in the registry whose library has
\* been closed (KeptWhileSound): not by a refusal, not by any two calls at once.
THEOREM KeptWhileSoundHolds == Spec => []KeptWhileSound
<1>1. Init => KeptWhileSound
  BY DEF Init, KeptWhileSound
<1>2. ASSUME Shape, Places, KeptWhileSound, [Next]_vars PROVE KeptWhileSound'
  <2>1. ASSUME NEW t \in Threads, Move(t) PROVE KeptWhileSound'
    BY <1>2, <2>1, KeptStep
  <2>2. CASE UNCHANGED <<storage, hand, pc, unloaded, api>>
    BY <1>2, <2>2 DEF KeptWhileSound, Mapped, Stored, InHand, Panicked
  <2>3. ASSUME NEW p \in Paths, BuildBegin(p) \/ BuildEnd(p)
        PROVE  UNCHANGED <<storage, hand, pc, unloaded, api>>
    BY <2>3 DEF BuildBegin, BuildEnd, shelf, registry, locals
  <2>4. UNCHANGED vars => UNCHANGED <<storage, hand, pc, unloaded, api>>
    BY DEF vars, shelf, registry, locals
  <2> QED
    BY <1>2, <2>1, <2>2, <2>3, <2>4, NextIsMove
<1> QED
  BY <1>1, <1>2, PlacesAlways, PTL DEF Spec

-----------------------------------------------------------------------------
(* The list of handles and the slab *)

Leaving == {"unload", "retire"}
Keyed == {"push"} \cup Leaving

\* While no call has panicked: no handle is listed twice, a handle that is about
\* to be pushed is not listed and its plugin there, one that is about to be removed
\* is listed and its plugin gone, and no two calls are about the same handle.
ListedOnce == \A i, j \in DOMAIN handles : handles[i] = handles[j] => i = j
Entry(t) ==
  /\ pc[t] = "push" => storage[at[t]] # None /\ ~Listed(at[t])
  /\ pc[t] \in Leaving => storage[at[t]] = None /\ Listed(at[t])
OwnKeys ==
  \A t, u \in Threads : t # u /\ pc[t] \in Keyed /\ pc[u] \in Keyed => at[t] # at[u]
Agree ==
  \A h \in Handles :
    /\ storage[h] # None => Listed(h) \/ \E t \in Threads : at[t] = h /\ pc[t] = "push"
    /\ Listed(h) => storage[h] # None \/ \E t \in Threads : at[t] = h /\ pc[t] \in Leaving
ListInv == ListedOnce /\ OwnKeys /\ Agree /\ \A t \in Threads : Entry(t)

\* What a step that does not panic does to the list and the slab.
Same(u) ==
  /\ pc'[u] = "push" <=> pc[u] = "push"
  /\ pc'[u] \in Leaving <=> pc[u] \in Leaving
  /\ pc[u] \in Keyed => at'[u] = at[u]
Unlisted == UNCHANGED handles /\ (\A h \in Handles : storage'[h] = None <=> storage[h] = None)
AddsEntry(t) ==
  /\ pc[t] = "insert" /\ pc'[t] = "push"
  /\ at'[t] \in Handles
  /\ storage[at'[t]] = None /\ ~Listed(at'[t]) /\ (\A u \in Threads : at[u] # at'[t])
  /\ hand[t] # None /\ storage' = [storage EXCEPT ![at'[t]] = hand[t]]
  /\ UNCHANGED handles
AddsHandle(t) ==
  /\ pc[t] = "push" /\ pc'[t] \notin Keyed
  /\ handles' = Append(handles, at[t])
  /\ UNCHANGED storage
DropsEntry(t) ==
  /\ pc[t] = "idle" /\ pc'[t] = "unload"
  /\ at'[t] \in Handles
  /\ storage[at'[t]] # None /\ Listed(at'[t])
  /\ storage' = [storage EXCEPT ![at'[t]] = None]
  /\ UNCHANGED handles
DropsHandle(t) ==
  /\ pc[t] = "retire" /\ pc'[t] \notin Keyed
  /\ handles' = Retained(at[t])
  /\ UNCHANGED storage

ListEffect(t) ==
  \/ Unlisted /\ Same(t)
  \/ AddsEntry(t) \/ AddsHandle(t) \/ DropsEntry(t) \/ DropsHandle(t)

LEMMA ListEffects ==
  ASSUME Shape, NEW t \in Threads, Move(t), pc'[t] # "panicked"
  PROVE  ListEffect(t)
<1>calm. Panic(t) => FALSE
  BY DEF Panic, Shape, TypeLocals
<1>slots. UNCHANGED storage => (\A h \in Handles : storage'[h] = None <=> storage[h] = None)
  OBVIOUS
<1> USE DEF Shape, ListEffect
<1>1. ASSUME NEW p \in Paths, LoadFails(t, p) PROVE ListEffect(t)
  BY <1>1, <1>calm DEF LoadFails, Unlisted, Same, Keyed, Leaving, ReloadSteps,
     TypeLocals, shelf, locals
<1>2. ASSUME NEW p \in Paths, NEW hot \in BOOLEAN, Load(t, p, hot) PROVE ListEffect(t)
  BY <1>2, <1>calm DEF Load, Open, Go, Unlisted, Same, Keyed, Leaving, ReloadSteps, locals
<1>3. CASE LoadStat(t)
  BY <1>3, <1>calm DEF LoadStat, Stat, Go, Done, Unlisted, Same, Keyed, Leaving,
     ReloadSteps, TypeLocals, shelf, locals
<1>4. CASE LoadPlugin(t)
  BY <1>4, <1>calm DEF LoadPlugin, Refuses, Sets, Done, Go, LockRegistry, Unlisted,
     Same, Keyed, Leaving, ReloadSteps, TypeLocals, shelf, locals
<1>5. CASE Insert(t)
  <2>1. PICK h \in Handles :
          /\ storage[h] = None /\ ~Listed(h) /\ (\A u \in Threads : at[u] # h)
          /\ storage' = [storage EXCEPT ![h] = hand[t]]
          /\ at' = [at EXCEPT ![t] = h]
    BY <1>5 DEF Insert, FreshKey, FreeKey
  <2>2. at'[t] = h /\ pc'[t] = "push" /\ hand[t] # None
    BY <1>5, <2>1 DEF Insert, Go, TypeLocals, Carries, HandPcs
  <2> QED
    BY <1>5, <2>1, <2>2 DEF Insert, AddsEntry
<1>6. CASE Push(t)
  <2>1. Done(t) /\ handles' = Append(handles, at[t])
    BY <1>6, <1>calm DEF Push, LockList
  <2>2. pc'[t] \notin Keyed
    BY <2>1 DEF Done, Keyed, Leaving, TypeLocals
  <2> QED
    BY <1>6, <2>1, <2>2 DEF Push, AddsHandle
<1>7. ASSUME NEW h \in Handles, Take(t, h) PROVE ListEffect(t)
  <2>1. h \notin broken
    BY <1>7 DEF Take, TypeLocals
  <2>2. at'[t] = h /\ pc'[t] = "unload"
    BY <1>7, <2>1 DEF Take, Go, TypeLocals
  <2> QED
    BY <1>7, <2>1, <2>2 DEF Take, Given, DropsEntry
<1>8. CASE UnloadPlugin(t)
  BY <1>8, <1>calm DEF UnloadPlugin, Go, LockRegistry, Unlisted, Same, Keyed, Leaving,
     ReloadSteps, TypeLocals, shelf, locals
<1>9. CASE Retire(t)
  <2>1. Done(t) /\ handles' = Retained(at[t])
    BY <1>9, <1>calm DEF Retire, LockList
  <2>2. pc'[t] \notin Keyed
    BY <2>1 DEF Done, Keyed, Leaving, TypeLocals
  <2> QED
    BY <1>9, <2>1, <2>2 DEF Retire, DropsHandle
<1>10. ASSUME NEW h \in Handles, ReloadCall(t, h) PROVE ListEffect(t)
  BY <1>10, <1>calm DEF ReloadCall, Reload, Done, Go, Unlisted, Same, Keyed, Leaving,
     ReloadSteps, TypeLocals, shelf, locals
<1>11. CASE ReloadCopy(t)
  BY <1>11, <1>calm DEF ReloadCopy, Open, Go, Unlisted, Same, Keyed, Leaving,
     ReloadSteps, TypeLocals, shelf, locals
<1>12. CASE ReloadStat(t)
  BY <1>12, <1>calm DEF ReloadStat, Stat, Go, Unlisted, Same, Keyed, Leaving,
     ReloadSteps, TypeLocals, shelf, locals
<1>13. CASE ReloadUnload(t)
  BY <1>13, <1>calm DEF ReloadUnload, Go, Unlisted, Same, Keyed, Leaving, ReloadSteps,
     shelf, locals
<1>14. CASE ReloadLoad(t)
  <2>1. Swap(t)
    BY <1>14, <1>calm DEF ReloadLoad, LockRegistry
  <2>2. hand[t] # None /\ at[t] \in Handles /\ storage[at[t]] # None
    BY <1>14 DEF ReloadLoad, TypeLocals, Carries, HandPcs, AtPcs, ReloadSteps
  <2>3. Unlisted
    BY <2>1, <2>2 DEF Swap, Unlisted, TypeShelf
  <2>4. Same(t)
    BY <1>14, <2>1 DEF ReloadLoad, Swap, Done, Same, Keyed, Leaving
  <2> QED
    BY <2>3, <2>4
<1>15. ASSUME NEW h \in Handles, NEW p \in Paths, SetPath(t, h, p) PROVE ListEffect(t)
  BY <1>15, <1>calm DEF SetPath, Unlisted, Same, Keyed, Leaving, ReloadSteps,
     TypeLocals, shelf, locals
<1>16. CASE Tick(t)
  BY <1>16, <1>calm DEF Tick, LockList, Go, Unlisted, Same, Keyed, Leaving, ReloadSteps,
     TypeLocals, shelf, locals
<1>17. CASE Peek(t)
  BY <1>17, <1>calm DEF Peek, Go, Unlisted, Same, Keyed, Leaving, ReloadSteps,
     TypeLocals, shelf, locals
<1>18. CASE Scan(t)
  BY <1>18, <1>calm DEF Scan, Go, Unlisted, Same, Keyed, Leaving, ReloadSteps,
     TypeLocals, shelf, locals
<1>19. CASE TickReload(t)
  BY <1>19, <1>calm DEF TickReload, Reload, Done, Go, Unlisted, Same, Keyed, Leaving,
     ReloadSteps, TypeLocals, shelf, locals
<1>20. CASE TickEnd(t)
  BY <1>20, <1>calm DEF TickEnd, Go, Unlisted, Same, Keyed, Leaving, ReloadSteps, shelf,
     locals
<1> QED
  BY Moves, <1>1, <1>2, <1>3, <1>4, <1>5, <1>6, <1>7, <1>8, <1>9, <1>10, <1>11, <1>12,
     <1>13, <1>14, <1>15, <1>16, <1>17, <1>18, <1>19, <1>20

LEMMA Appended ==
  ASSUME Shape, NEW x \in Handles, handles' = Append(handles, x)
  PROVE  /\ \A h : Listed(h)' <=> Listed(h) \/ h = x
         /\ ListedOnce /\ ~Listed(x) => ListedOnce'
<1> USE DEF Listed
<1>1. /\ Len(handles) \in Nat
      /\ DOMAIN handles = 1 .. Len(handles)
      /\ DOMAIN handles' = 1 .. Len(handles) + 1
      /\ \A i \in 1 .. Len(handles) : handles'[i] = handles[i]
      /\ handles'[Len(handles) + 1] = x
  BY DEF Shape, TypeShelf
<1>2. \A i \in DOMAIN handles' : i \in DOMAIN handles \/ i = Len(handles) + 1
  BY <1>1
<1>3. ASSUME NEW h PROVE Listed(h)' <=> Listed(h) \/ h = x
  <2>1. Listed(h) => Listed(h)'
    BY <1>1
  <2>2. h = x => Listed(h)'
    <3>1. Len(handles) + 1 \in DOMAIN handles'
      BY <1>1
    <3> QED
      BY <1>1, <3>1
  <2>3. Listed(h)' => Listed(h) \/ h = x
    BY <1>1, <1>2
  <2> QED
    BY <2>1, <2>2, <2>3
<1>4. ASSUME ListedOnce, ~Listed(x) PROVE ListedOnce'
  BY <1>1, <1>2, <1>4 DEF ListedOnce
<1> QED
  BY <1>3, <1>4

LEMMA Removed ==
  ASSUME Shape, ListedOnce, NEW x \in Handles, Listed(x), handles' = Retained(x)
  PROVE  ListedOnce' /\ \A h : Listed(h)' <=> Listed(h) /\ h # x
<1> DEFINE n == CHOOSE i \in DOMAIN handles : handles[i] = x
<1>1. n \in DOMAIN handles /\ handles[n] = x
  BY DEF Listed
<1>2. handles' = [i \in 1 .. Len(handles) - 1 |-> IF i < n THEN handles[i] ELSE handles[i + 1]]
  BY DEF Retained
<1> HIDE DEF n
<1>3. Len(handles) \in Nat /\ DOMAIN handles = 1 .. Len(handles)
  BY DEF Shape, TypeShelf
<1>4. /\ DOMAIN handles' = 1 .. Len(handles) - 1
      /\ \A i \in 1 .. Len(handles) - 1 :
           handles'[i] = IF i < n THEN handles[i] ELSE handles[i + 1]
  BY <1>2
<1>5. \A i \in DOMAIN handles' :
        /\ i < n => i \in DOMAIN handles /\ handles'[i] = handles[i]
        /\ ~(i < n) => i + 1 \in DOMAIN handles /\ i + 1 # n /\ handles'[i] = handles[i + 1]
  BY <1>1, <1>3, <1>4
<1>6. \A i \in DOMAIN handles : i # n =>
        \E j \in DOMAIN handles' : handles'[j] = handles[i]
  <2> SUFFICES ASSUME NEW i \in DOMAIN handles, i # n
               PROVE  \E j \in DOMAIN handles' : handles'[j] = handles[i]
    OBVIOUS
  <2>1. CASE i < n
    <3>1. i \in DOMAIN handles'
      BY <1>1, <1>3, <1>4, <2>1
    <3> QED
      BY <1>5, <2>1, <3>1
  <2>2. CASE i > n
    <3>1. i - 1 \in DOMAIN handles' /\ ~(i - 1 < n) /\ (i - 1) + 1 = i
      BY <1>1, <1>3, <1>4, <2>2
    <3> QED
      BY <1>5, <3>1
  <2> QED
    BY <1>1, <1>3, <2>1, <2>2
<1>7. \A i \in DOMAIN handles : handles[i] = x => i = n
  BY <1>1 DEF ListedOnce
<1>8. ASSUME NEW h PROVE Listed(h)' <=> Listed(h) /\ h # x
  <2>1. ASSUME NEW i \in DOMAIN handles' PROVE Listed(handles'[i]) /\ handles'[i] # x
    <3>1. CASE i < n
      <4>1. i # n
        BY <1>1, <1>3, <1>4, <3>1
      <4> QED
        BY <1>5, <1>7, <2>1, <3>1, <4>1 DEF Listed
    <3>2. CASE ~(i < n)
      BY <1>5, <1>7, <2>1, <3>2 DEF Listed
    <3> QED
      BY <3>1, <3>2
  <2>2. Listed(h)' => Listed(h) /\ h # x
    BY <2>1 DEF Listed
  <2>3. Listed(h) /\ h # x => Listed(h)'
    BY <1>1, <1>6 DEF Listed
  <2> QED
    BY <2>2, <2>3
<1>9. ListedOnce'
  <2> SUFFICES ASSUME NEW i \in DOMAIN handles', NEW j \in DOMAIN handles', handles'[i] = handles'[j]
               PROVE  i = j
    BY DEF ListedOnce
  <2>0. i \in Nat /\ j \in Nat /\ n \in Nat
    BY <1>1, <1>3, <1>4
  <2>1. CASE i < n /\ j < n
    BY <1>5, <2>1 DEF ListedOnce
  <2>2. CASE i < n /\ ~(j < n)
    <3>1. i = j + 1
      BY <1>5, <2>2 DEF ListedOnce
    <3> QED
      BY <2>0, <2>2, <3>1
  <2>3. CASE ~(i < n) /\ j < n
    <3>1. j = i + 1
      BY <1>5, <2>3 DEF ListedOnce
    <3> QED
      BY <2>0, <2>3, <3>1
  <2>4. CASE ~(i < n) /\ ~(j < n)
    <3>1. i + 1 = j + 1
      BY <1>5, <2>4 DEF ListedOnce
    <3> QED
      BY <2>0, <3>1
  <2> QED
    BY <2>1, <2>2, <2>3, <2>4
<1> QED
  BY <1>8, <1>9

LEMMA ListKept ==
  ASSUME Shape, ListInv, NEW t \in Threads, Move(t), pc'[t] # "panicked"
  PROVE  ListInv'
<1>others. \A u \in Threads \ {t} : pc'[u] = pc[u] /\ at'[u] = at[u]
  BY OthersStand
<1>keys. \A u \in Threads : pc[u] \in Keyed => at[u] \in Handles
  BY DEF Shape, TypeLocals, Carries, AtPcs, Keyed, Leaving
<1> USE DEF ListInv
<1>1. ListEffect(t)
  BY ListEffects
<1> USE DEF Keyed, Leaving
<1>2. CASE Unlisted /\ Same(t)
  <2>1. \A u \in Threads : Same(u)
    BY <1>others, <1>2 DEF Same
  <2>2. \A h : Listed(h)' <=> Listed(h)
    BY <1>2 DEF Unlisted, Listed
  <2>3. ListedOnce'
    BY <1>2 DEF Unlisted, ListedOnce
  <2>4. OwnKeys'
    BY <2>1 DEF Same, OwnKeys
  <2>5. \A u \in Threads : Entry(u)'
    BY <1>keys, <1>2, <2>1, <2>2 DEF Same, Unlisted, Entry
  <2>6. Agree'
    BY <1>2, <2>1, <2>2 DEF Same, Unlisted, Agree
  <2> QED
    BY <2>3, <2>4, <2>5, <2>6
<1>3. CASE AddsEntry(t)
  <2>1. \A h : Listed(h)' <=> Listed(h)
    BY <1>3 DEF AddsEntry, Listed
  <2>2. \A h \in Handles : storage'[h] = IF h = at'[t] THEN hand[t] ELSE storage[h]
    BY <1>3 DEF AddsEntry, Shape, TypeShelf
  <2>3. ListedOnce'
    BY <1>3 DEF AddsEntry, ListedOnce
  <2>4. OwnKeys'
    BY <1>others, <1>3 DEF AddsEntry, OwnKeys
  <2>5. \A u \in Threads : Entry(u)'
    BY <1>others, <1>keys, <1>3, <2>1, <2>2 DEF AddsEntry, Entry
  <2>6. Agree'
    <3> SUFFICES ASSUME NEW h \in Handles
                 PROVE  /\ storage'[h] # None => Listed(h) \/ \E u \in Threads : at'[u] = h /\ pc'[u] = "push"
                        /\ Listed(h) => storage'[h] # None \/ \E u \in Threads : at'[u] = h /\ pc'[u] \in Leaving
      BY <2>1 DEF Agree
    <3>1. CASE h = at'[t]
      BY <1>3, <2>2, <3>1 DEF AddsEntry
    <3>2. CASE h # at'[t]
      BY <1>others, <1>3, <2>2, <3>2 DEF AddsEntry, Agree
    <3> QED
      BY <3>1, <3>2
  <2> QED
    BY <2>3, <2>4, <2>5, <2>6
<1>4. CASE AddsHandle(t)
  <2>1. at[t] \in Handles /\ ~Listed(at[t]) /\ storage[at[t]] # None
    BY <1>keys, <1>4 DEF AddsHandle, Entry
  <2>2. ListedOnce' /\ \A h : Listed(h)' <=> Listed(h) \/ h = at[t]
    BY <1>4, <2>1, Appended DEF AddsHandle
  <2>3. OwnKeys'
    BY <1>others, <1>4 DEF AddsHandle, OwnKeys
  <2>4. \A u \in Threads : Entry(u)'
    BY <1>others, <1>4, <2>2 DEF AddsHandle, Entry, OwnKeys
  <2>5. Agree'
    BY <1>others, <1>4, <2>1, <2>2 DEF AddsHandle, Agree
  <2> QED
    BY <2>2, <2>3, <2>4, <2>5
<1>5. CASE DropsEntry(t)
  <2>1. \A h : Listed(h)' <=> Listed(h)
    BY <1>5 DEF DropsEntry, Listed
  <2>2. \A h \in Handles : storage'[h] = IF h = at'[t] THEN None ELSE storage[h]
    BY <1>5 DEF DropsEntry, Shape, TypeShelf
  <2>3. ListedOnce'
    BY <1>5 DEF DropsEntry, ListedOnce
  <2>4. \A u \in Threads : pc[u] \in Keyed => at[u] # at'[t]
    BY <1>5 DEF DropsEntry, Entry
  <2>5. OwnKeys'
    BY <1>others, <1>5, <2>4 DEF DropsEntry, OwnKeys
  <2>6. \A u \in Threads : Entry(u)'
    BY <1>others, <1>keys, <1>5, <2>1, <2>2, <2>4 DEF DropsEntry, Entry
  <2>7. Agree'
    <3> SUFFICES ASSUME NEW h \in Handles
                 PROVE  /\ storage'[h] # None => Listed(h) \/ \E u \in Threads : at'[u] = h /\ pc'[u] = "push"
                        /\ Listed(h) => storage'[h] # None \/ \E u \in Threads : at'[u] = h /\ pc'[u] \in Leaving
      BY <2>1 DEF Agree
    <3>1. CASE h = at'[t]
      BY <1>5, <2>2, <3>1 DEF DropsEntry
    <3>2. CASE h # at'[t]
      BY <1>others, <1>5, <2>2, <3>2 DEF DropsEntry, Agree
    <3> QED
      BY <3>1, <3>2
  <2> QED
    BY <2>3, <2>5, <2>6, <2>7
<1>6. CASE DropsHandle(t)
  <2>1. at[t] \in Handles /\ Listed(at[t]) /\ storage[at[t]] = None
    BY <1>keys, <1>6 DEF DropsHandle, Entry
  <2>2. ListedOnce' /\ \A h : Listed(h)' <=> Listed(h) /\ h # at[t]
    BY <1>6, <2>1, Removed DEF DropsHandle
  <2>3. OwnKeys'
    BY <1>others, <1>6 DEF DropsHandle, OwnKeys
  <2>4. \A u \in Threads : Entry(u)'
    BY <1>others, <1>6, <2>2 DEF DropsHandle, Entry, OwnKeys
  <2>5. Agree'
    BY <1>others, <1>6, <2>1, <2>2 DEF DropsHandle, Agree
  <2> QED
    BY <2>2, <2>3, <2>4, <2>5
<1> QED
  BY <1>1, <1>2, <1>3, <1>4, <1>5, <1>6 DEF ListEffect

\* While no call has panicked, the handle list and the slab agree but for the plugins
\* that a call is loading or unloading, and no handle is listed twice (HandlesAgree):
\* which is why retain in unload removes one place, and a tick asks each plugin once.
THEOREM HandlesAgreeHolds == Spec => []HandlesAgree
<1> DEFINE Inv == Panicked \/ ListInv
<1>1. Init => Inv
  <2> SUFFICES ASSUME Init PROVE ListInv
    OBVIOUS
  <2>1. DOMAIN handles = {}
    BY DEF Init
  <2> QED
    BY <2>1 DEF Init, ListInv, ListedOnce, OwnKeys, Agree, Entry, Listed, Keyed, Leaving
<1>2. ASSUME Shape, Inv, [Next]_vars PROVE Inv'
  <2>1. ASSUME NEW t \in Threads, Move(t) PROVE Inv'
    <3>1. Panicked => Panicked'
      BY <1>2, <2>1, PanicsLast
    <3>2. pc'[t] = "panicked" => Panicked'
      BY DEF Panicked
    <3> QED
      BY <1>2, <2>1, <3>1, <3>2, ListKept
  <2>2. CASE UNCHANGED <<storage, handles, pc, at>>
    BY <1>2, <2>2 DEF Panicked, ListInv, ListedOnce, OwnKeys, Agree, Entry, Listed
  <2>3. ASSUME NEW p \in Paths, BuildBegin(p) \/ BuildEnd(p)
        PROVE  UNCHANGED <<storage, handles, pc, at>>
    BY <2>3 DEF BuildBegin, BuildEnd, shelf, locals
  <2>4. UNCHANGED vars => UNCHANGED <<storage, handles, pc, at>>
    BY DEF vars, shelf, locals
  <2> QED
    BY <1>2, <2>1, <2>2, <2>3, <2>4, NextIsMove
<1>3. Inv => HandlesAgree
  <2> SUFFICES ASSUME ListInv PROVE HandlesAgree
    BY DEF HandlesAgree
  <2> DEFINE calls(h) == {pc[t] : t \in {u \in Threads : at[u] = h}}
  <2>1. ASSUME NEW h \in Handles
        PROVE  /\ storage[h] # None => Listed(h) \/ "push" \in calls(h)
               /\ Listed(h) => storage[h] # None \/ calls(h) \cap {"unload", "retire"} # {}
    <3>1. \A t \in Threads : at[t] = h => pc[t] \in calls(h)
      OBVIOUS
    <3> HIDE DEF calls
    <3> QED
      BY <3>1 DEF ListInv, Agree, Leaving
  <2> QED
    BY <2>1 DEF HandlesAgree, ListInv, ListedOnce
<1> QED
  BY <1>1, <1>2, <1>3, InitShape, ShapeKept, PTL DEF Spec

=============================================================================
