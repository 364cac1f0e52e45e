-------------------------- MODULE PluginsRegistry --------------------------
(***************************************************************************)
(* The plugins registry of bubble_core (bubble_core/src/api/plugin_api.rs) *)
(* with what it asks of the api registry: dependency contexts, and the     *)
(* api that a plugin registers in its load_plugin and removes in its       *)
(* unload_plugin, as tests/hot_reload_plugin does.                         *)
(*                                                                         *)
(* A plugin is a loaded library.  It is named by the id of its dependency  *)
(* context; ids and handles come from sharded slabs, whose keys carry a    *)
(* generation, so a name is used again only when nothing refers to it.     *)
(* Builds write the library files at any time.  Modification times are     *)
(* only compared: a plugin is stamped while the time it recorded is the    *)
(* one of its file, and current while its code is what the file holds.     *)
(***************************************************************************)
EXTENDS Naturals, Sequences, FiniteSets

CONSTANTS
  Clients,   (* the threads that load, unload and reload plugins         *)
  Tickers,   (* the threads that check for new builds                     *)
  Paths,     (* the library files                                        *)
  Built,     (* the files that are built while the program runs          *)
  Loads,     (* what clients load: files, as hot reloadable or not       *)
  Plugins,   (* loaded libraries, by the ids of their dependency contexts *)
  Handles,   (* slab keys                                                *)
  Rounds,    (* bound: current_index counts modulo this                  *)
  SameSecond,(* whether a new file may have the old one's time, or must  *)
  None

Threads == Clients \cup Tickers

ASSUME PluginsAssumption == None \notin Threads \cup Paths \cup Plugins \cup Handles

ASSUME LoadsAssumption == Loads \subseteq Paths \X BOOLEAN /\ Built \subseteq Paths

ASSUME SameSecondAssumption == SameSecond \in (SUBSET BOOLEAN) \ {{}}

ASSUME RoundsAssumption ==
  /\ Rounds \in Nat \ {0}
  /\ IsFiniteSet(Handles)
  /\ \A n \in 1 .. Cardinality(Handles) : Rounds % n = 0

VARIABLES
  disk,      (* disk[p]: whole, partial (being written) or absent          *)
  plugin,    (* plugin[d]: the fields of plugin d                          *)
  storage,   (* plugins_storage: the plugin of a handle                    *)
  broken,    (* the handles whose plugin's mutex is poisoned               *)
  handles,   (* plugins_handles                                            *)
  listBroken,(* the mutex of plugins_handles is poisoned                   *)
  unloaded,  (* unloaded_plugins                                           *)
  unticked,  (* the storage has changed since version_tick last did        *)
  current_index,      (* CURRENT_INDEX, modulo every length of handles     *)
  live,      (* the dependency contexts of the api registry                *)
  api,       (* api[p]: the plugin whose api is registered for library p   *)
  registryBroken,     (* the lock of the api registry is poisoned          *)
  pc,        (* pc[t]: the next step of the call of thread t               *)
  at,        (* at[t]: the handle t's unload or reload is about            *)
  hand,      (* hand[t]: the plugin t has outside of the storage           *)
  copied,    (* copied[t]: the library t has copied and opened             *)
  scan       (* scan[t]: the place t's tick has reached in handles, or 0   *)

registry == <<live, api, registryBroken>>
shelf == <<storage, broken, handles, listBroken, unloaded, unticked>>
locals == <<pc, at, hand, copied, scan>>
vars == <<disk, plugin, shelf, current_index, registry, locals>>

Fields == [lib : Paths, path : Paths, hot : BOOLEAN,
           stamped : BOOLEAN, current : BOOLEAN]
Copies == [path : Paths, hot : BOOLEAN, current : BOOLEAN]

ASSUME FieldsAssumption == None \notin Fields \cup Copies

Init ==
  /\ disk = [p \in Paths |-> "whole"]
  /\ plugin = [d \in Plugins |-> None]
  /\ storage = [h \in Handles |-> None]
  /\ broken = {}
  /\ handles = <<>>
  /\ listBroken = FALSE
  /\ unloaded = {}
  /\ unticked = FALSE
  /\ current_index = 0
  /\ live = {}
  /\ api = [p \in Paths |-> None]
  /\ registryBroken = FALSE
  /\ pc = [t \in Threads |-> "idle"]
  /\ at = [t \in Threads |-> None]
  /\ hand = [t \in Threads |-> None]
  /\ copied = [t \in Threads |-> None]
  /\ scan = [t \in Threads |-> 0]

-----------------------------------------------------------------------------
(* Locks, names and the environment *)

ReloadSteps == {"copy", "restat", "unplug", "plug"}

\* Mutant: unload keeps the plugin's mutex until the plugin is put away.
LockedToTheEnd(h) ==
  \E t \in Threads : at[t] = h /\ pc[t] \in ReloadSteps \cup {"unload", "retire"}

\* The plugin's mutex is held by a reload, which also has an entry of the
\* slab: take waits for it.
Locked(h) == \E t \in Threads : at[t] = h /\ pc[t] \in ReloadSteps

\* The mutex of the handle list is held through a whole tick.
ListLocked == \E t \in Threads : scan[t] # 0

Stored(d) == \E h \in Handles : storage[h] = d
InHand(d) == \E t \in Threads : hand[t] = d
Registered(d) == \E p \in Paths : api[p] = d

\* The library of d has not been closed.
Mapped(d) == Stored(d) \/ InHand(d) \/ d \in unloaded

Listed(h) == \E i \in DOMAIN handles : handles[i] = h

\* The list without h; no handle is in it twice (HandlesAgree).
Retained(h) ==
  LET n == CHOOSE i \in DOMAIN handles : handles[i] = h IN
  IF Listed(h)
  THEN [i \in 1 .. Len(handles) - 1 |-> IF i < n THEN handles[i] ELSE handles[i + 1]]
  ELSE handles

\* A client has the handle: load has returned it.
Given(h) == Listed(h) /\ storage[h] # None

\* Nothing refers to the name any more, but the list of unloaded plugins.
Unused(d) == ~Stored(d) /\ ~InHand(d) /\ ~Registered(d) /\ d \notin live
FreeKey(h) ==
  storage[h] = None /\ ~Listed(h) /\ \A t \in Threads : at[t] # h

\* Which of the unused names the slab gives does not matter.
FreshPlugin(d) == Unused(d) /\ d = CHOOSE e \in Plugins : Unused(e)
FreshKey(h) == FreeKey(h) /\ h = CHOOSE k \in Handles : FreeKey(k)

\* Bound: no load begins that might not find a free key, or while a plugin
\* has been moved to another path.
Room ==
  /\ \A d \in Plugins : Stored(d) \/ InHand(d) => plugin[d].path = plugin[d].lib
  /\ Cardinality({h \in Handles : ~FreeKey(h)})
       + Cardinality({t \in Threads : pc[t] \in {"stat", "load", "insert"}})
       < Cardinality(Handles)

\* Bound: a plugin is moved while it is the only one.
Alone(h) ==
  /\ \A k \in Handles \ {h} : FreeKey(k)
  /\ \A t \in Threads : hand[t] = None /\ copied[t] = None

\* A new build starts: the file is there in part, with a new modification
\* time unless the clock is in the same second, or it is gone for a moment.
BuildBegin(p) ==
  /\ disk[p] = "whole"
  /\ \E s \in {"partial", "absent"} : disk' = [disk EXCEPT ![p] = s]
  /\ \E same \in SameSecond :
       plugin' = [d \in Plugins |->
         IF plugin[d] = None \/ plugin[d].path # p THEN plugin[d]
         ELSE [plugin[d] EXCEPT !.current = FALSE, !.stamped = @ /\ same]]
  /\ copied' = [t \in Threads |->
       IF copied[t] = None \/ copied[t].path # p THEN copied[t]
       ELSE [copied[t] EXCEPT !.current = FALSE]]
  /\ UNCHANGED <<shelf, current_index, registry, pc, at, hand, scan>>

\* It is complete, again at a new time unless the second is the same.
BuildEnd(p) ==
  /\ disk[p] # "whole"
  /\ disk' = [disk EXCEPT ![p] = "whole"]
  /\ \E same \in SameSecond :
       plugin' = [d \in Plugins |->
         IF plugin[d] = None \/ plugin[d].path # p THEN plugin[d]
         ELSE [plugin[d] EXCEPT !.stamped = @ /\ same]]
  /\ UNCHANGED <<shelf, current_index, registry, locals>>

\* A panic of t: what it holds is dropped, what it has locked is poisoned.
Panic(t) ==
  /\ pc' = [pc EXCEPT ![t] = "panicked"]
  /\ hand' = [hand EXCEPT ![t] = None]
  /\ copied' = [copied EXCEPT ![t] = None]
  /\ broken' = IF pc[t] \in ReloadSteps THEN broken \cup {at[t]} ELSE broken
  /\ listBroken' = (listBroken \/ scan[t] # 0)
  /\ at' = [at EXCEPT ![t] = None]
  /\ scan' = [scan EXCEPT ![t] = 0]

\* The end of a call; a reload that a tick has made goes back to the tick.
Done(t) ==
  /\ pc' = [pc EXCEPT ![t] = IF scan[t] = 0 THEN "idle" ELSE "scan"]
  /\ scan' = [scan EXCEPT ![t] = IF @ = 0 THEN 0 ELSE @ + 1]
  /\ at' = [at EXCEPT ![t] = None]
  /\ hand' = [hand EXCEPT ![t] = None]
  /\ copied' = [copied EXCEPT ![t] = None]

Go(t, step) == pc' = [pc EXCEPT ![t] = step]

-----------------------------------------------------------------------------
(* Plugin::load, the common part of load and reload *)

\* The library is copied and the copy is opened, all of it or nothing.
Open(t, p, hot, next) ==
  /\ disk[p] = "whole"
  /\ copied' = [copied EXCEPT ![t] = [path |-> p, hot |-> hot, current |-> TRUE]]
  /\ Go(t, next)

\* The time of the original is read only now; the new plugin gets a context.
Stat(t, next) ==
  /\ disk[copied[t].path] # "absent"
  /\ \E d \in Plugins :
       /\ FreshPlugin(d)
       /\ plugin' = [plugin EXCEPT ![d] =
            [lib |-> copied[t].path, path |-> copied[t].path, hot |-> copied[t].hot,
             stamped |-> TRUE, current |-> copied[t].current]]
       /\ hand' = [hand EXCEPT ![t] = d]
       /\ live' = live \cup {d}
       /\ unloaded' = unloaded \ {d}
  /\ copied' = [copied EXCEPT ![t] = None]
  /\ Go(t, next)
  /\ UNCHANGED <<storage, broken, handles, listBroken, unticked, api, registryBroken, at, scan>>

\* Mutant: a refusal leaves the dependency context behind.
RefusesQuietly(d) == UNCHANGED <<live, api, registryBroken>>

\* load_plugin of the new plugin: it refuses, or sets its api with its context.
Refuses(d) ==
  /\ live' = live \ {d}
  /\ UNCHANGED <<api, registryBroken>>

Sets(d) ==
  /\ ~registryBroken
  /\ api' = [api EXCEPT ![plugin[d].lib] = d]
  /\ UNCHANGED <<live, registryBroken>>

\* The call into the registry panics when its lock is poisoned.
LockRegistry(t) ==
  /\ registryBroken
  /\ Panic(t)
  /\ UNCHANGED <<storage, handles, unloaded, unticked, registry>>

\* And so does locking the list of handles.
LockList(t) ==
  /\ listBroken
  /\ Panic(t)
  /\ UNCHANGED <<storage, handles, unloaded, registry>>

-----------------------------------------------------------------------------
(* load *)

\* Without a whole library the call returns none; only the tick has changed.
LoadFails(t, p) ==
  /\ pc[t] = "idle"
  /\ disk[p] # "whole"
  /\ unticked' = FALSE
  /\ UNCHANGED <<disk, plugin, storage, broken, handles, listBroken, unloaded,
                 current_index, registry, locals>>

Load(t, p, hot) ==
  /\ pc[t] = "idle"
  /\ Room
  /\ unticked' = FALSE
  /\ Open(t, p, hot, "stat")
  /\ UNCHANGED <<disk, plugin, storage, broken, handles, listBroken, unloaded,
                 current_index, registry, at, hand, scan>>

LoadStat(t) ==
  /\ pc[t] = "stat"
  /\ \/ Stat(t, "load")
     \/ /\ disk[copied[t].path] = "absent"
        /\ Done(t)
        /\ UNCHANGED <<plugin, shelf, registry>>
  /\ UNCHANGED <<disk, current_index>>

LoadPlugin(t) ==
  /\ pc[t] = "load"
  /\ \/ /\ Refuses(hand[t])
        /\ Done(t)
        /\ UNCHANGED shelf
     \/ /\ Sets(hand[t])
        /\ Go(t, "insert")
        /\ UNCHANGED <<shelf, at, hand, copied, scan>>
     \/ LockRegistry(t)
  /\ UNCHANGED <<disk, plugin, current_index>>

Insert(t) ==
  /\ pc[t] = "insert"
  /\ \E h \in Handles :
       /\ FreshKey(h)
       /\ storage' = [storage EXCEPT ![h] = hand[t]]
       /\ at' = [at EXCEPT ![t] = h]
  /\ hand' = [hand EXCEPT ![t] = None]
  /\ unticked' = TRUE
  /\ Go(t, "push")
  /\ UNCHANGED <<disk, plugin, broken, handles, listBroken, unloaded,
                 current_index, registry, copied, scan>>

Push(t) ==
  /\ pc[t] = "push"
  /\ ~ListLocked
  /\ unticked' = FALSE
  /\ \/ /\ ~listBroken
        /\ handles' = Append(handles, at[t])
        /\ Done(t)
        /\ UNCHANGED <<broken, listBroken>>
     \/ LockList(t)
  /\ UNCHANGED <<disk, plugin, storage, unloaded, current_index, registry>>

-----------------------------------------------------------------------------
(* unload *)

\* take empties the slab's entry; the plugin of a poisoned mutex is dropped.
Take(t, h) ==
  /\ pc[t] = "idle"
  /\ Given(h)
  /\ ~Locked(h)
  /\ storage' = [storage EXCEPT ![h] = None]
  /\ unticked' = TRUE
  /\ broken' = broken \ {h}
  /\ \/ /\ h \in broken
        /\ pc' = [pc EXCEPT ![t] = "panicked"]
        /\ UNCHANGED <<at, hand>>
     \/ /\ h \notin broken
        /\ hand' = [hand EXCEPT ![t] = storage[h]]
        /\ at' = [at EXCEPT ![t] = h]
        /\ Go(t, "unload")
  /\ UNCHANGED <<disk, plugin, handles, listBroken, unloaded, current_index,
                 registry, copied, scan>>

\* unload_plugin removes the api, and records that with the plugin's context
\* under the lock of the registry; then the context is removed.
UnloadPlugin(t) ==
  /\ pc[t] = "unload"
  /\ \/ /\ ~registryBroken
        /\ api' = [api EXCEPT ![plugin[hand[t]].lib] = None]
        /\ \/ /\ hand[t] \in live
              /\ live' = live \ {hand[t]}
              /\ Go(t, "retire")
              /\ UNCHANGED <<shelf, registryBroken, at, hand, copied, scan>>
           \/ /\ hand[t] \notin live
              /\ registryBroken' = TRUE
              /\ Panic(t)
              /\ UNCHANGED <<storage, handles, unloaded, unticked, live>>
     \/ LockRegistry(t)
  /\ UNCHANGED <<disk, plugin, current_index>>

\* Mutant: the plugin is put away as what its slot holds, after take.
RetireSlot(t) ==
  /\ pc[t] = "retire"
  /\ ~ListLocked /\ ~listBroken
  /\ handles' = Retained(at[t])
  /\ unloaded' = unloaded \cup {storage[at[t]]}
  /\ unticked' = FALSE
  /\ Done(t)
  /\ UNCHANGED <<broken, listBroken, disk, plugin, storage, current_index, registry>>

\* Mutant: the handle stays in the list.
RetireListed(t) ==
  /\ pc[t] = "retire"
  /\ ~ListLocked /\ ~listBroken
  /\ unloaded' = unloaded \cup {hand[t]}
  /\ unticked' = FALSE
  /\ Done(t)
  /\ UNCHANGED <<handles, broken, listBroken, disk, plugin, storage, current_index, registry>>

\* Mutant: the version tick is left as it is.
RetireSilently(t) ==
  /\ pc[t] = "retire"
  /\ ~ListLocked /\ ~listBroken
  /\ handles' = Retained(at[t])
  /\ unloaded' = unloaded \cup {hand[t]}
  /\ Done(t)
  /\ UNCHANGED <<unticked, broken, listBroken, disk, plugin, storage, current_index, registry>>


Retire(t) ==
  /\ pc[t] = "retire"
  /\ ~ListLocked
  /\ \/ /\ ~listBroken
        /\ handles' = Retained(at[t])
        /\ unloaded' = unloaded \cup {hand[t]}
        /\ unticked' = FALSE
        /\ Done(t)
        /\ UNCHANGED <<broken, listBroken>>
     \/ LockList(t) /\ UNCHANGED unticked
  /\ UNCHANGED <<disk, plugin, storage, current_index, registry>>

-----------------------------------------------------------------------------
(* reload *)

\* The plugin's mutex, and the check that its file is there.
Reload(t, h) ==
  /\ storage[h] # None
  /\ ~Locked(h)
  /\ \/ /\ h \in broken
        /\ Panic(t)
        /\ UNCHANGED <<storage, handles, unloaded, unticked>>
     \/ /\ h \notin broken
        /\ disk[plugin[storage[h]].path] = "absent"
        /\ unticked' = FALSE
        /\ Done(t)
        /\ UNCHANGED <<storage, broken, handles, listBroken, unloaded>>
     \/ /\ h \notin broken
        /\ disk[plugin[storage[h]].path] # "absent"
        /\ at' = [at EXCEPT ![t] = h]
        /\ Go(t, "copy")
        /\ UNCHANGED <<shelf, hand, copied, scan>>
  /\ UNCHANGED <<disk, plugin, current_index, registry>>

\* A client reloads what was loaded as hot reloadable.
ReloadCall(t, h) ==
  /\ pc[t] = "idle"
  /\ Given(h) /\ plugin[storage[h]].hot
  /\ Reload(t, h)

ReloadCopy(t) ==
  LET old == plugin[storage[at[t]]] IN
  /\ pc[t] = "copy"
  /\ \/ /\ Open(t, old.path, old.hot, "restat")
        /\ UNCHANGED <<shelf, at, hand, scan>>
     \/ /\ disk[old.path] # "whole"
        /\ Panic(t)
        /\ UNCHANGED <<storage, handles, unloaded, unticked>>
  /\ UNCHANGED <<disk, plugin, current_index, registry>>

ReloadStat(t) ==
  /\ pc[t] = "restat"
  /\ \/ Stat(t, "unplug")
     \/ /\ disk[copied[t].path] = "absent"
        /\ Panic(t)
        /\ UNCHANGED <<plugin, storage, handles, unloaded, unticked, registry>>
  /\ UNCHANGED <<disk, current_index>>

\* unload_plugin leaves the api for the new library to replace.
ReloadUnload(t) ==
  /\ pc[t] = "unplug"
  /\ live' = live \ {storage[at[t]]}
  /\ Go(t, "plug")
  /\ UNCHANGED <<disk, plugin, shelf, current_index, api, registryBroken,
                 at, hand, copied, scan>>

\* Mutant: the old plugin is dropped instead of kept.
SwapAndDrop(t) ==
  /\ storage' = [storage EXCEPT ![at[t]] = hand[t]]
  /\ unticked' = FALSE
  /\ Done(t)
  /\ UNCHANGED <<unloaded, broken, handles, listBroken>>

\* The new plugin takes the old one's place, whatever its load_plugin said.
Swap(t) ==
  /\ storage' = [storage EXCEPT ![at[t]] = hand[t]]
  /\ unloaded' = unloaded \cup {storage[at[t]]}
  /\ unticked' = FALSE
  /\ Done(t)
  /\ UNCHANGED <<broken, handles, listBroken>>

ReloadLoad(t) ==
  /\ pc[t] = "plug"
  /\ \/ /\ Refuses(hand[t])
        /\ Swap(t)
     \/ /\ Sets(hand[t])
        /\ Swap(t)
     \/ LockRegistry(t)
  /\ UNCHANGED <<disk, plugin, current_index>>

-----------------------------------------------------------------------------
(* set_path and check_hot_reload_tick *)

\* Whether the new file happens to have the modification time of the old one.
SetPath(t, h, p) ==
  /\ pc[t] = "idle"
  /\ Given(h)
  /\ ~Locked(h)
  /\ h \notin broken
  /\ \/ /\ p = plugin[storage[h]].path
        /\ UNCHANGED plugin
     \/ /\ p # plugin[storage[h]].path
        /\ Alone(h)
        /\ \E same \in SameSecond :
             plugin' = [plugin EXCEPT ![storage[h]].path = p,
                                      ![storage[h]].stamped = same,
                                      ![storage[h]].current = FALSE]
  /\ unticked' = FALSE
  /\ UNCHANGED <<disk, storage, broken, handles, listBroken, unloaded,
                 current_index, registry, locals>>

\* The file is there with another modification time than the recorded one.
Modified(h) ==
  /\ storage[h] # None
  /\ LET p == plugin[storage[h]] IN
       p.hot /\ disk[p.path] # "absent" /\ ~p.stamped

\* Mutant: every tick asks the first plugin only.
PlaceFirst == 1


Place == 1 + (current_index % Len(handles))

\* The list is locked for the whole tick, and one place of it is chosen.
Tick(t) ==
  /\ pc[t] = "idle"
  /\ ~ListLocked
  /\ \/ /\ LockList(t)
        /\ UNCHANGED <<unticked, current_index>>
     \/ /\ ~listBroken
        /\ handles # <<>>
        /\ Go(t, "peek")
        /\ scan' = [scan EXCEPT ![t] = Place]
        /\ current_index' = (current_index + 1) % Rounds
        /\ UNCHANGED <<shelf, registry, at, hand, copied>>
  /\ UNCHANGED <<disk, plugin>>

\* The plugin at the chosen place tells whether all are to be looked at.
Peek(t) ==
  LET h == handles[scan[t]] IN
  /\ pc[t] = "peek"
  /\ ~Locked(h)
  /\ \/ /\ h \in broken
        /\ Panic(t)
        /\ UNCHANGED <<storage, handles, unloaded, unticked>>
     \/ /\ h \notin broken
        /\ Modified(h)
        /\ Go(t, "scan")
        /\ scan' = [scan EXCEPT ![t] = 1]
        /\ UNCHANGED <<shelf, at, hand, copied>>
     \/ /\ h \notin broken
        /\ ~Modified(h)
        /\ Go(t, "idle")
        /\ scan' = [scan EXCEPT ![t] = 0]
        /\ UNCHANGED <<shelf, at, hand, copied>>
  /\ UNCHANGED <<disk, plugin, current_index, registry>>

\* One plugin after the other is looked at, under its mutex.
Scan(t) ==
  LET h == handles[scan[t]] IN
  /\ pc[t] = "scan"
  /\ scan[t] <= Len(handles)
  /\ ~Locked(h)
  /\ \/ /\ h \in broken
        /\ Panic(t)
        /\ UNCHANGED <<storage, handles, unloaded, unticked>>
     \/ /\ h \notin broken
        /\ Modified(h)
        /\ Go(t, "again")
        /\ UNCHANGED <<shelf, at, hand, copied, scan>>
     \/ /\ h \notin broken
        /\ ~Modified(h)
        /\ scan' = [scan EXCEPT ![t] = @ + 1]
        /\ UNCHANGED <<shelf, pc, at, hand, copied>>
  /\ UNCHANGED <<disk, plugin, current_index, registry>>

\* The mutex was given up before reload takes it: by now the plugin may be
\* gone, or somebody else's reload may have been faster.
TickReload(t) ==
  LET h == handles[scan[t]] IN
  /\ pc[t] = "again"
  /\ \/ Reload(t, h)
     \/ /\ storage[h] = None
        /\ Done(t)
        /\ UNCHANGED <<disk, plugin, shelf, current_index, registry>>

TickEnd(t) ==
  /\ pc[t] = "scan"
  /\ scan[t] > Len(handles)
  /\ Go(t, "idle")
  /\ scan' = [scan EXCEPT ![t] = 0]
  /\ UNCHANGED <<disk, plugin, shelf, current_index, registry, at, hand, copied>>

-----------------------------------------------------------------------------
(* Specification *)

Call(t) ==
  \/ \E l \in Loads : LoadFails(t, l[1]) \/ Load(t, l[1], l[2])
  \/ \E h \in Handles : \/ Take(t, h)
                        \/ ReloadCall(t, h)
                        \/ \E p \in Paths : SetPath(t, h, p)

Step(t) ==
  \/ LoadStat(t) \/ LoadPlugin(t) \/ Insert(t) \/ Push(t)
  \/ UnloadPlugin(t) \/ Retire(t)
  \/ ReloadCopy(t) \/ ReloadStat(t) \/ ReloadUnload(t) \/ ReloadLoad(t)
  \/ Peek(t) \/ Scan(t) \/ TickReload(t) \/ TickEnd(t)

Next ==
  \/ \E t \in Clients : Call(t)
  \/ \E t \in Tickers : Tick(t)
  \/ \E t \in Threads : Step(t)
  \/ \E p \in Built : BuildBegin(p) \/ BuildEnd(p)

\* A thread inside a call goes on while it can, the tick thread keeps ticking,
\* and a mutex that is free again and again lets a waiting thread in at last.
\* Nobody has to load, unload, reload or build anything.
Fairness ==
  /\ \A t \in Threads : WF_vars(Step(t)) /\ SF_vars(Push(t) \/ Retire(t))
  /\ \A t \in Tickers :
       /\ WF_vars(Tick(t))
       /\ SF_vars(Peek(t) \/ Scan(t) \/ TickReload(t))

Spec == Init /\ [][Next]_vars /\ Fairness

-----------------------------------------------------------------------------
(* Properties *)

\* The range of every variable.
TypeOK ==
  /\ disk \in [Paths -> {"whole", "partial", "absent"}]
  /\ plugin \in [Plugins -> Fields \cup {None}]
  /\ storage \in [Handles -> Plugins \cup {None}]
  /\ broken \subseteq Handles
  /\ handles \in Seq(Handles)
  /\ listBroken \in BOOLEAN
  /\ unloaded \subseteq Plugins
  /\ unticked \in BOOLEAN
  /\ current_index \in 0 .. Rounds - 1
  /\ live \subseteq Plugins
  /\ api \in [Paths -> Plugins \cup {None}]
  /\ registryBroken \in BOOLEAN
  /\ pc \in [Threads -> {"idle", "panicked", "stat", "load", "insert", "push",
                         "unload", "retire", "peek", "scan", "again"} \cup ReloadSteps]
  /\ at \in [Threads -> Handles \cup {None}]
  /\ hand \in [Threads -> Plugins \cup {None}]
  /\ copied \in [Threads -> Copies \cup {None}]
  /\ scan \in [Threads -> Nat]
Panicked == \E t \in Threads : pc[t] = "panicked"

\* Contexts neither leak nor die early: every live context is that of a plugin
\* that is stored or in the hands of a call, unless a call has panicked; and a
\* stored plugin whose api is registered has its context, unless a reload has
\* taken it away and has not finished.
ContextsMatch ==
  /\ \A d \in live : Stored(d) \/ InHand(d) \/ Panicked
  /\ \A h \in Handles :
       storage[h] # None /\ Registered(storage[h]) =>
         storage[h] \in live \/ Locked(h) \/ h \in broken

\* While no call has panicked the handle list and the slab agree, but for the
\* plugins that a call is loading or unloading; no handle is listed twice.
HandlesAgree ==
  Panicked \/
    /\ \A h \in Handles :
         LET calls == {pc[t] : t \in {u \in Threads : at[u] = h}} IN
         /\ storage[h] # None => Listed(h) \/ "push" \in calls
         /\ Listed(h) => storage[h] # None \/ calls \cap {"unload", "retire"} # {}
    /\ \A i, j \in DOMAIN handles : handles[i] = handles[j] => i = j

\* Whoever compares version ticks misses nothing for long: a change that no
\* new tick has followed is one of a call that is still under way.
TickFollows ==
  unticked => Panicked \/ \E t \in Threads : pc[t] \in {"push", "unload", "retire"}

\* While no call has panicked, no api is left in the registry whose library
\* has been closed: not by a refused load or reload, not by any two calls.
KeptWhileSound ==
  Panicked \/ \A p \in Paths : api[p] = None \/ Mapped(api[p])

\* No deadlock: of the threads that are in calls one can always go on, however
\* they wait for the list, for plugins and for entries of the slab.
SomeoneGoesOn ==
  LET busy == {t \in Threads : pc[t] \notin {"idle", "panicked"}}
      waits == {t \in busy :
        \/ pc[t] \in {"push", "retire"} /\ ListLocked
        \/ pc[t] \in {"peek", "scan", "again"}
             /\ scan[t] \in DOMAIN handles /\ Locked(handles[scan[t]])}
  IN busy # {} => waits # busy

\* A build with a new modification time is loaded in the end, wherever the
\* index of the tick is and whatever is loaded and unloaded meanwhile, unless
\* a panic has ended the tick thread or the library is being built again.
Building == \E p \in Paths : disk[p] # "whole"
BuildsAreLoaded ==
  \A h \in Handles :
    Modified(h) ~> \/ ~Modified(h) \/ Building
                    \/ \E t \in Tickers : pc[t] = "panicked"

-----------------------------------------------------------------------------
(* What the comments of the source claim *)

\* The tick "Checks loaded plugins for any changes on disk": a plugin that is
\* not what its complete file holds is one that a tick finds modified.
ChangesAreSeen ==
  \A h \in Handles :
    storage[h] # None /\ disk[plugin[storage[h]].path] = "whole" /\ ~Locked(h)
      /\ plugin[storage[h]].hot /\ ~plugin[storage[h]].current
      => Modified(h)
=============================================================================
