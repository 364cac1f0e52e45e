---------------------------- MODULE BufferStorage ----------------------------
(***************************************************************************)
(* The buffer storage of bubble_basin (bubble_basin/src/buffer/mod.rs): a  *)
(* slab of buffer objects whose data slot is null or points to a loaded    *)
(* buffer, and a bounded cache of the disk-backed buffers that are loaded. *)
(*                                                                         *)
(* A call is one execution of an operation: a blocking call runs on its    *)
(* thread from start to return, a spawned task leaves its thread at every  *)
(* await.  Each action is one access to shared state: the slab, a data     *)
(* slot, a meta slot, or the cache, whose operations and evictions are     *)
(* atomic because they run under the lock of a cache shard.                *)
(***************************************************************************)
EXTENDS Naturals, FiniteSets

CONSTANTS
  Buffers,   (* buffer ids; an id holds its generation and is never reused *)
  Calls,     (* slots for operations that run at the same time             *)
  Threads,   (* threads, each with a runtime for the tasks spawned on it   *)
  Home,      (* Home[c]: the thread of call c                              *)
  Capacity,  (* entries the cache keeps before it evicts                   *)
  Ops,       (* the operations clients use                                 *)
  None

AllOps == {"get", "get_async", "load", "persist", "persist_async", "remove"}

ASSUME BufferStorageAssumption ==
  /\ Home \in [Calls -> Threads]
  /\ Capacity \in Nat
  /\ Ops \subseteq AllOps
  /\ None \notin Calls

VARIABLES
  slab,      (* slab[b]: not added yet, present, or removed                *)
  meta,      (* meta[b]: where the content of b is                         *)
  loaded,    (* the buffers whose data slot is not null                    *)
  resident,  (* the buffers whose cache entry is a value                   *)
  holder,    (* holder[b]: the call whose placeholder is b's cache entry   *)
  pc,        (* pc[c]: what call c does next                               *)
  op,        (* op[c]: the operation of call c                             *)
  arg,       (* arg[c]: the buffer of call c                               *)
  waitOn,    (* waitOn[c]: the call whose placeholder c waits for          *)
  ret        (* ret[c]: what c's last operation, or its inner get, returned *)

store == <<slab, meta, loaded>>
entries == <<resident, holder>>
call == <<op, arg>>
vars == <<slab, meta, loaded, resident, holder, pc, op, arg, waitOn, ret>>

PersistOps == {"persist", "persist_async"}

Init ==
  /\ slab = [b \in Buffers |-> "unadded"]
  /\ meta = [b \in Buffers |-> "Memory"]
  /\ loaded = {}
  /\ resident = {}
  /\ holder = [b \in Buffers |-> None]
  /\ pc = [c \in Calls |-> "idle"]
  /\ op = [c \in Calls |-> "none"]
  /\ arg \in [Calls -> Buffers]
  /\ \A c, d \in Calls : arg[c] = arg[d]
  /\ waitOn = [c \in Calls |-> None]
  /\ ret = [c \in Calls |-> "none"]

-----------------------------------------------------------------------------
(* Scheduling: a thread runs one call at a time. *)

\* A task is off its thread before its first poll and at its awaits; a
\* blocking call never is, not even while it waits for a placeholder.
Suspended(c) ==
  \/ pc[c] \in {"idle", "panicked", "loadRead"}
  \/ op[c] = "get_async" /\ pc[c] \in {"request", "wait", "read"}
  \/ op[c] = "persist_async" /\ pc[c] \in {"claim", "claimWait", "write"}

CanRun(c) == \A d \in Calls \ {c} : Home[d] = Home[c] => Suspended(d)

Present(b) == slab[b] = "present"

-----------------------------------------------------------------------------
(* The cache: quick_cache's placeholder protocol and its evictions. *)

Waiters(c) == {w \in Calls : waitOn[w] = c}

\* Where the caller of the inner get goes once it has a buffer.
AfterGet(c) ==
  IF op[c] = "persist" THEN "write"
  ELSE IF op[c] = "persist_async" THEN "claim" ELSE "idle"

\* What a persisting call does with the placeholder it has obtained.
AfterClaim(c) == IF op[c] = "persist" THEN "lookup" ELSE "write"

\* Mutant: a plain lookup that neither claims a missing entry nor waits for one.
AcquireUnclaimed(c, found, claimed, blocked) ==
  LET b == arg[c] IN
  /\ pc' = [pc EXCEPT ![c] = IF b \in resident THEN found ELSE claimed]
  /\ ret' = [ret EXCEPT ![c] = IF b \in resident THEN "value" ELSE @]
  /\ UNCHANGED <<entries, waitOn>>

\* Mutant: a placeholder is claimed, but another call's is not waited for.
AcquireUnblocked(c, found, claimed, blocked) ==
  LET b == arg[c] IN
  /\ holder' = [holder EXCEPT ![b] = IF b \notin resident /\ @ = None THEN c ELSE @]
  /\ pc' = [pc EXCEPT ![c] = IF b \in resident THEN found ELSE claimed]
  /\ ret' = [ret EXCEPT ![c] = IF b \in resident THEN "value" ELSE @]
  /\ UNCHANGED <<resident, waitOn>>

\* get_value_or_guard found a value, no entry, or another placeholder.
Acquire(c, found, claimed, blocked) ==
  LET b == arg[c] IN
  \/ /\ b \in resident
     /\ pc' = [pc EXCEPT ![c] = found]
     /\ ret' = [ret EXCEPT ![c] = "value"]
     /\ UNCHANGED <<entries, waitOn>>
  \/ /\ b \notin resident
     /\ holder[b] = None
     /\ holder' = [holder EXCEPT ![b] = c]
     /\ pc' = [pc EXCEPT ![c] = claimed]
     /\ UNCHANGED <<resident, waitOn, ret>>
  \/ /\ b \notin resident
     /\ holder[b] # None
     /\ waitOn' = [waitOn EXCEPT ![c] = holder[b]]
     /\ pc' = [pc EXCEPT ![c] = blocked]
     /\ UNCHANGED <<entries, ret>>

\* A guard dropped without a value passes to one of the waiters, if any, and
\* otherwise takes the placeholder out of the cache.
DropGuard(c, next) ==
  LET b == arg[c] IN
  /\ UNCHANGED resident
  /\ \/ /\ Waiters(c) = {}
        /\ holder' = [holder EXCEPT ![b] = IF @ = c THEN None ELSE @]
        /\ pc' = [pc EXCEPT ![c] = next]
        /\ UNCHANGED waitOn
     \/ \E w \in Waiters(c) :
          /\ holder' = [holder EXCEPT ![b] = IF @ = c THEN w ELSE @]
          /\ pc' = [pc EXCEPT ![c] = next,
                              ![w] = IF pc[w] = "wait" THEN "read" ELSE AfterClaim(w)]
          /\ waitOn' = [x \in Calls |-> IF x = w THEN None
                                        ELSE IF waitOn[x] = c THEN w ELSE waitOn[x]]

\* The entries an insertion of b may evict: the cache is over its weight by
\* at most the entry just inserted.
Victims(b) ==
  IF Cardinality(resident \cup {b}) <= Capacity
  THEN {{}}
  ELSE {{v} : v \in resident \cup {b}}

\* on_evict swaps the data slot of an evicted buffer to null, and panics in
\* the inserting call when the buffer is no longer in the slab.
OnEvict(V) == loaded' = loaded \ {v \in V : Present(v)}

EvictPanics(V) == \E v \in V : ~Present(v)

\* A value becomes b's cache entry, whatever the entry was, and V goes.
Insert(b, V) ==
  /\ resident' = (resident \cup {b}) \ V
  /\ holder' = [holder EXCEPT ![b] = None]
  /\ OnEvict(V)

\* Where a waiter goes once it is given the value.
AfterWait(c) == IF pc[c] = "wait" THEN AfterGet(c) ELSE "idle"

\* The waiters of c have the value; c goes on at pc next.
Wake(c, next) ==
  LET W == Waiters(c) \ {c} IN
  /\ pc' = [x \in Calls |->
             IF x \in W THEN AfterWait(x) ELSE IF x = c THEN next ELSE pc[x]]
  /\ waitOn' = [x \in Calls |-> IF x \in W THEN None ELSE waitOn[x]]
  /\ ret' = [x \in Calls |-> IF x \in W \cup {c} THEN "value" ELSE ret[x]]

\* guard.insert(..).unwrap(): the waiters get the value first; the insertion
\* fails when the placeholder is no longer the entry.
GuardInsert(c, next) ==
  LET b == arg[c] IN
  \/ /\ holder[b] = c
     /\ \E V \in Victims(b) :
          /\ Insert(b, V)
          /\ Wake(c, IF EvictPanics(V) THEN "panicked" ELSE next)
  \/ /\ holder[b] # c
     /\ Wake(c, "panicked")
     /\ UNCHANGED <<entries, loaded>>

-----------------------------------------------------------------------------
(* add and remove *)

Add(b, m) ==
  /\ slab[b] = "unadded"
  /\ slab' = [slab EXCEPT ![b] = "present"]
  /\ meta' = [meta EXCEPT ![b] = m]
  /\ loaded' = IF m = "Memory" THEN loaded \cup {b} ELSE loaded
  /\ UNCHANGED <<entries, pc, call, waitOn, ret>>

\* Mutant: the slot is free again for an id of the same generation.
RemoveAndReuse(b) ==
  /\ "remove" \in Ops
  /\ Present(b)
  /\ slab' = [slab EXCEPT ![b] = "free"]
  /\ UNCHANGED <<meta, loaded, entries, pc, call, waitOn, ret>>

Remove(b) ==
  /\ "remove" \in Ops
  /\ Present(b)
  /\ slab' = [slab EXCEPT ![b] = "removed"]
  /\ UNCHANGED <<meta, loaded, entries, pc, call, waitOn, ret>>

-----------------------------------------------------------------------------
(* get, get_snapshot and get_async *)

Begin(c, o, b, first, r) ==
  /\ o \in Ops
  /\ pc[c] = "idle"
  /\ CanRun(c)
  /\ slab[b] # "unadded"
  /\ op' = [op EXCEPT ![c] = o]
  /\ arg' = [arg EXCEPT ![c] = b]
  /\ pc' = [pc EXCEPT ![c] = first]
  /\ ret' = [ret EXCEPT ![c] = r]
  /\ UNCHANGED <<store, entries, waitOn>>

AfterLookup(b) == IF meta[b] = "Memory" THEN "memory" ELSE "request"

StartGet(c, b) ==
  IF Present(b)
  THEN Begin(c, "get", b, AfterLookup(b), "none")
  ELSE Begin(c, "get", b, "idle", "none")

\* get_async looks into the cache before it spawns its task.
StartGetAsync(c, b) ==
  IF Present(b) /\ ~(meta[b] = "LocalStorage" /\ b \in resident)
  THEN Begin(c, "get_async", b, AfterLookup(b), "none")
  ELSE Begin(c, "get_async", b, "idle", IF Present(b) THEN "value" ELSE "none")

\* The get inside to_local_storage, whose result is unwrapped.
Lookup(c) ==
  /\ pc[c] = "lookup"
  /\ CanRun(c)
  /\ \/ /\ Present(arg[c])
        /\ pc' = [pc EXCEPT ![c] = AfterLookup(arg[c])]
        /\ UNCHANGED <<entries, waitOn>>
     \/ /\ ~Present(arg[c])
        /\ DropGuard(c, "panicked")
  /\ UNCHANGED <<store, call, ret>>

\* A memory buffer must have data: get asserts it, get_async does not.
ReadMemory(c) ==
  /\ pc[c] = "memory"
  /\ CanRun(c)
  /\ \/ /\ arg[c] \in loaded
        /\ pc' = [pc EXCEPT ![c] = AfterGet(c)]
        /\ ret' = [ret EXCEPT ![c] = "value"]
        /\ UNCHANGED <<entries, waitOn>>
     \/ /\ arg[c] \notin loaded
        /\ op[c] = "get_async"
        /\ pc' = [pc EXCEPT ![c] = "idle"]
        /\ ret' = [ret EXCEPT ![c] = "null"]
        /\ UNCHANGED <<entries, waitOn>>
     \/ /\ arg[c] \notin loaded
        /\ op[c] # "get_async"
        /\ DropGuard(c, "panicked")
        /\ UNCHANGED ret
  /\ UNCHANGED <<store, call>>

Request(c) ==
  /\ pc[c] = "request"
  /\ CanRun(c)
  /\ Acquire(c, AfterGet(c), "read", "wait")
  /\ UNCHANGED <<store, call>>

\* Mutant: the buffer goes to the cache only.
PublishToCacheOnly(c) ==
  /\ pc[c] = "read"
  /\ CanRun(c)
  /\ op[c] = "get_async" => Present(arg[c])
  /\ pc' = [pc EXCEPT ![c] = "insert"]
  /\ UNCHANGED <<store, entries, call, waitOn, ret>>

\* The file has been read; a compare-and-swap from null publishes the buffer.
\* The task of get_async looks the object up again first.
Publish(c) ==
  /\ pc[c] = "read"
  /\ CanRun(c)
  /\ op[c] = "get_async" => Present(arg[c])
  /\ pc' = [pc EXCEPT ![c] = IF arg[c] \in loaded THEN "lost" ELSE "insert"]
  /\ loaded' = loaded \cup {arg[c]}
  /\ UNCHANGED <<slab, meta, entries, call, waitOn, ret>>

\* The task of get_async finds the buffer removed and answers None.
PublishRemoved(c) ==
  /\ pc[c] = "read"
  /\ CanRun(c)
  /\ op[c] = "get_async"
  /\ ~Present(arg[c])
  /\ DropGuard(c, "idle")
  /\ UNCHANGED <<store, call, ret>>

\* The task of get_async answers before it inserts, and the answer panics
\* when the caller has dropped the receiver: the guard goes with the task.
PublishUnheard(c) ==
  /\ pc[c] \in {"insert", "lost"}
  /\ CanRun(c)
  /\ op[c] = "get_async"
  /\ DropGuard(c, "panicked")
  /\ UNCHANGED <<store, call, ret>>

\* Mutant: the failed call keeps its placeholder in the cache.
ReadFailsWithGuard(c) ==
  /\ pc[c] = "read"
  /\ CanRun(c)
  /\ pc' = [pc EXCEPT ![c] = "panicked"]
  /\ UNCHANGED <<store, entries, call, waitOn, ret>>

\* Opening or reading the file fails, and is unwrapped.
ReadFails(c) ==
  /\ pc[c] = "read"
  /\ CanRun(c)
  /\ DropGuard(c, "panicked")
  /\ UNCHANGED <<store, call, ret>>

CacheLoaded(c) ==
  /\ pc[c] = "insert"
  /\ CanRun(c)
  /\ GuardInsert(c, AfterGet(c))
  /\ UNCHANGED <<slab, meta, call>>

\* The slot was not null: the call takes what the slot holds by now, ...
TakeOther(c) ==
  /\ pc[c] = "lost"
  /\ CanRun(c)
  /\ pc' = [pc EXCEPT ![c] = "release"]
  /\ ret' = [ret EXCEPT ![c] = IF arg[c] \in loaded THEN "value" ELSE "null"]
  /\ UNCHANGED <<store, entries, call, waitOn>>

\* ... and drops its guard as it returns.
Release(c) ==
  /\ pc[c] = "release"
  /\ CanRun(c)
  /\ DropGuard(c, AfterGet(c))
  /\ UNCHANGED <<store, call, ret>>

-----------------------------------------------------------------------------
(* load: its task fills the slot and the cache without a placeholder. *)

StartLoad(c, b) ==
  /\ Present(b)
  /\ b \notin loaded
  /\ meta[b] = "LocalStorage"
  /\ Begin(c, "load", b, "loadRead", "none")

\* Mutant: the task ends once the slot is filled.
LoadPublishUncached(c) ==
  LET b == arg[c] IN
  /\ pc[c] = "loadRead"
  /\ CanRun(c)
  /\ loaded' = IF Present(b) THEN loaded \cup {b} ELSE loaded
  /\ pc' = [pc EXCEPT ![c] = "idle"]
  /\ UNCHANGED <<slab, meta, entries, call, waitOn, ret>>

LoadPublish(c) ==
  LET b == arg[c] IN
  /\ pc[c] = "loadRead"
  /\ CanRun(c)
  /\ IF Present(b) /\ b \notin loaded
     THEN /\ loaded' = loaded \cup {b}
          /\ pc' = [pc EXCEPT ![c] = "loadInsert"]
     ELSE /\ pc' = [pc EXCEPT ![c] = "idle"]
          /\ UNCHANGED loaded
  /\ UNCHANGED <<slab, meta, entries, call, waitOn, ret>>

LoadFails(c) ==
  /\ pc[c] = "loadRead"
  /\ CanRun(c)
  /\ pc' = [pc EXCEPT ![c] = "panicked"]
  /\ UNCHANGED <<store, entries, call, waitOn, ret>>

LoadInsert(c) ==
  /\ pc[c] = "loadInsert"
  /\ CanRun(c)
  /\ \E V \in Victims(arg[c]) :
       /\ Insert(arg[c], V)
       /\ pc' = [pc EXCEPT ![c] = IF EvictPanics(V) THEN "panicked" ELSE "idle"]
  /\ UNCHANGED <<slab, meta, call, waitOn, ret>>

-----------------------------------------------------------------------------
(* to_local_storage and to_local_storage_async *)

\* The blocking form claims the placeholder and then gets the buffer; the
\* asynchronous form needs its temporary file at once, gets the buffer and
\* leaves the claim to its task.
StartPersist(c, o, b) ==
  /\ o \in PersistOps
  /\ \/ /\ ~Present(b)
        /\ Begin(c, o, b, "panicked", "none")
     \/ /\ Present(b)
        /\ meta[b] = "LocalStorage" \/ o = "persist_async"
        /\ Begin(c, o, b, "idle", "err")
     \/ /\ Present(b)
        /\ meta[b] = "Memory"
        /\ Begin(c, o, b, IF o = "persist" THEN "claim" ELSE "lookup", "none")

Claim(c) ==
  /\ pc[c] = "claim"
  /\ CanRun(c)
  /\ Acquire(c, "idle", AfterClaim(c), "claimWait")
  /\ UNCHANGED <<store, call>>

\* Mutant: the buffer is handed to the cache with its metadata unchanged.
WriteDoneUnrecorded(c) ==
  /\ pc[c] = "write"
  /\ CanRun(c)
  /\ ret[c] = "value"
  /\ Present(arg[c])
  /\ pc' = [pc EXCEPT ![c] = "commit"]
  /\ UNCHANGED <<store, entries, call, waitOn, ret>>

\* The file is in place: the metadata changes, the cache insertion is next.
WriteDone(c) ==
  /\ pc[c] = "write"
  /\ CanRun(c)
  /\ ret[c] = "value"
  /\ Present(arg[c])
  /\ meta' = [meta EXCEPT ![arg[c]] = "LocalStorage"]
  /\ pc' = [pc EXCEPT ![c] = "commit"]
  /\ UNCHANGED <<slab, loaded, entries, call, waitOn, ret>>

\* Mutant: the error return keeps the placeholder in the cache.
WriteFailsWithGuard(c) ==
  /\ pc[c] = "write"
  /\ CanRun(c)
  /\ ret[c] = "value"
  /\ pc' = [pc EXCEPT ![c] = "idle"]
  /\ ret' = [ret EXCEPT ![c] = "err"]
  /\ UNCHANGED <<store, entries, call, waitOn>>

\* Writing or renaming the file fails and the call returns the error, and so
\* does a blocking call that gets no temporary file, ...
WriteFails(c) ==
  /\ \/ pc[c] = "write" /\ ret[c] = "value"
     \/ pc[c] = "lookup" /\ op[c] = "persist"
  /\ CanRun(c)
  /\ DropGuard(c, "idle")
  /\ ret' = [ret EXCEPT ![c] = "err"]
  /\ UNCHANGED <<store, call>>

\* ... a null buffer or a removed object is unwrapped, and so is the write of
\* the asynchronous form.
WritePanics(c) ==
  /\ pc[c] = "write"
  /\ CanRun(c)
  /\ ret[c] # "value" \/ ~Present(arg[c]) \/ op[c] = "persist_async"
  /\ DropGuard(c, "panicked")
  /\ UNCHANGED <<store, call, ret>>

Commit(c) ==
  /\ pc[c] = "commit"
  /\ CanRun(c)
  /\ GuardInsert(c, "idle")
  /\ UNCHANGED <<slab, meta, call>>

-----------------------------------------------------------------------------
(* Specification *)

Start(c, b) ==
  \/ StartGet(c, b)
  \/ StartGetAsync(c, b)
  \/ StartLoad(c, b)
  \/ \E o \in PersistOps : StartPersist(c, o, b)

Step(c) ==
  \/ Lookup(c)
  \/ ReadMemory(c)
  \/ Request(c)
  \/ Publish(c)
  \/ PublishRemoved(c)
  \/ PublishUnheard(c)
  \/ ReadFails(c)
  \/ CacheLoaded(c)
  \/ TakeOther(c)
  \/ Release(c)
  \/ LoadPublish(c)
  \/ LoadFails(c)
  \/ LoadInsert(c)
  \/ Claim(c)
  \/ WriteDone(c)
  \/ WriteFails(c)
  \/ WritePanics(c)
  \/ Commit(c)

Next ==
  \/ \E b \in Buffers, m \in {"Memory", "LocalStorage"} : Add(b, m)
  \/ \E b \in Buffers : Remove(b)
  \/ \E c \in Calls, b \in Buffers : Start(c, b)
  \/ \E c \in Calls : Step(c)

Spec == Init /\ [][Next]_vars

\* Threads are scheduled and runtimes poll their tasks: a call that can take a
\* step does.  Clients need not call anything.
FairSpec == Spec /\ \A c \in Calls : WF_vars(Step(c))

-----------------------------------------------------------------------------
(* Properties of every use of the storage *)

PcStates == {"idle", "panicked", "lookup", "memory", "request", "wait", "read",
             "insert", "lost", "release", "loadRead", "loadInsert", "claim",
             "claimWait", "write", "commit"}

\* The range of every variable.
TypeOK ==
  /\ slab \in [Buffers -> {"unadded", "present", "removed"}]
  /\ meta \in [Buffers -> {"Memory", "LocalStorage"}]
  /\ loaded \subseteq Buffers
  /\ resident \subseteq Buffers
  /\ holder \in [Buffers -> Calls \cup {None}]
  /\ pc \in [Calls -> PcStates]
  /\ op \in [Calls -> AllOps \cup {"none"}]
  /\ arg \in [Calls -> Buffers]
  /\ waitOn \in [Calls -> Calls \cup {None}]
  /\ ret \in [Calls -> {"none", "value", "null", "err"}]

\* The pcs at which call c owns a guard of get_value_or_guard: its own get has
\* one from "read" on, to_local_storage has one around its inner get.
GetGuardPcs == {"read", "insert", "lost", "release"}
HoldsGuard(c) ==
  \/ pc[c] \in GetGuardPcs
  \/ op[c] \in PersistOps /\ pc[c] \in {"write", "commit"}
  \/ op[c] = "persist" /\ pc[c] \in {"lookup", "memory", "request", "wait"}

\* The only copy of a buffer that is in no file is never dropped: whatever the
\* interleaving of persisting, loading and evicting, a buffer whose metadata
\* says Memory still has its data slot filled.
OnlyCopyKept ==
  \A b \in Buffers : slab[b] # "unadded" /\ meta[b] = "Memory" => b \in loaded

\* No placeholder is orphaned: a cache entry that is a placeholder belongs to a
\* call that works on that buffer and still owns the guard, so that returning,
\* failing or panicking it resolves the entry.
PlaceholderOwned ==
  \A b \in Buffers :
    holder[b] # None =>
      /\ b \notin resident
      /\ arg[holder[b]] = b
      /\ HoldsGuard(holder[b])

\* No waiter is forgotten: whoever waits for a placeholder waits for a call
\* that works on the same buffer and still owns a guard of it, also when the
\* placeholder was replaced in the cache by load, or passed on by a panic.
WaitersRemembered ==
  \A c \in Calls :
    pc[c] \in {"wait", "claimWait"} =>
      /\ waitOn[c] # None
      /\ arg[waitOn[c]] = arg[c]
      /\ HoldsGuard(waitOn[c])

\* Nothing that is loaded from disk escapes eviction: a present disk-backed
\* buffer with a filled data slot is a cache value, or some call is about to
\* make it one, or a call on it has panicked on the way.
LoadedIsEvictable ==
  \A b \in Buffers :
    Present(b) /\ b \in loaded /\ meta[b] = "LocalStorage" =>
      \/ b \in resident
      \/ \E c \in Calls :
           /\ arg[c] = b
           /\ pc[c] \in {"insert", "commit", "loadInsert", "panicked"}

-----------------------------------------------------------------------------
(* Properties of clients that only read: get, get_snapshot and get_async *)

\* Two threads never read the file of one buffer at the same time.
SingleFlight ==
  \A c, d \in Calls :
    /\ c # d
    /\ pc[c] \in GetGuardPcs
    /\ pc[d] \in GetGuardPcs
    => arg[c] # arg[d]

\* A cached value and a filled data slot go together, the way the comment on
\* BufferStorage::disk_cache has it: what eviction takes out of the cache is
\* what the data slot holds.
CachedIsLoaded == \A b \in resident : b \in loaded

\* A call that answers with a buffer answers with a non-null one, also when it
\* lost the race for the data slot and took what another call put there.
NeverNull == \A c \in Calls : ret[c] # "null"

\* No buffer is loading forever: a placeholder is resolved or passed on.
PlaceholderResolved ==
  \A b \in Buffers, c \in Calls : holder[b] = c ~> holder[b] # c

\* Where DemandCache has buffer b.
Demanded(b) ==
  IF meta[b] = "LocalStorage" /\ b \in loaded THEN "in"
  ELSE IF meta[b] = "LocalStorage" /\ holder[b] # None THEN "loading" ELSE "out"

Demand == INSTANCE DemandCache WITH state <- [b \in Buffers |-> Demanded(b)]

\* Disk-backed buffers come and go as DemandCache promises: nothing is in
\* memory that was not loaded under a placeholder, and loading ends.
ImplementsDemandCache == Demand!Spec

-----------------------------------------------------------------------------
(* What the comments of the source claim *)

\* "It's safe to get the buffer at any time": a get that has read Memory as
\* the metadata finds the data slot filled, as it asserts.
SafeToGet ==
  \A c \in Calls : pc[c] = "memory" /\ op[c] = "get" => arg[c] \in loaded

\* A blocked get means that "the buffer is already being loading by other
\* thread": a thread never waits for a placeholder of its own.
BlockedByOtherThread ==
  \A c \in Calls :
    pc[c] = "wait" /\ op[c] \in {"get", "persist"} => Home[waitOn[c]] # Home[c]

\* "It's safe to remove them step by step", slab first and the cache when the
\* entry is evicted: an insertion that evicts a removed buffer succeeds.
RemovedIsEvictedSafely ==
  [][\A c \in Calls : pc[c] = "loadInsert" => pc'[c] # "panicked"]_vars
=============================================================================
