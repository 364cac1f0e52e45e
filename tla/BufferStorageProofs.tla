------------------------- MODULE BufferStorageProofs -------------------------
(* Proofs about BufferStorage, for every set of buffers, calls and threads. *)
EXTENDS BufferStorage, TLAPS

LEMMA VictimsAreEntries ==
  ASSUME NEW b \in Buffers, NEW V \in Victims(b)
  PROVE  V \subseteq resident \cup {b}
BY DEF Victims

-----------------------------------------------------------------------------
(* Type correctness *)

LEMMA AcquireType ==
  ASSUME TypeOK, NEW c \in Calls,
         NEW found \in PcStates, NEW claimed \in PcStates, NEW blocked \in PcStates,
         Acquire(c, found, claimed, blocked), UNCHANGED <<store, call>>
  PROVE  TypeOK'
BY DEF TypeOK, Acquire, store, call, entries

LEMMA DropGuardType ==
  ASSUME TypeOK, NEW c \in Calls, NEW next \in PcStates,
         DropGuard(c, next), UNCHANGED <<store, call>>,
         ret' \in [Calls -> {"none", "value", "null", "err"}]
  PROVE  TypeOK'
<1>1. CASE Waiters(c) = {} /\ UNCHANGED waitOn
           /\ holder' = [holder EXCEPT ![arg[c]] = IF @ = c THEN None ELSE @]
           /\ pc' = [pc EXCEPT ![c] = next]
  BY <1>1 DEF TypeOK, DropGuard, store, call
<1>2. ASSUME NEW w \in Waiters(c),
             holder' = [holder EXCEPT ![arg[c]] = IF @ = c THEN w ELSE @],
             pc' = [pc EXCEPT ![c] = next,
                              ![w] = IF pc[w] = "wait" THEN "read" ELSE AfterClaim(w)],
             waitOn' = [x \in Calls |-> IF x = w THEN None
                                        ELSE IF waitOn[x] = c THEN w ELSE waitOn[x]]
      PROVE  TypeOK'
  <2>1. w \in Calls
    BY DEF Waiters
  <2>2. AfterClaim(w) \in PcStates
    BY DEF AfterClaim, PcStates
  <2>3. "read" \in PcStates
    BY DEF PcStates
  <2>4. QED
    BY <1>2, <2>1, <2>2, <2>3 DEF TypeOK, DropGuard, store, call
<1>3. QED
  BY <1>1, <1>2 DEF DropGuard

LEMMA GuardInsertType ==
  ASSUME TypeOK, NEW c \in Calls, NEW next \in PcStates,
         GuardInsert(c, next), UNCHANGED <<slab, meta, call>>
  PROVE  TypeOK'
<1>1. ASSUME NEW n \in PcStates, Wake(c, n)
      PROVE  /\ pc' \in [Calls -> PcStates]
             /\ waitOn' \in [Calls -> Calls \cup {None}]
             /\ ret' \in [Calls -> {"none", "value", "null", "err"}]
  BY <1>1 DEF Wake, TypeOK, AfterWait, AfterGet, PcStates
<1>2. "panicked" \in PcStates
  BY DEF PcStates
<1>3. arg[c] \in Buffers
  BY DEF TypeOK
<1>4. CASE holder[arg[c]] # c
  BY <1>1, <1>2, <1>4 DEF GuardInsert, TypeOK, call, entries
<1>5. ASSUME NEW V \in Victims(arg[c]), Insert(arg[c], V),
             Wake(c, IF EvictPanics(V) THEN "panicked" ELSE next)
      PROVE  TypeOK'
  <2>1. resident' \subseteq Buffers /\ loaded' \subseteq Buffers
    BY <1>3, <1>5, VictimsAreEntries DEF Insert, OnEvict, TypeOK
  <2>2. holder' \in [Buffers -> Calls \cup {None}]
    BY <1>5 DEF Insert, TypeOK
  <2>3. QED
    BY <1>1, <1>2, <1>5, <2>1, <2>2 DEF TypeOK, call
<1>6. QED
  BY <1>4, <1>5 DEF GuardInsert

LEMMA BeginType ==
  ASSUME TypeOK, NEW c \in Calls, NEW o, NEW b \in Buffers, NEW first \in PcStates,
         NEW r \in {"none", "value", "null", "err"}, Begin(c, o, b, first, r)
  PROVE  TypeOK'
BY BufferStorageAssumption DEF Begin, TypeOK, store, entries

LEMMA StartType ==
  ASSUME TypeOK, NEW c \in Calls, NEW b \in Buffers, Start(c, b)
  PROVE  TypeOK'
<1> USE DEF PcStates
<1>1. AfterLookup(b) \in PcStates
  BY DEF AfterLookup
<1>2. CASE StartGet(c, b)
  BY <1>1, <1>2, BeginType DEF StartGet
<1>3. CASE StartGetAsync(c, b)
  BY <1>1, <1>3, BeginType DEF StartGetAsync
<1>4. CASE StartLoad(c, b)
  BY <1>4, BeginType DEF StartLoad
<1>5. ASSUME NEW o \in PersistOps, StartPersist(c, o, b)
      PROVE  TypeOK'
  BY <1>5, BeginType DEF StartPersist
<1>6. QED
  BY <1>2, <1>3, <1>4, <1>5 DEF Start

LEMMA StepType ==
  ASSUME TypeOK, NEW c \in Calls, Step(c)
  PROVE  TypeOK'
<1> DEFINE Results == {"none", "value", "null", "err"}
<1>0. /\ "panicked" \in PcStates /\ "idle" \in PcStates /\ "wait" \in PcStates
      /\ "read" \in PcStates /\ "claimWait" \in PcStates /\ "lost" \in PcStates
      /\ "insert" \in PcStates /\ "release" \in PcStates /\ "commit" \in PcStates
      /\ "loadInsert" \in PcStates
      /\ AfterGet(c) \in PcStates /\ AfterClaim(c) \in PcStates
      /\ AfterLookup(arg[c]) \in PcStates
  BY DEF PcStates, AfterGet, AfterClaim, AfterLookup
<1>1. CASE Lookup(c)
  BY <1>0, <1>1, DropGuardType DEF Lookup, TypeOK, store, entries, call
<1>2. CASE ReadMemory(c)
  BY <1>0, <1>2, DropGuardType DEF ReadMemory, TypeOK, store, entries, call
<1>3. CASE Request(c)
  BY <1>0, <1>3, AcquireType DEF Request
<1>4. CASE Publish(c)
  BY <1>0, <1>4 DEF Publish, TypeOK, entries, call
<1>5. CASE PublishRemoved(c)
  BY <1>0, <1>5, DropGuardType DEF PublishRemoved, TypeOK
<1>6. CASE PublishUnheard(c)
  BY <1>0, <1>6, DropGuardType DEF PublishUnheard, TypeOK
<1>7. CASE ReadFails(c)
  BY <1>0, <1>7, DropGuardType DEF ReadFails, TypeOK
<1>8. CASE CacheLoaded(c)
  BY <1>0, <1>8, GuardInsertType DEF CacheLoaded
<1>9. CASE TakeOther(c)
  BY <1>0, <1>9 DEF TakeOther, TypeOK, store, entries, call
<1>10. CASE Release(c)
  BY <1>0, <1>10, DropGuardType DEF Release, TypeOK
<1>11. CASE LoadPublish(c)
  BY <1>0, <1>11 DEF LoadPublish, TypeOK, entries, call
<1>12. CASE LoadFails(c)
  BY <1>0, <1>12 DEF LoadFails, TypeOK, store, entries, call
<1>13. CASE LoadInsert(c)
  BY <1>0, <1>13, VictimsAreEntries DEF LoadInsert, Insert, OnEvict, TypeOK, call
<1>14. CASE Claim(c)
  BY <1>0, <1>14, AcquireType DEF Claim
<1>15. CASE WriteDone(c)
  BY <1>0, <1>15 DEF WriteDone, TypeOK, entries, call
<1>16. CASE WriteFails(c)
  BY <1>0, <1>16, DropGuardType DEF WriteFails, TypeOK
<1>17. CASE WritePanics(c)
  BY <1>0, <1>17, DropGuardType DEF WritePanics, TypeOK
<1>18. CASE Commit(c)
  BY <1>0, <1>18, GuardInsertType DEF Commit
<1>19. QED
  BY <1>1, <1>2, <1>3, <1>4, <1>5, <1>6, <1>7, <1>8, <1>9, <1>10, <1>11, <1>12,
     <1>13, <1>14, <1>15, <1>16, <1>17, <1>18 DEF Step

\* Every variable of the storage keeps its range, whatever the calls do.
THEOREM TypeCorrect == Spec => []TypeOK
<1>1. Init => TypeOK
  BY DEF Init, TypeOK, PcStates
<1>2. TypeOK /\ [Next]_vars => TypeOK'
  <2> SUFFICES ASSUME TypeOK, [Next]_vars PROVE TypeOK'
    OBVIOUS
  <2>1. ASSUME NEW b \in Buffers, NEW m \in {"Memory", "LocalStorage"}, Add(b, m)
        PROVE  TypeOK'
    BY <2>1 DEF Add, TypeOK, entries, call
  <2>2. ASSUME NEW b \in Buffers, Remove(b)
        PROVE  TypeOK'
    BY <2>2 DEF Remove, TypeOK, entries, call
  <2>3. CASE UNCHANGED vars
    BY <2>3 DEF vars, TypeOK
  <2>4. QED
    BY <2>1, <2>2, <2>3, StartType, StepType DEF Next
<1>3. QED
  BY <1>1, <1>2, PTL DEF Spec

-----------------------------------------------------------------------------
(* Placeholders and waiters *)

\* The operation of a call whose pc only to_local_storage reaches.
PersistPcs == {"lookup", "claim", "claimWait", "write", "commit"}
OpMatchesPc == \A c \in Calls : pc[c] \in PersistPcs => op[c] \in PersistOps

WaitPcs == {"wait", "claimWait"}
OnlyWaitersWait == \A c \in Calls : waitOn[c] # None => pc[c] \in WaitPcs

WaitInv ==
  /\ PlaceholderOwned
  /\ WaitersRemembered
  /\ OnlyWaitersWait
  /\ OpMatchesPc

LEMMA AcquireWait ==
  ASSUME TypeOK, WaitInv, NEW c \in Calls, pc[c] \notin WaitPcs,
         NEW found, NEW claimed, NEW blocked \in WaitPcs,
         found \notin WaitPcs, claimed \notin WaitPcs,
         HoldsGuard(c) => op[c] = "persist" /\ found = "write" /\ claimed = "read" /\ blocked = "wait",
         claimed = "read" \/ (claimed \in {"lookup", "write"} /\ op[c] \in PersistOps
                               /\ (claimed = "lookup" => op[c] = "persist")),
         found \in PersistPcs => op[c] \in PersistOps,
         blocked = "claimWait" => op[c] \in PersistOps,
         Acquire(c, found, claimed, blocked), UNCHANGED call
  PROVE  WaitInv'
<1> USE DEF TypeOK, WaitInv, PlaceholderOwned, WaitersRemembered, OnlyWaitersWait,
            OpMatchesPc, HoldsGuard, GetGuardPcs, WaitPcs, PersistPcs, PersistOps,
            Acquire, call, entries
<1>0. None \notin Calls
  BY BufferStorageAssumption
<1>1. PlaceholderOwned'
  BY <1>0
<1>2. WaitersRemembered'
  BY <1>0
<1>3. OnlyWaitersWait' /\ OpMatchesPc'
  BY <1>0
<1>4. QED
  BY <1>1, <1>2, <1>3

LEMMA DropGuardWait ==
  ASSUME TypeOK, WaitInv, NEW c \in Calls, pc[c] \notin WaitPcs,
         NEW next \in PcStates \ WaitPcs, next \in PersistPcs => op[c] \in PersistOps,
         DropGuard(c, next), UNCHANGED call
  PROVE  WaitInv'
<1>0. None \notin Calls
  BY BufferStorageAssumption
<1> USE DEF TypeOK, WaitInv, PlaceholderOwned, WaitersRemembered, OnlyWaitersWait,
            OpMatchesPc, HoldsGuard, GetGuardPcs, WaitPcs, PersistPcs, PersistOps,
            Waiters, call
<1>1. CASE Waiters(c) = {} /\ UNCHANGED waitOn
           /\ holder' = [holder EXCEPT ![arg[c]] = IF @ = c THEN None ELSE @]
           /\ pc' = [pc EXCEPT ![c] = next]
  <2>1. PlaceholderOwned'
    BY <1>0, <1>1 DEF DropGuard
  <2>2. WaitersRemembered'
    BY <1>0, <1>1 DEF DropGuard
  <2>3. OnlyWaitersWait' /\ OpMatchesPc'
    BY <1>0, <1>1 DEF DropGuard
  <2>4. QED
    BY <2>1, <2>2, <2>3
<1>2. ASSUME NEW w \in Waiters(c),
             holder' = [holder EXCEPT ![arg[c]] = IF @ = c THEN w ELSE @],
             pc' = [pc EXCEPT ![c] = next,
                              ![w] = IF pc[w] = "wait" THEN "read" ELSE AfterClaim(w)],
             waitOn' = [x \in Calls |-> IF x = w THEN None
                                        ELSE IF waitOn[x] = c THEN w ELSE waitOn[x]]
      PROVE  WaitInv'
  <2>0. w # c /\ w \in Calls /\ arg[w] = arg[c] /\ pc[w] \in WaitPcs /\ HoldsGuard(c)
    BY <1>0, <1>2
  <2>1. PlaceholderOwned'
    BY <1>0, <1>2, <2>0 DEF DropGuard, AfterClaim
  <2>2. WaitersRemembered'
    BY <1>0, <1>2, <2>0 DEF DropGuard, AfterClaim
  <2>3. OnlyWaitersWait' /\ OpMatchesPc'
    BY <1>0, <1>2, <2>0 DEF DropGuard, AfterClaim
  <2>4. QED
    BY <2>1, <2>2, <2>3
<1>3. QED
  BY <1>1, <1>2 DEF DropGuard

LEMMA WakeWait ==
  ASSUME TypeOK, WaitInv, NEW c \in Calls, pc[c] \notin WaitPcs,
         NEW next, next \notin WaitPcs,
         next \in PersistPcs => op[c] \in PersistOps, Wake(c, next), UNCHANGED call
  PROVE  /\ OnlyWaitersWait'
         /\ OpMatchesPc'
         /\ \A d \in Calls \ {c} : HoldsGuard(d) => HoldsGuard(d)'
         /\ \A d \in Calls : waitOn[d] # c => waitOn'[d] = waitOn[d]
         /\ \A d \in Calls : waitOn'[d] # None => waitOn'[d] = waitOn[d] /\ waitOn[d] # c
         /\ \A d \in Calls \ {c} : waitOn[d] # c => pc'[d] = pc[d]
         /\ \A d \in Calls : pc'[d] \in WaitPcs => pc'[d] = pc[d] /\ waitOn[d] # c
<1>0. None \notin Calls
  BY BufferStorageAssumption
<1> USE DEF TypeOK, WaitInv, WaitersRemembered, OnlyWaitersWait,
            OpMatchesPc, HoldsGuard, GetGuardPcs, WaitPcs, PersistPcs, PersistOps,
            Waiters, call, Wake, AfterWait, AfterGet
<1>1. OnlyWaitersWait'
  BY <1>0
<1>2. OpMatchesPc'
  BY <1>0
<1>3. \A d \in Calls \ {c} : waitOn[d] # c => pc'[d] = pc[d]
  BY <1>0
<1>4. \A d \in Calls : pc'[d] \in WaitPcs => pc'[d] = pc[d] /\ waitOn[d] # c
  BY <1>0
<1>5. \A d \in Calls \ {c} : HoldsGuard(d) => HoldsGuard(d)'
  BY <1>0, <1>3
<1>6. QED
  BY <1>0, <1>1, <1>2, <1>3, <1>4, <1>5

LEMMA GuardInsertWait ==
  ASSUME TypeOK, WaitInv, NEW c \in Calls, pc[c] \notin WaitPcs,
         NEW next, next \notin WaitPcs, next \in PersistPcs => op[c] \in PersistOps,
         GuardInsert(c, next), UNCHANGED call
  PROVE  WaitInv'
<1>0. None \notin Calls
  BY BufferStorageAssumption
<1> DEFINE b == arg[c]
<1>1. PICK n : /\ n \notin WaitPcs
               /\ n \in PersistPcs => op[c] \in PersistOps
               /\ Wake(c, n)
  BY DEF GuardInsert, WaitPcs, PersistPcs
<1>2. /\ b \in Buffers
      /\ holder'[b] # c
      /\ \A a \in Buffers : holder'[a] # None => holder'[a] = holder[a] /\ a \notin resident'
  BY <1>0, VictimsAreEntries
     DEF GuardInsert, Insert, TypeOK, WaitInv, PlaceholderOwned, entries
<1>3. \A a \in Buffers : holder'[a] # c
  BY <1>0, <1>2 DEF WaitInv, PlaceholderOwned
<1>4. \A d \in Calls \ {c} : HoldsGuard(d) => HoldsGuard(d)'
  BY <1>1, WakeWait
<1>5. PlaceholderOwned'
  BY <1>0, <1>2, <1>3, <1>4 DEF WaitInv, PlaceholderOwned, TypeOK, call
<1>6. WaitersRemembered'
  <2> SUFFICES ASSUME NEW d \in Calls, pc'[d] \in WaitPcs
               PROVE  waitOn'[d] # None /\ arg'[waitOn'[d]] = arg'[d] /\ HoldsGuard(waitOn[d])'
                      /\ waitOn'[d] = waitOn[d]
    BY DEF WaitersRemembered, WaitPcs
  <2>1. pc[d] \in WaitPcs /\ waitOn[d] # c
    BY <1>1, WakeWait
  <2>2. waitOn'[d] = waitOn[d]
    BY <1>1, <2>1, WakeWait
  <2>3. waitOn[d] \in Calls /\ arg[waitOn[d]] = arg[d] /\ HoldsGuard(waitOn[d])
    BY <2>1 DEF WaitInv, WaitersRemembered, WaitPcs, TypeOK
  <2>4. QED
    BY <1>0, <1>4, <2>1, <2>2, <2>3 DEF call
<1>7. OnlyWaitersWait' /\ OpMatchesPc'
  BY <1>1, WakeWait
<1>8. QED
  BY <1>5, <1>6, <1>7 DEF WaitInv

\* A call that moves on its own, neither taking nor losing a guard, or that
\* leaves no guard behind.
LEMMA QuietWait ==
  ASSUME TypeOK, WaitInv, NEW c \in Calls, pc[c] \notin WaitPcs,
         NEW next, next \notin WaitPcs,
         pc' = [pc EXCEPT ![c] = next],
         HoldsGuard(c) => HoldsGuard(c)' /\ arg'[c] = arg[c],
         next \in PersistPcs => op'[c] \in PersistOps,
         \A d \in Calls \ {c} : op'[d] = op[d] /\ arg'[d] = arg[d],
         waitOn' = waitOn, resident' = resident, holder' = holder
  PROVE  WaitInv'
<1>0. None \notin Calls
  BY BufferStorageAssumption
<1> USE DEF TypeOK, WaitInv, WaitPcs, PersistPcs
<1>1. \A d \in Calls : HoldsGuard(d) => HoldsGuard(d)' /\ arg'[d] = arg[d]
  BY DEF HoldsGuard
<1>2. PlaceholderOwned'
  BY <1>0, <1>1 DEF PlaceholderOwned
<1>3. WaitersRemembered'
  BY <1>0, <1>1 DEF WaitersRemembered
<1>4. OnlyWaitersWait' /\ OpMatchesPc'
  BY <1>0 DEF OnlyWaitersWait, OpMatchesPc
<1>5. QED
  BY <1>2, <1>3, <1>4

LEMMA StartWait ==
  ASSUME TypeOK, WaitInv, NEW c \in Calls, NEW b \in Buffers, Start(c, b)
  PROVE  WaitInv'
<1>1. ASSUME NEW o, NEW first, NEW r, Begin(c, o, b, first, r),
             first \notin WaitPcs, first \in PersistPcs => o \in PersistOps
      PROVE  WaitInv'
  <2>1. pc[c] = "idle" /\ pc[c] \notin WaitPcs /\ ~HoldsGuard(c)
    BY <1>1 DEF Begin, WaitPcs, HoldsGuard, GetGuardPcs
  <2>2. op'[c] = o /\ \A d \in Calls \ {c} : op'[d] = op[d] /\ arg'[d] = arg[d]
    BY <1>1 DEF Begin, TypeOK
  <2>3. QED
    BY <1>1, <2>1, <2>2, QuietWait DEF Begin, entries
<1> USE DEF WaitPcs, PersistPcs, PersistOps, AfterLookup
<1>2. CASE StartGet(c, b)
  BY <1>1, <1>2 DEF StartGet
<1>3. CASE StartGetAsync(c, b)
  BY <1>1, <1>3 DEF StartGetAsync
<1>4. CASE StartLoad(c, b)
  BY <1>1, <1>4 DEF StartLoad
<1>5. ASSUME NEW o \in PersistOps, StartPersist(c, o, b)
      PROVE  WaitInv'
  BY <1>1, <1>5 DEF StartPersist
<1>6. QED
  BY <1>2, <1>3, <1>4, <1>5 DEF Start

LEMMA StepWait ==
  ASSUME TypeOK, WaitInv, NEW c \in Calls, Step(c)
  PROVE  WaitInv'
<1> USE DEF WaitPcs, PersistPcs, PersistOps
<1>0. /\ AfterGet(c) \in {"write", "claim", "idle"}
      /\ AfterGet(c) \in PersistPcs => op[c] \in PersistOps
      /\ op[c] = "persist" => AfterGet(c) = "write"
      /\ AfterLookup(arg[c]) \in {"memory", "request"}
      /\ {"panicked", "idle", "read", "write", "claim"} \subseteq PcStates
  BY DEF AfterGet, AfterLookup, PcStates
<1>1. CASE Lookup(c)
  <2>1. CASE Present(arg[c])
    BY <1>0, <1>1, <2>1, QuietWait DEF Lookup, HoldsGuard, GetGuardPcs, TypeOK, entries, call
  <2>2. CASE ~Present(arg[c])
    BY <1>0, <1>1, <2>2, DropGuardWait DEF Lookup
  <2>3. QED
    BY <2>1, <2>2
<1>2. CASE ReadMemory(c)
  <2>1. CASE arg[c] \in loaded
    BY <1>0, <1>2, <2>1, QuietWait DEF ReadMemory, HoldsGuard, GetGuardPcs, TypeOK, entries, call
  <2>2. CASE arg[c] \notin loaded /\ op[c] = "get_async"
    BY <1>0, <1>2, <2>2, QuietWait DEF ReadMemory, HoldsGuard, GetGuardPcs, TypeOK, entries, call
  <2>3. CASE arg[c] \notin loaded /\ op[c] # "get_async"
    BY <1>0, <1>2, <2>3, DropGuardWait DEF ReadMemory, call
  <2>4. QED
    BY <2>1, <2>2, <2>3
<1>3. CASE Request(c)
  BY <1>0, <1>3, AcquireWait DEF Request, HoldsGuard, GetGuardPcs
<1>4. CASE Publish(c)
  BY <1>0, <1>4, QuietWait DEF Publish, HoldsGuard, GetGuardPcs, TypeOK, entries, call
<1>5. CASE PublishRemoved(c)
  BY <1>0, <1>5, DropGuardWait DEF PublishRemoved
<1>6. CASE PublishUnheard(c)
  BY <1>0, <1>6, DropGuardWait DEF PublishUnheard
<1>7. CASE ReadFails(c)
  BY <1>0, <1>7, DropGuardWait DEF ReadFails
<1>8. CASE CacheLoaded(c)
  BY <1>0, <1>8, GuardInsertWait DEF CacheLoaded
<1>9. CASE TakeOther(c)
  BY <1>0, <1>9, QuietWait DEF TakeOther, HoldsGuard, GetGuardPcs, TypeOK, entries, call
<1>10. CASE Release(c)
  BY <1>0, <1>10, DropGuardWait DEF Release
<1>11. CASE LoadPublish(c)
  BY <1>0, <1>11, QuietWait DEF LoadPublish, HoldsGuard, GetGuardPcs, TypeOK, entries, call
<1>12. CASE LoadFails(c)
  BY <1>0, <1>12, QuietWait DEF LoadFails, HoldsGuard, GetGuardPcs, TypeOK, entries, call
<1>13. CASE LoadInsert(c)
  <2>1. PICK V \in Victims(arg[c]) : Insert(arg[c], V)
    BY <1>13 DEF LoadInsert
  <2>2. \A a \in Buffers : holder'[a] # None => holder'[a] = holder[a] /\ a \notin resident'
    BY <2>1, VictimsAreEntries DEF Insert, TypeOK, WaitInv, PlaceholderOwned
  <2>3. PICK n \in {"panicked", "idle"} : pc' = [pc EXCEPT ![c] = n]
    BY <1>13 DEF LoadInsert
  <2>4. pc[c] = "loadInsert" /\ waitOn' = waitOn /\ op' = op /\ arg' = arg
    BY <1>13 DEF LoadInsert, call
  <2>5. ~HoldsGuard(c) /\ \A d \in Calls : HoldsGuard(d) => HoldsGuard(d)'
    BY <2>3, <2>4 DEF HoldsGuard, GetGuardPcs, TypeOK
  <2>6. PlaceholderOwned'
    BY <2>2, <2>4, <2>5, BufferStorageAssumption DEF WaitInv, PlaceholderOwned, TypeOK
  <2>7. WaitersRemembered'
    BY <2>3, <2>4, <2>5, BufferStorageAssumption DEF WaitInv, WaitersRemembered, TypeOK
  <2>8. OnlyWaitersWait' /\ OpMatchesPc'
    BY <2>3, <2>4, BufferStorageAssumption DEF WaitInv, OnlyWaitersWait, OpMatchesPc, TypeOK
  <2>9. QED
    BY <2>6, <2>7, <2>8 DEF WaitInv
<1>14. CASE Claim(c)
  <2>1. op[c] \in PersistOps /\ ~HoldsGuard(c)
    BY <1>14 DEF Claim, WaitInv, OpMatchesPc, HoldsGuard, GetGuardPcs
  <2>2. QED
    BY <1>0, <1>14, <2>1, AcquireWait DEF Claim, AfterClaim
<1>15. CASE WriteDone(c)
  BY <1>0, <1>15, QuietWait
     DEF WriteDone, HoldsGuard, GetGuardPcs, TypeOK, entries, call, WaitInv, OpMatchesPc
<1>16. CASE WriteFails(c)
  BY <1>0, <1>16, DropGuardWait DEF WriteFails
<1>17. CASE WritePanics(c)
  BY <1>0, <1>17, DropGuardWait DEF WritePanics
<1>18. CASE Commit(c)
  BY <1>0, <1>18, GuardInsertWait DEF Commit
<1>19. QED
  BY <1>1, <1>2, <1>3, <1>4, <1>5, <1>6, <1>7, <1>8, <1>9, <1>10, <1>11, <1>12,
     <1>13, <1>14, <1>15, <1>16, <1>17, <1>18 DEF Step

LEMMA WaitInvInvariant == Spec => []WaitInv
<1>1. Init => WaitInv
  BY DEF Init, WaitInv, PlaceholderOwned, WaitersRemembered, OnlyWaitersWait, OpMatchesPc,
         PersistPcs
<1>2. TypeOK /\ WaitInv /\ [Next]_vars => WaitInv'
  <2> SUFFICES ASSUME TypeOK, WaitInv, [Next]_vars PROVE WaitInv'
    OBVIOUS
  <2> USE DEF WaitInv, PlaceholderOwned, WaitersRemembered, OnlyWaitersWait, OpMatchesPc,
              HoldsGuard
  <2>1. ASSUME NEW b \in Buffers, NEW m \in {"Memory", "LocalStorage"}, Add(b, m)
        PROVE  WaitInv'
    BY <2>1 DEF Add, entries, call
  <2>2. ASSUME NEW b \in Buffers, Remove(b)
        PROVE  WaitInv'
    BY <2>2 DEF Remove, entries, call
  <2>3. CASE UNCHANGED vars
    BY <2>3 DEF vars
  <2>4. QED
    BY <2>1, <2>2, <2>3, StartWait, StepWait DEF Next
<1>3. QED
  BY <1>1, <1>2, TypeCorrect, PTL DEF Spec

\* Every placeholder belongs to a call that still owns its guard.
THEOREM PlaceholdersAreOwned == Spec => []PlaceholderOwned
BY WaitInvInvariant, PTL DEF WaitInv

\* Every waiter waits for a call that still owns a guard of its buffer.
THEOREM WaitersAreRemembered == Spec => []WaitersRemembered
BY WaitInvInvariant, PTL DEF WaitInv

-----------------------------------------------------------------------------
(* Data slots, metadata and eviction *)

\* The pcs of a call that has read LocalStorage as its buffer's metadata, or
\* has just written it.
DiskPcs == {"request", "wait", "read", "insert", "lost", "release", "loadRead",
            "loadInsert", "commit"}

OnDisk ==
  /\ \A b \in resident : meta[b] = "LocalStorage"
  /\ \A c \in Calls : pc[c] \in DiskPcs => meta[arg[c]] = "LocalStorage"

UnaddedUntouched ==
  \A b \in Buffers : slab[b] = "unadded" => meta[b] = "Memory" /\ b \notin loaded

\* The pcs of a call that accounts for a data slot outside the cache.
AccountPcs == {"insert", "commit", "loadInsert", "panicked"}

DataInv ==
  /\ OnDisk
  /\ UnaddedUntouched
  /\ OnlyCopyKept
  /\ LoadedIsEvictable

\* A step in which no metadata and no data slot changes, the cache keeps its
\* values, and no call stops accounting for a slot.
LEMMA QuietData ==
  ASSUME TypeOK, DataInv, UNCHANGED store, resident' = resident,
         \A c \in Calls : pc'[c] \in DiskPcs =>
            \/ pc[c] \in DiskPcs /\ arg'[c] = arg[c]
            \/ meta[arg'[c]] = "LocalStorage",
         \A c \in Calls : pc[c] \in AccountPcs =>
            pc'[c] \in AccountPcs /\ arg'[c] = arg[c]
  PROVE  DataInv'
<1> USE DEF store, DataInv
<1>1. OnDisk'
  BY DEF OnDisk
<1>2. UnaddedUntouched' /\ OnlyCopyKept'
  BY DEF UnaddedUntouched, OnlyCopyKept
<1>3. LoadedIsEvictable'
  BY DEF LoadedIsEvictable, AccountPcs, Present
<1>4. QED
  BY <1>1, <1>2, <1>3

LEMMA AcquireData ==
  ASSUME TypeOK, DataInv, NEW c \in Calls, pc[c] \notin AccountPcs,
         NEW found, NEW claimed, NEW blocked, found \notin DiskPcs,
         claimed \in DiskPcs \/ blocked \in DiskPcs => pc[c] \in DiskPcs,
         Acquire(c, found, claimed, blocked), UNCHANGED <<store, call>>
  PROVE  DataInv'
<1>1. resident' = resident /\ arg' = arg /\ UNCHANGED store
  BY DEF Acquire, entries, call
<1>2. PICK n : pc' = [pc EXCEPT ![c] = n] /\ (n \in DiskPcs => pc[c] \in DiskPcs)
  BY DEF Acquire
<1>3. QED
  BY <1>1, <1>2, QuietData DEF TypeOK

LEMMA DropGuardData ==
  ASSUME TypeOK, WaitInv, DataInv, NEW c \in Calls, pc[c] \notin WaitPcs, NEW next,
         next \notin DiskPcs, pc[c] \in AccountPcs => next \in AccountPcs,
         DropGuard(c, next), UNCHANGED <<store, call>>
  PROVE  DataInv'
<1>1. resident' = resident /\ arg' = arg /\ UNCHANGED store
  BY DEF DropGuard, call
<1>2. CASE pc' = [pc EXCEPT ![c] = next]
  BY <1>1, <1>2, QuietData DEF TypeOK
<1>3. ASSUME NEW w \in Waiters(c),
             pc' = [pc EXCEPT ![c] = next,
                              ![w] = IF pc[w] = "wait" THEN "read" ELSE AfterClaim(w)]
      PROVE  DataInv'
  <2>1. w \in Calls /\ pc[w] \in WaitPcs
    BY BufferStorageAssumption DEF Waiters, WaitInv, OnlyWaitersWait
  <2>2. "wait" \in DiskPcs /\ AfterClaim(w) \notin DiskPcs /\ pc[w] \notin AccountPcs
    BY <2>1 DEF DiskPcs, AfterClaim, AccountPcs, WaitPcs
  <2>3. QED
    BY <1>1, <1>3, <2>1, <2>2, QuietData DEF TypeOK
<1>4. QED
  BY <1>2, <1>3 DEF DropGuard

\* A value enters the cache for a disk-backed buffer and V is evicted.
LEMMA InsertData ==
  ASSUME TypeOK, DataInv, NEW c \in Calls, NEW V \in Victims(arg[c]), Insert(arg[c], V),
         meta[arg[c]] = "LocalStorage", UNCHANGED <<slab, meta, call>>,
         \A d \in Calls : pc'[d] \in DiskPcs => pc[d] \in DiskPcs,
         \A d \in Calls \ {c} : pc[d] \in AccountPcs => pc'[d] = pc[d]
  PROVE  DataInv'
<1> USE DEF DataInv, TypeOK, call
<1>1. arg[c] \in Buffers /\ V \subseteq resident \cup {arg[c]}
  BY VictimsAreEntries
<1>2. \A v \in V : meta[v] = "LocalStorage"
  BY <1>1 DEF OnDisk
<1>3. /\ resident' = (resident \cup {arg[c]}) \ V
      /\ loaded' = loaded \ {v \in V : Present(v)}
  BY DEF Insert, OnEvict
<1>4. OnDisk'
  BY <1>1, <1>3 DEF OnDisk
<1>5. UnaddedUntouched' /\ OnlyCopyKept'
  BY <1>2, <1>3 DEF UnaddedUntouched, OnlyCopyKept
<1>6. LoadedIsEvictable'
  BY <1>1, <1>3 DEF LoadedIsEvictable, AccountPcs, Present
<1>7. QED
  BY <1>4, <1>5, <1>6

LEMMA GuardInsertData ==
  ASSUME TypeOK, WaitInv, DataInv, NEW c \in Calls, pc[c] \in {"insert", "commit"},
         NEW next, next \notin DiskPcs, GuardInsert(c, next), UNCHANGED <<slab, meta, call>>
  PROVE  DataInv'
<1>1. meta[arg[c]] = "LocalStorage"
  BY DEF DataInv, OnDisk, DiskPcs
<1>2. ASSUME NEW n, n \notin DiskPcs, Wake(c, n)
      PROVE  /\ \A d \in Calls : pc'[d] \in DiskPcs => pc[d] \in DiskPcs
             /\ \A d \in Calls \ {c} : pc[d] \in AccountPcs => pc'[d] = pc[d]
             /\ pc'[c] = n
  <2>1. pc[c] \notin WaitPcs /\ c \notin Waiters(c)
    BY BufferStorageAssumption DEF WaitInv, OnlyWaitersWait, WaitPcs, Waiters
  <2>2. \A d \in Waiters(c) \ {c} : AfterWait(d) \notin DiskPcs /\ pc[d] \notin AccountPcs
    BY BufferStorageAssumption
       DEF AfterWait, AfterGet, DiskPcs, AccountPcs, WaitPcs, Waiters, WaitInv, OnlyWaitersWait
  <2>3. QED
    BY <1>2, <2>1, <2>2 DEF Wake
<1>3. "panicked" \notin DiskPcs /\ "panicked" \in AccountPcs
  BY DEF DiskPcs, AccountPcs
<1>4. CASE holder[arg[c]] # c
  <2>1. Wake(c, "panicked") /\ UNCHANGED store /\ resident' = resident /\ arg' = arg
    BY <1>4 DEF GuardInsert, entries, store, call
  <2>2. /\ \A d \in Calls : pc'[d] \in DiskPcs => pc[d] \in DiskPcs
        /\ \A d \in Calls : pc[d] \in AccountPcs => pc'[d] \in AccountPcs
    BY <1>2, <1>3, <2>1
  <2>3. QED
    BY <2>1, <2>2, QuietData
<1>5. ASSUME NEW V \in Victims(arg[c]), Insert(arg[c], V),
             Wake(c, IF EvictPanics(V) THEN "panicked" ELSE next)
      PROVE  DataInv'
  BY <1>1, <1>2, <1>3, <1>5, InsertData
<1>6. QED
  BY <1>4, <1>5 DEF GuardInsert

LEMMA StartData ==
  ASSUME TypeOK, DataInv, NEW c \in Calls, NEW b \in Buffers, Start(c, b)
  PROVE  DataInv'
<1>1. ASSUME NEW o, NEW first, NEW r, Begin(c, o, b, first, r),
             first \in DiskPcs => meta[b] = "LocalStorage"
      PROVE  DataInv'
  <2>1. pc[c] = "idle" /\ pc[c] \notin AccountPcs
    BY <1>1 DEF Begin, AccountPcs
  <2>2. QED
    BY <1>1, <2>1, QuietData DEF Begin, TypeOK, entries
<1> USE DEF DiskPcs, AfterLookup
<1>2. CASE StartGet(c, b)
  BY <1>1, <1>2 DEF StartGet, TypeOK
<1>3. CASE StartGetAsync(c, b)
  BY <1>1, <1>3 DEF StartGetAsync, TypeOK
<1>4. CASE StartLoad(c, b)
  BY <1>1, <1>4 DEF StartLoad
<1>5. ASSUME NEW o \in PersistOps, StartPersist(c, o, b)
      PROVE  DataInv'
  BY <1>1, <1>5 DEF StartPersist
<1>6. QED
  BY <1>2, <1>3, <1>4, <1>5 DEF Start

\* A data slot is filled by a compare-and-swap from null.
LEMMA FillData ==
  ASSUME TypeOK, DataInv, NEW c \in Calls, meta[arg[c]] = "LocalStorage",
         pc[c] \notin AccountPcs, pc[c] \in DiskPcs, NEW next,
         pc' = [pc EXCEPT ![c] = next],
         \/ arg[c] \in loaded /\ loaded' = loaded
         \/ loaded' = loaded \cup {arg[c]} /\ next \in AccountPcs,
         UNCHANGED <<slab, meta, entries, call>>
  PROVE  DataInv'
<1> USE DEF DataInv, TypeOK, entries, call
<1>1. OnDisk'
  BY DEF OnDisk
<1>2. UnaddedUntouched' /\ OnlyCopyKept'
  BY DEF UnaddedUntouched, OnlyCopyKept
<1>3. LoadedIsEvictable'
  BY DEF LoadedIsEvictable, AccountPcs, Present
<1>4. QED
  BY <1>1, <1>2, <1>3

LEMMA StepData ==
  ASSUME TypeOK, WaitInv, DataInv, NEW c \in Calls, Step(c)
  PROVE  DataInv'
<1> USE DEF DiskPcs, AccountPcs, WaitPcs
<1>0. /\ AfterGet(c) \in {"write", "claim", "idle"}
      /\ AfterClaim(c) \in {"lookup", "write"}
      /\ arg[c] \in Buffers
      /\ AfterLookup(arg[c]) = "memory" \/ meta[arg[c]] = "LocalStorage"
      /\ pc[c] \in DiskPcs => meta[arg[c]] = "LocalStorage"
  BY DEF AfterGet, AfterClaim, AfterLookup, TypeOK, DataInv, OnDisk
<1>1. CASE Lookup(c)
  <2>1. CASE Present(arg[c])
    BY <1>0, <1>1, <2>1, QuietData DEF Lookup, TypeOK, entries, call
  <2>2. CASE ~Present(arg[c])
    BY <1>0, <1>1, <2>2, DropGuardData DEF Lookup
  <2>3. QED
    BY <2>1, <2>2
<1>2. CASE ReadMemory(c)
  <2>1. CASE arg[c] \notin loaded /\ op[c] # "get_async"
    BY <1>0, <1>2, <2>1, DropGuardData DEF ReadMemory
  <2>2. CASE arg[c] \in loaded \/ op[c] = "get_async"
    BY <1>0, <1>2, <2>2, QuietData DEF ReadMemory, TypeOK, entries, call
  <2>3. QED
    BY <2>1, <2>2
<1>3. CASE Request(c)
  BY <1>0, <1>3, AcquireData DEF Request
<1>4. CASE Publish(c)
  BY <1>0, <1>4, FillData DEF Publish, TypeOK
<1>5. CASE PublishRemoved(c)
  BY <1>0, <1>5, DropGuardData DEF PublishRemoved
<1>6. CASE PublishUnheard(c)
  BY <1>0, <1>6, DropGuardData DEF PublishUnheard
<1>7. CASE ReadFails(c)
  BY <1>0, <1>7, DropGuardData DEF ReadFails
<1>8. CASE CacheLoaded(c)
  BY <1>0, <1>8, GuardInsertData DEF CacheLoaded
<1>9. CASE TakeOther(c)
  BY <1>0, <1>9, QuietData DEF TakeOther, TypeOK, entries, call
<1>10. CASE Release(c)
  BY <1>0, <1>10, DropGuardData DEF Release
<1>11. CASE LoadPublish(c)
  <2>1. CASE Present(arg[c]) /\ arg[c] \notin loaded
    BY <1>0, <1>11, <2>1, FillData DEF LoadPublish
  <2>2. CASE ~(Present(arg[c]) /\ arg[c] \notin loaded)
    BY <1>0, <1>11, <2>2, QuietData DEF LoadPublish, TypeOK, store, entries, call
  <2>3. QED
    BY <2>1, <2>2
<1>12. CASE LoadFails(c)
  BY <1>0, <1>12, QuietData DEF LoadFails, TypeOK, entries, call
<1>13. CASE LoadInsert(c)
  <2>1. PICK V \in Victims(arg[c]) :
           /\ Insert(arg[c], V)
           /\ pc' = [pc EXCEPT ![c] = IF EvictPanics(V) THEN "panicked" ELSE "idle"]
    BY <1>13 DEF LoadInsert
  <2>2. QED
    BY <1>0, <1>13, <2>1, InsertData DEF LoadInsert, TypeOK, call
<1>14. CASE Claim(c)
  BY <1>0, <1>14, AcquireData DEF Claim
<1>15. CASE WriteDone(c)
  <2>1. /\ pc[c] = "write" /\ pc' = [pc EXCEPT ![c] = "commit"]
        /\ meta' = [meta EXCEPT ![arg[c]] = "LocalStorage"]
        /\ slab[arg[c]] = "present"
        /\ slab' = slab /\ loaded' = loaded /\ resident' = resident /\ arg' = arg
    BY <1>15 DEF WriteDone, Present, entries, call
  <2>2. OnDisk'
    BY <1>0, <2>1 DEF DataInv, OnDisk, TypeOK
  <2>3. UnaddedUntouched' /\ OnlyCopyKept'
    BY <1>0, <2>1 DEF DataInv, UnaddedUntouched, OnlyCopyKept, TypeOK
  <2>4. LoadedIsEvictable'
    BY <1>0, <2>1 DEF DataInv, LoadedIsEvictable, Present, TypeOK
  <2>5. QED
    BY <2>2, <2>3, <2>4 DEF DataInv
<1>16. CASE WriteFails(c)
  BY <1>0, <1>16, DropGuardData DEF WriteFails
<1>17. CASE WritePanics(c)
  BY <1>0, <1>17, DropGuardData DEF WritePanics
<1>18. CASE Commit(c)
  BY <1>0, <1>18, GuardInsertData DEF Commit
<1>19. QED
  BY <1>1, <1>2, <1>3, <1>4, <1>5, <1>6, <1>7, <1>8, <1>9, <1>10, <1>11, <1>12,
     <1>13, <1>14, <1>15, <1>16, <1>17, <1>18 DEF Step

LEMMA DataInvInvariant == Spec => []DataInv
<1>1. Init => DataInv
  BY DEF Init, DataInv, OnDisk, UnaddedUntouched, OnlyCopyKept, LoadedIsEvictable, DiskPcs
<1>2. TypeOK /\ WaitInv /\ DataInv /\ [Next]_vars => DataInv'
  <2> SUFFICES ASSUME TypeOK, WaitInv, DataInv, [Next]_vars PROVE DataInv'
    OBVIOUS
  <2>1. ASSUME NEW b \in Buffers, NEW m \in {"Memory", "LocalStorage"}, Add(b, m)
        PROVE  DataInv'
    <3>1. slab[b] = "unadded" /\ meta[b] = "Memory" /\ b \notin loaded /\ b \notin resident
      BY <2>1 DEF Add, DataInv, UnaddedUntouched, OnDisk
    <3>2. OnDisk'
      BY <2>1, <3>1 DEF Add, DataInv, OnDisk, TypeOK, entries, call
    <3>3. UnaddedUntouched' /\ OnlyCopyKept'
      BY <2>1, <3>1 DEF Add, DataInv, UnaddedUntouched, OnlyCopyKept, TypeOK
    <3>4. LoadedIsEvictable'
      BY <2>1, <3>1 DEF Add, DataInv, LoadedIsEvictable, Present, TypeOK, entries, call
    <3>5. QED
      BY <3>2, <3>3, <3>4 DEF DataInv
  <2>2. ASSUME NEW b \in Buffers, Remove(b)
        PROVE  DataInv'
    BY <2>2 DEF Remove, DataInv, OnDisk, UnaddedUntouched, OnlyCopyKept, LoadedIsEvictable,
                Present, TypeOK, entries, call
  <2>3. CASE UNCHANGED vars
    BY <2>3, QuietData DEF vars, store
  <2>4. QED
    BY <2>1, <2>2, <2>3, StartData, StepData DEF Next
<1>3. QED
  BY <1>1, <1>2, TypeCorrect, WaitInvInvariant, PTL DEF Spec

\* The only copy of a buffer that is in no file is never dropped.
THEOREM OnlyCopyIsKept == Spec => []OnlyCopyKept
BY DataInvInvariant, PTL DEF DataInv

\* What is loaded from disk is in the cache, on its way into it, or a panic's.
THEOREM LoadedStaysEvictable == Spec => []LoadedIsEvictable
BY DataInvInvariant, PTL DEF DataInv

-----------------------------------------------------------------------------
(* Clients that only read (get and get_async, nothing removed).  Whoever   *)
(* owns a guard is the holder of the placeholder, so its buffer is not     *)
(* resident and nobody else can evict what it published: one call loads a  *)
(* buffer at a time, the cache and the data slots go together, and no      *)
(* answer is null.                                                         *)

ReadOnly == Ops \subseteq {"get", "get_async"}

ReaderPcs == {"idle", "panicked", "memory", "request", "wait", "read", "insert",
              "lost", "release"}

\* The calls are those of readers.
ReadersOnly ==
  \A c \in Calls : op[c] \in {"none", "get", "get_async"} /\ pc[c] \in ReaderPcs

\* A call that goes by a buffer's metadata being Memory finds it so.
MemoryStays ==
  \A c \in Calls : pc[c] = "memory" =>
    slab[arg[c]] # "unadded" /\ meta[arg[c]] = "Memory"

\* Each guard is the guard of the placeholder that is in the cache.
GuardsHold == \A c \in Calls : pc[c] \in GetGuardPcs => holder[arg[c]] = c

\* What a call has published, or found published, is still there.
PublishedStays == \A c \in Calls : pc[c] \in {"insert", "lost"} => arg[c] \in loaded

ReadersInv ==
  /\ ReadersOnly
  /\ MemoryStays
  /\ GuardsHold
  /\ PublishedStays
  /\ CachedIsLoaded
  /\ NeverNull

-----------------------------------------------------------------------------

\* A call that goes on by itself, without a guard or with the one it has.
LEMMA QuietReaders ==
  ASSUME TypeOK, ReadersInv, NEW c \in Calls, NEW next \in ReaderPcs,
         pc' = [pc EXCEPT ![c] = next],
         NEW o \in {"none", "get", "get_async"}, op' = [op EXCEPT ![c] = o],
         NEW b \in Buffers, arg' = [arg EXCEPT ![c] = b],
         NEW r \in {"none", "value"}, ret' = [ret EXCEPT ![c] = r],
         next = "memory" => slab[b] # "unadded" /\ meta[b] = "Memory",
         next \in GetGuardPcs => pc[c] \in GetGuardPcs /\ b = arg[c],
         next \in {"insert", "lost"} => b \in loaded',
         loaded \subseteq loaded', UNCHANGED <<slab, meta, entries>>
  PROVE  ReadersInv'
<1> USE DEF TypeOK, ReadersInv, entries
<1>1. ReadersOnly'
  BY DEF ReadersOnly
<1>2. MemoryStays'
  BY DEF MemoryStays
<1>3. GuardsHold'
  BY DEF GuardsHold
<1>4. PublishedStays' /\ CachedIsLoaded' /\ NeverNull'
  BY DEF PublishedStays, CachedIsLoaded, NeverNull
<1> QED
  BY <1>1, <1>2, <1>3, <1>4

LEMMA StartReaders ==
  ASSUME ReadOnly, TypeOK, ReadersInv, NEW c \in Calls, NEW b \in Buffers, Start(c, b)
  PROVE  ReadersInv'
<1>1. ASSUME NEW o, NEW first \in ReaderPcs \ GetGuardPcs, NEW r \in {"none", "value"},
             Begin(c, o, b, first, r), first \notin {"insert", "lost"},
             first = "memory" => meta[b] = "Memory"
      PROVE  ReadersInv'
  BY <1>1, QuietReaders DEF Begin, ReadOnly, store, entries
<1>2. /\ AfterLookup(b) \in ReaderPcs \ GetGuardPcs
      /\ AfterLookup(b) \notin {"insert", "lost"}
      /\ AfterLookup(b) = "memory" => meta[b] = "Memory"
      /\ "idle" \in ReaderPcs \ GetGuardPcs
  BY DEF AfterLookup, ReaderPcs, GetGuardPcs
<1>3. CASE StartGet(c, b)
  BY <1>1, <1>2, <1>3 DEF StartGet
<1>4. CASE StartGetAsync(c, b)
  BY <1>1, <1>2, <1>4 DEF StartGetAsync
<1>5. ~StartLoad(c, b)
  BY DEF StartLoad, Begin, ReadOnly
<1>6. \A o \in PersistOps : ~StartPersist(c, o, b)
  BY DEF StartPersist, Begin, ReadOnly, PersistOps
<1> QED
  BY <1>3, <1>4, <1>5, <1>6 DEF Start

LEMMA RequestReaders ==
  ASSUME TypeOK, ReadersInv, NEW c \in Calls, Request(c)
  PROVE  ReadersInv'
<1>0. /\ pc[c] = "request" /\ UNCHANGED <<store, call>>
      /\ Acquire(c, AfterGet(c), "read", "wait")
      /\ AfterGet(c) = "idle"
  BY DEF Request, AfterGet, ReadersInv, ReadersOnly
<1> USE DEF TypeOK, ReadersInv, store, call, entries
<1>1. CASE arg[c] \in resident
  <2>1. pc' = [pc EXCEPT ![c] = "idle"] /\ ret' = [ret EXCEPT ![c] = "value"]
    BY <1>0, <1>1 DEF Acquire
  <2> QED
    BY <1>0, <1>1, <2>1
       DEF Acquire, ReadersOnly, ReaderPcs, MemoryStays, GuardsHold, GetGuardPcs,
           PublishedStays, CachedIsLoaded, NeverNull
<1>2. CASE arg[c] \notin resident /\ holder[arg[c]] = None
  <2>1. /\ pc' = [pc EXCEPT ![c] = "read"]
        /\ holder' = [holder EXCEPT ![arg[c]] = c]
        /\ UNCHANGED <<resident, waitOn, ret>>
    BY <1>0, <1>2, BufferStorageAssumption DEF Acquire
  <2>2. GuardsHold'
    BY <1>0, <1>2, <2>1, BufferStorageAssumption DEF GuardsHold, GetGuardPcs
  <2> QED
    BY <1>0, <2>1, <2>2
       DEF ReadersOnly, ReaderPcs, MemoryStays, PublishedStays, CachedIsLoaded, NeverNull
<1>3. CASE arg[c] \notin resident /\ holder[arg[c]] # None
  BY <1>0, <1>3
     DEF Acquire, ReadersOnly, ReaderPcs, MemoryStays, GuardsHold, GetGuardPcs,
         PublishedStays, CachedIsLoaded, NeverNull
<1> QED
  BY <1>1, <1>2, <1>3

\* A guard that is dropped passes to a waiter, who becomes the holder.
LEMMA DropGuardReaders ==
  ASSUME TypeOK, WaitInv, ReadersInv, NEW c \in Calls, NEW next \in {"idle", "panicked"},
         pc[c] \notin WaitPcs,
         DropGuard(c, next), UNCHANGED <<store, call, ret>>
  PROVE  ReadersInv'
<1>0. None \notin Calls
  BY BufferStorageAssumption
<1> USE DEF TypeOK, ReadersInv, store, call, ReaderPcs
<1>1. CASE /\ Waiters(c) = {} /\ UNCHANGED waitOn
           /\ holder' = [holder EXCEPT ![arg[c]] = IF @ = c THEN None ELSE @]
           /\ pc' = [pc EXCEPT ![c] = next]
  <2>1. GuardsHold'
    BY <1>0, <1>1 DEF GuardsHold, GetGuardPcs
  <2> QED
    BY <1>1, <2>1
       DEF DropGuard, ReadersOnly, MemoryStays, PublishedStays, CachedIsLoaded, NeverNull
<1>2. ASSUME NEW w \in Waiters(c),
             holder' = [holder EXCEPT ![arg[c]] = IF @ = c THEN w ELSE @],
             pc' = [pc EXCEPT ![c] = next,
                              ![w] = IF pc[w] = "wait" THEN "read" ELSE AfterClaim(w)]
      PROVE  ReadersInv'
  <2>1. w \in Calls /\ w # c /\ pc[w] = "wait" /\ arg[w] = arg[c] /\ HoldsGuard(c)
    BY <1>0 DEF Waiters, WaitInv, OnlyWaitersWait, WaitersRemembered, WaitPcs, ReadersOnly
  <2>2. holder[arg[c]] = c
    BY <2>1 DEF HoldsGuard, ReadersOnly, GuardsHold, PersistOps
  <2>3. pc' = [pc EXCEPT ![c] = next, ![w] = "read"]
    BY <1>2, <2>1
  <2>4. GuardsHold'
    BY <1>0, <1>2, <2>1, <2>2, <2>3 DEF GuardsHold, GetGuardPcs
  <2> QED
    BY <2>1, <2>3, <2>4
       DEF DropGuard, ReadersOnly, MemoryStays, PublishedStays, CachedIsLoaded, NeverNull
<1> QED
  BY <1>1, <1>2 DEF DropGuard

LEMMA CacheLoadedReaders ==
  ASSUME TypeOK, WaitInv, ReadersInv, NEW c \in Calls, CacheLoaded(c)
  PROVE  ReadersInv'
<1>0. /\ pc[c] = "insert" /\ UNCHANGED <<slab, meta, call>> /\ None \notin Calls
      /\ GuardInsert(c, "idle")
  BY BufferStorageAssumption DEF CacheLoaded, AfterGet, ReadersInv, ReadersOnly
<1> DEFINE b == arg[c]
<1>1. b \in Buffers /\ holder[b] = c /\ b \in loaded
  BY <1>0 DEF ReadersInv, GuardsHold, GetGuardPcs, PublishedStays, TypeOK
<1>2. PICK V \in Victims(b) : Insert(b, V) /\ \E n \in {"panicked", "idle"} : Wake(c, n)
  BY <1>0, <1>1 DEF GuardInsert
<1>3. /\ V \subseteq resident \cup {b}
      /\ resident' = (resident \cup {b}) \ V
      /\ holder' = [holder EXCEPT ![b] = None]
      /\ loaded' = loaded \ {v \in V : Present(v)}
  BY <1>2, VictimsAreEntries, <1>1 DEF Insert, OnEvict
<1>4. \A d \in Calls : pc'[d] \in {pc[d], "idle", "panicked"}
  BY <1>2 DEF Wake, AfterWait, AfterGet, Waiters, WaitInv, OnlyWaitersWait, WaitPcs,
              ReadersInv, ReadersOnly, TypeOK
<1>5. pc'[c] \in {"idle", "panicked"} /\ op' = op /\ arg' = arg
  BY <1>0, <1>2 DEF Wake, call
<1>6. \A d \in Calls : pc'[d] \in GetGuardPcs => pc[d] \in GetGuardPcs /\ arg[d] # b
  BY <1>0, <1>1, <1>4, <1>5 DEF ReadersInv, GuardsHold, GetGuardPcs
<1>7. ReadersOnly'
  BY <1>4, <1>5 DEF ReadersInv, ReadersOnly, ReaderPcs
<1>8. MemoryStays'
  BY <1>0, <1>4, <1>5 DEF ReadersInv, MemoryStays
<1>9. GuardsHold'
  BY <1>3, <1>5, <1>6 DEF ReadersInv, GuardsHold, TypeOK
<1>10. PublishedStays'
  <2> SUFFICES ASSUME NEW d \in Calls, pc'[d] \in {"insert", "lost"}
               PROVE  arg[d] \in loaded'
    BY <1>5 DEF PublishedStays
  <2>1. pc[d] = pc'[d] /\ arg[d] # b /\ arg[d] \in Buffers
    BY <1>4, <1>6 DEF GetGuardPcs, TypeOK
  <2>2. holder[arg[d]] = d
    BY <2>1 DEF ReadersInv, GuardsHold, GetGuardPcs
  <2>3. arg[d] \notin resident /\ arg[d] \in loaded
    BY <1>0, <2>1, <2>2 DEF WaitInv, PlaceholderOwned, ReadersInv, PublishedStays
  <2> QED
    BY <1>3, <2>1, <2>3
<1>11. CachedIsLoaded'
  BY <1>1, <1>3 DEF ReadersInv, CachedIsLoaded
<1>12. NeverNull'
  BY <1>2 DEF Wake, ReadersInv, NeverNull
<1> QED
  BY <1>7, <1>8, <1>9, <1>10, <1>11, <1>12 DEF ReadersInv

LEMMA StepReaders ==
  ASSUME TypeOK, WaitInv, OnlyCopyKept, ReadersInv, NEW c \in Calls, Step(c)
  PROVE  ReadersInv'
<1>0. /\ pc[c] \in ReaderPcs /\ op[c] \in {"none", "get", "get_async"}
      /\ AfterGet(c) = "idle" /\ arg[c] \in Buffers
      /\ op = [op EXCEPT ![c] = op[c]] /\ arg = [arg EXCEPT ![c] = arg[c]]
      /\ ret = [ret EXCEPT ![c] = ret[c]]
  BY DEF ReadersInv, ReadersOnly, AfterGet, TypeOK
<1>1. CASE ReadMemory(c)
  <2>1. arg[c] \in loaded
    BY <1>0, <1>1 DEF ReadMemory, ReadersInv, MemoryStays, OnlyCopyKept
  <2>2. /\ pc' = [pc EXCEPT ![c] = "idle"] /\ ret' = [ret EXCEPT ![c] = "value"]
        /\ UNCHANGED <<store, entries, call>>
    BY <1>0, <1>1, <2>1 DEF ReadMemory
  <2> QED
    BY <1>0, <2>2, QuietReaders DEF store, call, ReaderPcs, GetGuardPcs
<1>2. CASE Request(c)
  BY <1>2, RequestReaders
<1>3. CASE Publish(c)
  <2>1. PICK next \in {"lost", "insert"} : pc' = [pc EXCEPT ![c] = next]
    BY <1>3 DEF Publish
  <2>2. pc[c] \in GetGuardPcs /\ loaded' = loaded \cup {arg[c]}
        /\ UNCHANGED <<slab, meta, entries, call, ret>>
    BY <1>3 DEF Publish, GetGuardPcs
  <2>3. ReadersOnly' /\ MemoryStays' /\ GuardsHold'
    BY <2>1, <2>2 DEF ReadersInv, ReadersOnly, ReaderPcs, MemoryStays, GuardsHold,
                      GetGuardPcs, TypeOK, entries, call
  <2>4. PublishedStays' /\ CachedIsLoaded' /\ NeverNull'
    BY <2>1, <2>2 DEF ReadersInv, PublishedStays, CachedIsLoaded, NeverNull, TypeOK,
                      entries, call
  <2> QED
    BY <2>3, <2>4 DEF ReadersInv
<1>4. CASE PublishRemoved(c) \/ PublishUnheard(c) \/ ReadFails(c) \/ Release(c)
  <2>1. pc[c] \notin WaitPcs
    BY <1>4 DEF PublishRemoved, PublishUnheard, ReadFails, Release, WaitPcs
  <2> QED
    BY <1>0, <1>4, <2>1, DropGuardReaders DEF PublishRemoved, PublishUnheard, ReadFails, Release
<1>5. CASE CacheLoaded(c)
  BY <1>5, CacheLoadedReaders
<1>6. CASE TakeOther(c)
  <2>1. pc[c] = "lost" /\ arg[c] \in loaded
    BY <1>6 DEF TakeOther, ReadersInv, PublishedStays
  <2>2. /\ pc' = [pc EXCEPT ![c] = "release"] /\ ret' = [ret EXCEPT ![c] = "value"]
        /\ UNCHANGED <<store, entries, call>>
    BY <1>6, <2>1 DEF TakeOther
  <2> QED
    BY <1>0, <2>1, <2>2, QuietReaders DEF store, call, ReaderPcs, GetGuardPcs
<1> QED
  BY <1>0, <1>1, <1>2, <1>3, <1>4, <1>5, <1>6
     DEF Step, Lookup, LoadPublish, LoadFails, LoadInsert, Claim, WriteDone, WriteFails,
         WritePanics, Commit, ReaderPcs

LEMMA ReadersInvariant ==
  ASSUME ReadOnly
  PROVE  Spec => []ReadersInv
<1>1. Init => ReadersInv
  BY DEF Init, ReadersInv, ReadersOnly, ReaderPcs, MemoryStays, GuardsHold, GetGuardPcs,
         PublishedStays, CachedIsLoaded, NeverNull
<1>2. TypeOK /\ WaitInv /\ OnlyCopyKept /\ ReadersInv /\ [Next]_vars => ReadersInv'
  <2> SUFFICES ASSUME TypeOK, WaitInv, OnlyCopyKept, ReadersInv, [Next]_vars
               PROVE  ReadersInv'
    OBVIOUS
  <2>1. ASSUME NEW b \in Buffers, NEW m \in {"Memory", "LocalStorage"}, Add(b, m)
        PROVE  ReadersInv'
    BY <2>1 DEF Add, TypeOK, ReadersInv, ReadersOnly, MemoryStays, GuardsHold,
                PublishedStays, CachedIsLoaded, NeverNull, entries, call
  <2>2. ASSUME NEW b \in Buffers PROVE ~Remove(b)
    BY DEF Remove, ReadOnly
  <2>3. CASE UNCHANGED vars
    BY <2>3 DEF vars, ReadersInv, ReadersOnly, MemoryStays, GuardsHold, PublishedStays,
                CachedIsLoaded, NeverNull
  <2> QED
    BY <2>1, <2>2, <2>3, StartReaders, StepReaders DEF Next
<1> QED
  BY <1>1, <1>2, TypeCorrect, WaitInvInvariant, OnlyCopyIsKept, PTL DEF Spec

-----------------------------------------------------------------------------

\* While clients only read, the file of a buffer is read by one call at a time,
\* however many ask for it: guards are placeholders, and there is one of those.
THEOREM SingleFlightHolds ==
  ASSUME ReadOnly
  PROVE  Spec => []SingleFlight
<1>1. ReadersInv => SingleFlight
  BY DEF ReadersInv, GuardsHold, SingleFlight
<1> QED
  BY <1>1, ReadersInvariant, PTL

\* While clients only read, what the cache holds the data slots hold too.
THEOREM CachedIsLoadedHolds ==
  ASSUME ReadOnly
  PROVE  Spec => []CachedIsLoaded
<1>1. ReadersInv => CachedIsLoaded
  BY DEF ReadersInv
<1> QED
  BY <1>1, ReadersInvariant, PTL

\* While clients only read, no call answers with a null buffer: what a lost race
\* left in the data slot cannot be evicted before it is taken.
THEOREM NeverNullHolds ==
  ASSUME ReadOnly
  PROVE  Spec => []NeverNull
<1>1. ReadersInv => NeverNull
  BY DEF ReadersInv
<1> QED
  BY <1>1, ReadersInvariant, PTL

-----------------------------------------------------------------------------
(* The steps of the storage are steps of DemandCache. *)

\* What the steps of a call rest on: the file of a buffer is read on behalf of
\* its placeholder, and only a disk-backed buffer has one.
DemandInv == TypeOK /\ WaitInv /\ DataInv /\ ReadersInv

\* Every buffer stays where it is, or one of them moves as DemandCache has it.
Moves(b, from, to) == Demanded(b) = from /\ Demanded(b)' = to
MayMove(b) ==
  \/ Moves(b, "out", "loading") \/ Moves(b, "loading", "in")
  \/ Moves(b, "loading", "out") \/ Moves(b, "in", "out")
Stays(b) == Demanded(b)' = Demanded(b)

LEMMA OneMove ==
  ASSUME NEW b \in Buffers, Stays(b) \/ MayMove(b),
         \A d \in Buffers \ {b} : Stays(d)
  PROVE  [Demand!Next]_[d \in Buffers |-> Demanded(d)]
<1>1. CASE Stays(b)
  BY <1>1 DEF Stays
<1>2. ASSUME NEW from, NEW to, Moves(b, from, to)
      PROVE  Demand!Move(b, from, to)
  BY <1>2 DEF Moves, Stays, Demand!Move
<1>3. CASE MayMove(b)
  BY <1>2, <1>3 DEF MayMove, Demand!Next, Demand!BeginLoad, Demand!Loaded, Demand!GiveUp,
                    Demand!Evict
<1> QED
  BY <1>1, <1>3

\* In a step that leaves metadata alone, a buffer moves as its data slot and its
\* placeholder say.
LEMMA StayOrMove ==
  ASSUME DemandInv, NEW b \in Buffers, meta'[b] = meta[b]
  PROVE  /\ (b \in loaded <=> b \in loaded') /\ (holder[b] = None <=> holder'[b] = None)
            => Stays(b)
         /\ b \in loaded /\ (b \in loaded' \/ holder'[b] = None) => Stays(b) \/ MayMove(b)
         /\ b \notin loaded /\ holder[b] # None => Stays(b) \/ MayMove(b)
         /\ b \notin loaded \cup loaded' => Stays(b) \/ MayMove(b)
BY DEF Stays, MayMove, Moves, Demanded

LEMMA HolderOnDisk ==
  ASSUME DemandInv, NEW b \in Buffers, holder[b] # None
  PROVE  meta[b] = "LocalStorage" /\ b \notin resident /\ arg[holder[b]] = b
BY DEF DemandInv, WaitInv, PlaceholderOwned, HoldsGuard, ReadersInv, ReadersOnly, PersistOps,
       GetGuardPcs, DataInv, OnDisk, DiskPcs, TypeOK

LEMMA DropGuardMoves ==
  ASSUME DemandInv, NEW c \in Calls, NEW next, DropGuard(c, next), UNCHANGED store
  PROVE  [Demand!Next]_[d \in Buffers |-> Demanded(d)]
<1>1. arg[c] \in Buffers
  BY DEF DemandInv, TypeOK
<1>2. \A b \in Buffers : meta'[b] = meta[b] /\ (b \in loaded <=> b \in loaded')
  BY DEF store
<1>3. \A b \in Buffers \ {arg[c]} : holder'[b] = holder[b]
  BY DEF DropGuard, DemandInv, TypeOK
<1>4. holder[arg[c]] = None => holder'[arg[c]] = None
  BY <1>1, BufferStorageAssumption DEF DropGuard, DemandInv, TypeOK
<1> QED
  BY <1>1, <1>2, <1>3, <1>4, StayOrMove, OneMove

LEMMA CacheLoadedMoves ==
  ASSUME DemandInv, NEW c \in Calls, CacheLoaded(c)
  PROVE  [Demand!Next]_[d \in Buffers |-> Demanded(d)]
<1> DEFINE b == arg[c]
<1>1. /\ b \in Buffers /\ holder[b] = c /\ c # None /\ b \in loaded
      /\ GuardInsert(c, AfterGet(c)) /\ UNCHANGED <<slab, meta>>
  BY BufferStorageAssumption
     DEF CacheLoaded, DemandInv, TypeOK, ReadersInv, GuardsHold, GetGuardPcs, PublishedStays
<1>2. PICK V \in Victims(b) : Insert(b, V)
  BY <1>1 DEF GuardInsert
<1>3. /\ holder' = [holder EXCEPT ![b] = None]
      /\ loaded' = loaded \ {v \in V : Present(v)}
  BY <1>2 DEF Insert, OnEvict
<1>4. \A d \in Buffers \ {b} : holder'[d] = holder[d]
  BY <1>3 DEF DemandInv, TypeOK
<1>5. meta[b] = "LocalStorage"
  BY <1>1, HolderOnDisk
<1>6. PICK v \in resident \cup {b} : V \subseteq {v}
  BY <1>2 DEF Victims
<1>7. v \in Buffers /\ v \in loaded /\ holder'[v] = None
  BY <1>1, <1>3, HolderOnDisk DEF DemandInv, TypeOK, ReadersInv, CachedIsLoaded
<1>8. ASSUME NEW d \in Buffers \ {v} PROVE Stays(d)
  BY <1>1, <1>3, <1>4, <1>5, <1>6 DEF Stays, Demanded
<1>9. Stays(v) \/ MayMove(v)
  BY <1>1, <1>7, StayOrMove
<1> QED
  BY <1>7, <1>8, <1>9, OneMove

LEMMA StepMoves ==
  ASSUME DemandInv, NEW c \in Calls, Step(c)
  PROVE  [Demand!Next]_[d \in Buffers |-> Demanded(d)]
<1>0. /\ pc[c] \in ReaderPcs /\ op[c] \in {"none", "get", "get_async"} /\ arg[c] \in Buffers
      /\ c # None
  BY BufferStorageAssumption DEF DemandInv, ReadersInv, ReadersOnly, TypeOK
<1>1. CASE ReadMemory(c)
  <2>1. arg[c] \in loaded
    BY <1>0, <1>1 DEF ReadMemory, DemandInv, ReadersInv, MemoryStays, DataInv, OnlyCopyKept
  <2>2. UNCHANGED <<store, entries>>
    BY <1>1, <2>1 DEF ReadMemory
  <2> QED
    BY <1>0, <2>2, StayOrMove, OneMove DEF store, entries
<1>2. CASE Request(c)
  <2>1. /\ UNCHANGED store /\ \A b \in Buffers \ {arg[c]} : holder'[b] = holder[b]
        /\ holder[arg[c]] # None => holder' = holder
    BY <1>2 DEF Request, Acquire, entries, DemandInv, TypeOK
  <2>2. \A b \in Buffers \ {arg[c]} : Stays(b)
    BY <2>1, StayOrMove DEF store
  <2>3. Stays(arg[c]) \/ MayMove(arg[c])
    BY <1>0, <2>1, StayOrMove DEF store
  <2> QED
    BY <1>0, <2>2, <2>3, OneMove
<1>3. CASE Publish(c)
  <2>1. /\ UNCHANGED <<slab, meta, holder>> /\ loaded' = loaded \cup {arg[c]}
        /\ holder[arg[c]] = c
    BY <1>3 DEF Publish, entries, DemandInv, ReadersInv, GuardsHold, GetGuardPcs
  <2>2. \A b \in Buffers \ {arg[c]} : Stays(b)
    BY <2>1, StayOrMove
  <2>3. Stays(arg[c]) \/ MayMove(arg[c])
    BY <1>0, <2>1, StayOrMove
  <2> QED
    BY <1>0, <2>2, <2>3, OneMove
<1>4. CASE PublishRemoved(c) \/ PublishUnheard(c) \/ ReadFails(c) \/ Release(c)
  BY <1>4, DropGuardMoves DEF PublishRemoved, PublishUnheard, ReadFails, Release
<1>5. CASE CacheLoaded(c)
  BY <1>5, CacheLoadedMoves
<1>6. CASE TakeOther(c)
  BY <1>0, <1>6, StayOrMove, OneMove DEF TakeOther, store, entries
<1> QED
  BY <1>0, <1>1, <1>2, <1>3, <1>4, <1>5, <1>6
     DEF Step, Lookup, LoadPublish, LoadFails, LoadInsert, Claim, WriteDone, WriteFails,
         WritePanics, Commit, ReaderPcs

\* While clients only read, the storage implements DemandCache but for its
\* fairness: what is in memory was loaded under a placeholder, one buffer at a
\* time moves, and eviction is the only way out.
THEOREM DemandCacheImplemented ==
  ASSUME ReadOnly
  PROVE  Spec => Demand!Safety
<1>1. Init => Demand!Init
  BY DEF Init, Demand!Init, Demanded
<1>2. DemandInv /\ [Next]_vars => [Demand!Next]_[b \in Buffers |-> Demanded(b)]
  <2> SUFFICES ASSUME DemandInv, [Next]_vars
               PROVE  [Demand!Next]_[b \in Buffers |-> Demanded(b)]
    OBVIOUS
  <2>1. ASSUME NEW b \in Buffers, NEW m \in {"Memory", "LocalStorage"}, Add(b, m)
        PROVE  [Demand!Next]_[d \in Buffers |-> Demanded(d)]
    <3>1. meta[b] = "Memory" /\ holder[b] = None
      BY <2>1, HolderOnDisk DEF Add, DemandInv, DataInv, UnaddedUntouched
    <3>2. \A d \in Buffers : Stays(d)
      BY <2>1, <3>1 DEF Add, DemandInv, TypeOK, DataInv, UnaddedUntouched, Stays, Demanded, entries
    <3> QED
      BY <3>2 DEF Stays
  <2>2. ASSUME NEW b \in Buffers PROVE ~Remove(b)
    BY DEF Remove, ReadOnly
  <2>3. ASSUME NEW c \in Calls, NEW b \in Buffers, Start(c, b)
        PROVE  UNCHANGED <<store, entries>>
    BY <2>3 DEF Start, StartGet, StartGetAsync, StartLoad, StartPersist, Begin
  <2>4. UNCHANGED <<store, entries>> => [Demand!Next]_[d \in Buffers |-> Demanded(d)]
    BY DEF store, entries, Demanded
  <2>5. CASE UNCHANGED vars
    BY <2>4, <2>5 DEF vars, store, entries
  <2> QED
    BY <2>1, <2>2, <2>3, <2>4, <2>5, StepMoves DEF Next
<1> QED
  BY <1>1, <1>2, TypeCorrect, WaitInvInvariant, DataInvInvariant, ReadersInvariant, PTL
     DEF Spec, Demand!Safety, DemandInv
=============================================================================
