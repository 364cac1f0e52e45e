---------------------------- MODULE ApiRegistry ----------------------------
(***************************************************************************)
(* The apis of one name in the api registry of bubble_core                 *)
(* (bubble_core/src/api/api_registry_api.rs): a map from versions to       *)
(* handles, under a readers-writer lock, and dependency contexts.          *)
(*                                                                         *)
(* A handle is an Rc of an atomic pointer to an api, shared by everyone    *)
(* who was given it.  An api comes in a handle of its own, named here by   *)
(* the api; the other handles are the null placeholders that get creates.  *)
(* The map is read and written under the lock; a handle is read without.   *)
(***************************************************************************)
EXTENDS SemVer

CONSTANTS
  Apis,          (* the api objects that plugins build              *)
  VersionOf,     (* VersionOf[a]: the version api a implements      *)
  Placeholders,  (* the handles that get can create                 *)
  Threads,
  Wanted,        (* the versions that clients ask for               *)
  Deps,          (* dependency ids; an id is never reused           *)
  None

Handles == Apis \cup Placeholders

ASSUME ApiRegistryAssumption ==
  /\ VersionOf \in [Apis -> Versions]
  /\ Wanted \subseteq Versions
  /\ Apis \cap Placeholders = {}
  /\ None \notin Handles \cup Threads \cup Deps

VARIABLES
  inner_apis,  (* inner_apis[v]: the handle of entry v, if there is one      *)
  target,      (* target[h]: the api that handle h points to, or null        *)
  writer,      (* the thread that has the write lock of the map              *)
  poisoned,    (* a thread panicked while it had the write lock              *)
  deps,        (* deps[d]: the state of a dependency context                 *)
  pc,          (* pc[t]: what the call of thread t does next                 *)
  want,        (* want[t]: the version of t's call                           *)
  handle,      (* handle[t]: the handle t registers, and then the one it has *)
  dep,         (* dep[t]: the dependency id of a set                         *)
  todo         (* todo[t]: the entries a set has still to overwrite          *)

vars == <<inner_apis, target, writer, poisoned, deps, pc, want, handle, dep, todo>>

Init ==
  /\ inner_apis = [v \in Versions |-> None]
  /\ target = [h \in Handles |-> IF h \in Apis THEN h ELSE None]
  /\ writer = None
  /\ poisoned = FALSE
  /\ deps = [d \in Deps |-> "unmade"]
  /\ pc = [t \in Threads |-> "idle"]
  /\ want \in [Threads -> Versions]
  /\ \A t, u \in Threads : want[t] = want[u]
  /\ handle = [t \in Threads |-> None]
  /\ dep = [t \in Threads |-> None]
  /\ todo = [t \in Threads |-> {}]

Registered(v) == inner_apis[v] # None

\* The entries whose version satisfies a request for v.
Matches(v) == {u \in Versions : Registered(u) /\ Caret(v, u)}

\* record_dep unwraps the context of the id.
Recorded(d) == d \in {None} \cup {x \in Deps : deps[x] = "live"}

\* A client passes no id, or one it was once given.
Offered(d) == d \in {None} \cup {x \in Deps : deps[x] # "unmade"}

\* Call of thread t for version v; the map is not locked.
Enter(t, v, d) ==
  /\ pc[t] = "idle"
  /\ writer = None
  /\ Offered(d)
  /\ want' = [want EXCEPT ![t] = v]

\* The call of t returns handle h.
Return(t, h) ==
  /\ pc' = [pc EXCEPT ![t] = "idle"]
  /\ handle' = [handle EXCEPT ![t] = h]

\* The call of t panics: a poisoned lock or a missing context is unwrapped.
Panic(t) ==
  /\ pc' = [pc EXCEPT ![t] = "panicked"]
  /\ handle' = [handle EXCEPT ![t] = None]

-----------------------------------------------------------------------------
(* get and get_optional *)

\* The lookup under the read lock, whose guard poisons nothing: the greatest
\* version that satisfies the request, whatever its handle points to.
Lookup(t, v) ==
  \E u \in Matches(v) :
    /\ \A w \in Matches(v) : Leq(w, u)
    /\ Return(t, inner_apis[u])

\* find: without a match the lock is given up and taken again for writing.
Find(t, v, d) ==
  /\ Enter(t, v, d)
  /\ \/ /\ poisoned \/ ~Recorded(d)
        /\ Panic(t)
     \/ /\ ~poisoned /\ Recorded(d)
        /\ Lookup(t, v)
     \/ /\ ~poisoned /\ Recorded(d)
        /\ Matches(v) = {}
        /\ pc' = [pc EXCEPT ![t] = "insert"]
        /\ handle' = [handle EXCEPT ![t] = None]
  /\ UNCHANGED <<inner_apis, target, writer, poisoned, deps, dep, todo>>

\* Nobody has the handle, and the registry does not.
Unused(h) ==
  /\ \A v \in Versions : inner_apis[v] # h
  /\ \A t \in Threads : handle[t] # h

\* or_insert_with: a placeholder, unless the very version is an entry by now.
Insert(t) ==
  /\ pc[t] = "insert"
  /\ writer = None
  /\ \/ /\ poisoned
        /\ Panic(t)
        /\ UNCHANGED <<inner_apis, target>>
     \/ /\ ~poisoned
        /\ Registered(want[t])
        /\ Return(t, inner_apis[want[t]])
        /\ UNCHANGED <<inner_apis, target>>
     \/ /\ ~poisoned
        /\ ~Registered(want[t])
        /\ \E p \in Placeholders :
             /\ Unused(p)
             /\ inner_apis' = [inner_apis EXCEPT ![want[t]] = p]
             /\ target' = [target EXCEPT ![p] = None]
             /\ Return(t, p)
  /\ UNCHANGED <<writer, poisoned, deps, want, dep, todo>>

GetOptional(t, v, d) ==
  /\ Enter(t, v, d)
  /\ \/ /\ poisoned \/ ~Recorded(d)
        /\ Panic(t)
     \/ /\ ~poisoned /\ Recorded(d)
        /\ Lookup(t, v)
     \/ /\ ~poisoned /\ Recorded(d)
        /\ Matches(v) = {}
        /\ Return(t, None)
  /\ UNCHANGED <<inner_apis, target, writer, poisoned, deps, dep, todo>>

-----------------------------------------------------------------------------
(* set *)

\* Mutant: the comparator and the version it is given change places.
CompatibleSwapped(w) == {v \in Versions \ {w} : Registered(v) /\ Caret(w, v)}

\* The entries of other versions that api version w satisfies.
Compatible(w) == {v \in Versions \ {w} : Registered(v) /\ Caret(v, w)}

\* A plugin registers api a in its own handle, which must still point to an
\* api of that version; the entries to overwrite are collected at once.
Set(t, a, d) ==
  /\ Enter(t, VersionOf[a], d)
  /\ VersionOf[target[a]] = VersionOf[a]
  /\ \/ /\ poisoned
        /\ Panic(t)
        /\ UNCHANGED <<writer, dep, todo>>
     \/ /\ ~poisoned
        /\ writer' = t
        /\ pc' = [pc EXCEPT ![t] = "store"]
        /\ handle' = [handle EXCEPT ![t] = a]
        /\ dep' = [dep EXCEPT ![t] = d]
        /\ todo' = [todo EXCEPT ![t] = Compatible(VersionOf[a])]
  /\ UNCHANGED <<inner_apis, target, poisoned, deps>>

\* One entry is overwritten: everyone who has its handle sees the new api.
Replace(t) ==
  /\ pc[t] = "store"
  /\ \E v \in todo[t] :
       /\ target' = [target EXCEPT ![inner_apis[v]] = target[handle[t]]]
       /\ todo' = [todo EXCEPT ![t] = @ \ {v}]
  /\ UNCHANGED <<inner_apis, writer, poisoned, deps, pc, want, handle, dep>>

\* The lock goes, poisoned when the dependency could not be recorded.
Unlock(t, d, h) ==
  /\ writer' = None
  /\ \/ Recorded(d) /\ Return(t, h) /\ UNCHANGED poisoned
     \/ ~Recorded(d) /\ Panic(t) /\ poisoned' = TRUE

\* Mutant: an entry of the version itself is left as it is.
RegisterIfAbsent(t) ==
  LET w == want[t] IN
  /\ pc[t] = "store"
  /\ todo[t] = {}
  /\ \/ /\ Registered(w)
        /\ Unlock(t, dep[t], inner_apis[w])
        /\ UNCHANGED inner_apis
     \/ /\ ~Registered(w)
        /\ inner_apis' = [inner_apis EXCEPT ![w] = handle[t]]
        /\ Unlock(t, dep[t], handle[t])
  /\ UNCHANGED <<target, deps, want, dep, todo>>

\* The entry of the version itself is overwritten, or made of the handle.
Register(t) ==
  LET w == want[t] IN
  /\ pc[t] = "store"
  /\ todo[t] = {}
  /\ \/ /\ Registered(w)
        /\ target' = [target EXCEPT ![inner_apis[w]] = target[handle[t]]]
        /\ Unlock(t, dep[t], inner_apis[w])
        /\ UNCHANGED inner_apis
     \/ /\ ~Registered(w)
        /\ inner_apis' = [inner_apis EXCEPT ![w] = handle[t]]
        /\ Unlock(t, dep[t], handle[t])
        /\ UNCHANGED target
  /\ UNCHANGED <<deps, want, dep, todo>>

-----------------------------------------------------------------------------
(* remove, shutdown and the dependency contexts *)

\* Mutant: who still has the handle loses the api as well.
RemoveToNull(t, v, d) ==
  /\ Enter(t, v, d)
  /\ \/ /\ poisoned
        /\ Panic(t)
        /\ UNCHANGED <<inner_apis, target, writer, poisoned>>
     \/ /\ ~poisoned
        /\ inner_apis' = [inner_apis EXCEPT ![v] = None]
        /\ target' = [h \in Handles |-> IF h = inner_apis[v] THEN None ELSE target[h]]
        /\ Unlock(t, d, inner_apis[v])
  /\ UNCHANGED <<deps, dep, todo>>

\* Exactly the entry of version v goes; the caller gets its handle.
Remove(t, v, d) ==
  /\ Enter(t, v, d)
  /\ \/ /\ poisoned
        /\ Panic(t)
        /\ UNCHANGED <<inner_apis, writer, poisoned>>
     \/ /\ ~poisoned
        /\ inner_apis' = [inner_apis EXCEPT ![v] = None]
        /\ Unlock(t, d, inner_apis[v])
  /\ UNCHANGED <<target, deps, dep, todo>>

\* The maps are cleared, the handles are left as they are: the trait's comment
\* has it that all internal pointers become null.
Shutdown ==
  /\ writer = None
  /\ ~poisoned
  /\ inner_apis' = [v \in Versions |-> None]
  /\ UNCHANGED <<target, writer, poisoned, deps, pc, want, handle, dep, todo>>

GetDepContext(d) ==
  /\ deps[d] = "unmade"
  /\ deps' = [deps EXCEPT ![d] = "live"]
  /\ UNCHANGED <<inner_apis, target, writer, poisoned, pc, want, handle, dep, todo>>

\* Mutant: the slot is free again for an id of the same generation.
RemoveDepContextReused(d) ==
  /\ deps[d] = "live"
  /\ deps' = [deps EXCEPT ![d] = "free"]
  /\ UNCHANGED <<inner_apis, target, writer, poisoned, pc, want, handle, dep, todo>>

\* It takes no lock: a call that was given the id may be on its way.
RemoveDepContext(d) ==
  /\ deps[d] = "live"
  /\ deps' = [deps EXCEPT ![d] = "removed"]
  /\ UNCHANGED <<inner_apis, target, writer, poisoned, pc, want, handle, dep, todo>>

-----------------------------------------------------------------------------
(* Specification *)

Call(t, d) ==
  \/ \E v \in Wanted : Find(t, v, d) \/ GetOptional(t, v, d)
  \/ \E a \in Apis : Set(t, a, d)
  \/ \E v \in Versions : Remove(t, v, d)

Step(t) == Insert(t) \/ Replace(t) \/ Register(t)

Next ==
  \/ \E t \in Threads, d \in Deps \cup {None} : Call(t, d)
  \/ \E t \in Threads : Step(t)
  \/ \E d \in Deps : GetDepContext(d) \/ RemoveDepContext(d)
  \/ Shutdown

Spec == Init /\ [][Next]_vars

-----------------------------------------------------------------------------
(* Properties *)

\* The range of every variable.
TypeOK ==
  /\ inner_apis \in [Versions -> Handles \cup {None}]
  /\ target \in [Handles -> Apis \cup {None}]
  /\ writer \in Threads \cup {None}
  /\ poisoned \in BOOLEAN
  /\ deps \in [Deps -> {"unmade", "live", "removed"}]
  /\ pc \in [Threads -> {"idle", "insert", "store", "panicked"}]
  /\ want \in [Threads -> Versions]
  /\ handle \in [Threads -> Handles \cup {None}]
  /\ dep \in [Threads -> Deps \cup {None}]
  /\ todo \in [Threads -> SUBSET Versions]

\* Whatever is set, removed and set again, and however late the handle is
\* read: a handle that was asked for version v points to null or to an api
\* that satisfies ^v.
HandleServes ==
  \A t \in Threads :
    handle[t] # None /\ target[handle[t]] # None =>
      Caret(want[t], VersionOf[target[handle[t]]])

\* "Though removed, plugins can still access the api if they have a reference
\* to it": no call takes an api away from who keeps its handle, neither a
\* removal nor a call that panics.  Only a set under way changes what the
\* handle points to, to its own api, of a version that satisfies the one the
\* handle was asked for.  Of shutdown, whose comment has it that all pointers
\* become null, nothing is said.
OnlySetsReplace ==
  [][\A t \in Threads :
       /\ ~Shutdown
       /\ handle[t] # None /\ handle'[t] = handle[t]
       /\ target[handle[t]] \notin {None, target'[handle[t]]}
       => \E u \in Threads :
            /\ pc[u] = "store"
            /\ target'[handle[t]] = target[handle[u]]
            /\ Caret(want[t], want[u])]_vars

\* "It will replace all compatible <name,version> entries with the new version
\* api": when a set gives up the lock, by returning or by panicking, every
\* entry the new version satisfies, its own included, points to the new api.
SetReachesEveryEntry ==
  [][\A t \in Threads :
       pc[t] = "store" /\ pc'[t] # "store" =>
         \A v \in Versions :
           inner_apis'[v] # None /\ Caret(v, want[t]) =>
             target'[inner_apis'[v]] = target[handle[t]]]_vars

-----------------------------------------------------------------------------
(* What the comments of the source claim *)

\* find "will return a Arc which points to a null pointer if the api not
\* found": it does not do so while a compatible entry points to an api.
NullMeansNotFound ==
  [][\A t \in Threads, v \in Wanted, d \in Deps \cup {None} :
       Find(t, v, d) /\ handle'[t] # None /\ target[handle'[t]] = None =>
         \A u \in Matches(v) : target[inner_apis[u]] = None]_vars

\* A placeholder "will be updated by other threads when the api is set": while
\* no set is under way, no null entry is left that a set api satisfies.
PlaceholdersFollow ==
  writer = None =>
    \A v, u \in Versions :
      /\ Registered(v)
      /\ Registered(u)
      /\ Caret(v, u)
      /\ target[inner_apis[u]] # None
      => target[inner_apis[v]] # None
=============================================================================
