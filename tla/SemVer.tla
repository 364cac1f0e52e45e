------------------------------- MODULE SemVer -------------------------------
(***************************************************************************)
(* Versions without pre-releases and the caret requirement of the semver   *)
(* crate, the only comparator the api registry builds                      *)
(* (bubble_core/src/api/api_registry_api.rs).                              *)
(***************************************************************************)
EXTENDS Naturals

CONSTANT Versions   (* the versions that occur                             *)

Version == [major : Nat, minor : Nat, patch : Nat]

ASSUME VersionsAssumption == Versions \subseteq Version

V(i, j, k) == [major |-> i, minor |-> j, patch |-> k]

\* The order of max_by(version.cmp).
Leq(a, b) ==
  \/ a.major < b.major
  \/ a.major = b.major /\ a.minor < b.minor
  \/ a.major = b.major /\ a.minor = b.minor /\ a.patch <= b.patch

\* Version a satisfies the requirement ^r.
Caret(r, a) ==
  /\ a.major = r.major
  /\ Leq(r, a)
  /\ r.major = 0 => a.minor = r.minor
  /\ r.major = 0 /\ r.minor = 0 => a.patch = r.patch
=============================================================================
