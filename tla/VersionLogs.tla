----------------------------- MODULE VersionLogs -----------------------------
(***************************************************************************)
(* A resource as the operator meets it: the API server holds its current    *)
(* version, the informer cache an earlier one.  The history of the resource *)
(* is a log, whose head is what the cache holds and whose last entry is     *)
(* what the API server holds; the entries between are events on their way.  *)
(* A resource version is an opaque token, only ever compared for equality.  *)
(***************************************************************************)
EXTENDS Naturals, Sequences

CONSTANTS
    Absent,         \* no such resource
    Versions        \* resource versions

Cached(log) == Head(log)
Api(log) == log[Len(log)]
Delivered(log) == Len(log) = 1

\* The versions in circulation: a new one differs from all of them.
VersionsIn(log) == {log[i].version : i \in {j \in 1..Len(log) : log[j] # Absent}}

FreshVersions(used) ==
    IF Versions \ used = {} THEN {} ELSE {CHOOSE v \in Versions \ used : TRUE}
=============================================================================
