-------------------------- MODULE MC_PackageInstall --------------------------
(* Model checking of PackageInstall: two pinned commits and one archive    *)
(* compete for one install id.                                             *)
EXTENDS PackageInstall

CONSTANTS v1, v2, a1

Entries == {[source |-> "git", ref |-> v1], [source |-> "git", ref |-> v2],
            [source |-> "archive", ref |-> a1]}
=============================================================================
