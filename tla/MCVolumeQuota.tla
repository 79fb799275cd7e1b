--------------------------- MODULE MCVolumeQuota ---------------------------
(***************************************************************************)
(* Instances of VolumeQuota for TLC: a package with versions of two limits *)
(* and one that does not build, and another package.                       *)
(***************************************************************************)
EXTENDS VolumeQuota

CONSTANTS a, b

Release(n, limit, builds) == [name |-> n, limit |-> limit, builds |-> builds]
Releases == {Release(a, 0, TRUE), Release(a, 1, TRUE), Release(a, 0, FALSE),
             Release(b, 1, TRUE)}

\* What may fail together.
Environments == {{"grant"}, {"copy", "clear", "cleanup"}, {"build", "restore"},
                 {"quota"}, {"scan"}, {"remove"}, {"cut"}}
=============================================================================
