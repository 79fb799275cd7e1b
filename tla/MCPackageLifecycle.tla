------------------------- MODULE MCPackageLifecycle -------------------------
(***************************************************************************)
(* Instances of PackageLifecycle for TLC: what may fail and what the       *)
(* package manager may call in a run.                                      *)
(***************************************************************************)
EXTENDS PackageLifecycle

\* What the daemon itself calls; setup() and cleanup() are only in the API.
DaemonOps  == {"StartRequested", "StopRequested", "Upgrading", "Teardown"}
RunOps     == {"StartRequested", "StopRequested"}
UpgradeOps == RunOps \cup {"Upgrading"}
\* One start, initialize()'s: every other operation of the API in any order.
SetupOps   == Operations \ {"StartRequested"}

SetupFaults   == {"exec", "mount", "unmount", "prepare", "net"}
SystemdFaults == {"dbus", "monitor", "external"}
=============================================================================
