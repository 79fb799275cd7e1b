--------------------------- MODULE MCNetworkActor ---------------------------
(***************************************************************************)
(* Instances of NetworkActor for TLC: two packages and two bridges, which  *)
(* any version of a package may ask for.                                   *)
(***************************************************************************)
EXTENDS NetworkActor, TLC

AnyBridge == [p \in Pkgs |-> Bridges]

\* What may fail together: the package's side, the deletion of links, the scan
\* at the start of the daemon, and a setup with its compensation.
Environments == {{"netns", "setup", "stop"}, {"netns", "delete", "stop"},
                 {"scan", "read", "lookup"}, {"setup", "delete"}}

Symmetry == Permutations(Pkgs) \cup Permutations(Bridges)
=============================================================================
