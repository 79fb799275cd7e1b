-------------------------- MODULE MCPackageDevices --------------------------
(***************************************************************************)
(* Instances of PackageDevices for TLC.                                    *)
(***************************************************************************)
EXTENDS PackageDevices, TLC

\* What happens together: competition for loop devices, errors of the two
\* attempts and their undoing, devices that are not released, crashes.
Environments == {{"host", "again"}, {"attach", "dm"}, {"mount", "umount"},
                 {"release"}, {"crash"}}
Crashes      == {{"crash"}}
=============================================================================
