--------------------------- MODULE PackageService ---------------------------
(***************************************************************************)
(* What a package promises to the rest of the daemon, without saying how:  *)
(* requests are carried out one at a time; each begins only where the      *)
(* transition table lets it, and ends in one of the outcomes its caller    *)
(* may see; and the file system of a package comes and goes only with the  *)
(* requests that are meant to mount or unmount it.                         *)
(*                                                                         *)
(* PackageLifecycle implements it, with the tasks, actors and systemd that *)
(* carry a request out; SsamDaemon is built on what it promises.           *)
(***************************************************************************)
EXTENDS PackageTransitions

\* Requests that are worked on; all others are answered at once.
Worked   == {"SettingUp", "StartRequested", "StopRequested", "CleaningUp",
             "Upgrading", "Teardown"}
Mounts   == {"SettingUp"}
Unmounts == {"SettingUp", "CleaningUp", "Upgrading", "Teardown"}

VARIABLES
    status,   \* the status of the package
    busy,     \* the request that is worked on, or "none"
    mounted   \* something is mounted at its mount point

vars == <<status, busy, mounted>>

TypeOK ==
    /\ status \in Statuses
    /\ busy \in Worked \cup {"none"}
    /\ mounted \in BOOLEAN

Init == status = "Verified" /\ busy = "none" /\ mounted \in BOOLEAN

\* A request that has to be worked on, and so has a status of its own.
Begin(r) ==
    /\ busy = "none" /\ r \in Worked \ {"Teardown"}
    /\ status \in From(r) \ {r} /\ ~Ignored(status, r)
    /\ status' = r /\ busy' = r
    /\ UNCHANGED mounted

\* A teardown is begun in any status.
BeginTeardown ==
    /\ busy = "none"
    /\ busy' = "Teardown"
    /\ UNCHANGED <<status, mounted>>

\* A status that is taken on at once: what the unit did, an error, or the
\* upgrade of a package that was never set up.
Become(s) ==
    /\ busy = "none"
    /\ status \in From(s)
    /\ \/ s \in Live \cup {"Cleaned", "Error", "Broken"}
       \/ s = "Upgrading" /\ status = "Verified"
    /\ status' = s
    /\ UNCHANGED <<busy, mounted>>

\* The file system comes or goes while a request for it is worked on.
Remount ==
    /\ \/ ~mounted /\ busy \in Mounts
       \/ mounted /\ busy \in Unmounts
    /\ mounted' = ~mounted
    /\ UNCHANGED <<status, busy>>

End ==
    /\ busy # "none"
    /\ status' \in EndsIn(busy, status)
    /\ mounted' \in EndsMounted(busy, status')
    /\ mounted' # mounted => mounted /\ busy \in Unmounts
    /\ busy' = "none"

Next == BeginTeardown \/ Remount \/ End
            \/ \E s \in Statuses : Begin(s) \/ Become(s)

Spec == Init /\ [][Next]_vars
=============================================================================
