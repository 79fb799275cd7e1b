--------------------------- MODULE PackageDevices ---------------------------
(***************************************************************************)
(* What a mounted package stands on: a loop device over its file, a        *)
(* dm-verity device over the loop device, the file system of that mounted  *)
(* at the package's mount point, and an overlay on top if one is           *)
(* configured.  Packages mount at the same time; one actor attaches loop   *)
(* devices, in competition with the processes of the host.                 *)
(*                                                                         *)
(* The daemon lets go of both devices as soon as the mount is there, or    *)
(* has failed: LOOP_CLR_FD and DM_DEFERRED_REMOVE leave it to the kernel   *)
(* to free a device with its last user (Reap).  Devices and mounts outlive *)
(* a daemon that dies.                                                     *)
(***************************************************************************)
EXTENDS Naturals, Sequences

CONSTANTS
    Pkgs,       \* packages
    Loops,      \* loop devices
    Devs,       \* device-mapper devices
    Overlay,    \* packages_overlayfs_root is configured
    BusyMax,    \* ATTACH_BUSY_MAX_RETRIES
    AgainMax,   \* ATTACH_WOULDBLOCK_MAX_RETRIES
    FaultSets   \* what may happen together, of DeviceFaults

DeviceFaults == {"host", "again", "attach", "dm", "mount", "umount", "release",
                 "crash"}

ASSUME DeviceConstantsOK ==
    /\ {"none", "host", "overlay"} \cap (Pkgs \cup Loops \cup Devs) = {}
    /\ Overlay \in BOOLEAN
    /\ BusyMax \in Nat /\ AgainMax \in Nat
    /\ FaultSets \subseteq SUBSET DeviceFaults

\* A loop device: who has bound it, whether the file it is bound to is the one
\* that is installed, and whether it is freed with its last user
\* (LO_FLAGS_AUTOCLEAR).
BoundTo(who) == [user |-> who, latest |-> TRUE, clear |-> FALSE]
Unbound == BoundTo("none")

\* A dm device: the loop device its table is on, and whether it is to be
\* removed with its last user (DM_DEFERRED_REMOVE).
Created == [state |-> "created", on |-> "none", deferred |-> FALSE]
NoDev   == [Created EXCEPT !.state = "none"]

\* What an attach has come to: the device it picked, and the errors so far.
NoTry == [dev |-> "none", busy |-> 0, again |-> 0]

VARIABLES
    loop,     \* loop[l]
    dm,       \* dm[d]
    stack,    \* stack[p]: what is mounted at the mount point of p, the bottom
              \* first: dm devices and "overlay"
    step,     \* step[p]: where the setup or teardown of p is
    held,     \* held[p]: the LoopDevice mount_pkgfs of p holds ...
    devOf,    \* ... and the VerityDevice
    made,     \* made[p]: its mount_device succeeded
    retried,  \* retried[p]: the setup of p has used its second attempt
    mailbox,  \* of the loop device actor, which serves the first in it
    try,      \* the state of that attach
    faults    \* what may happen in this behaviour

kernel == <<loop, dm, stack>>
tasks  == <<step, held, devOf, made, retried>>
actor  == <<mailbox, try>>
vars   == <<kernel, tasks, actor, faults>>

Resting  == {"verified", "up", "failed"}
Mounting == {"attach", "create", "load", "resume", "cleanup", "base", "overlay",
             "rollback", "drop_dm", "drop_loop", "lost", "unmount"}

TypeOK ==
    /\ loop \in [Loops -> [user : Pkgs \cup {"none", "host"},
                           latest : BOOLEAN, clear : BOOLEAN]]
    /\ dm \in [Devs -> [state : {"none", "created", "loaded", "active"},
                        on : Loops \cup {"none"}, deferred : BOOLEAN]]
    /\ stack \in [Pkgs -> Seq(Devs \cup {"overlay"})]
    /\ step \in [Pkgs -> Resting \cup Mounting \cup {"teardown"}]
    /\ held \in [Pkgs -> Loops \cup {"none"}]
    /\ devOf \in [Pkgs -> Devs \cup {"none"}]
    /\ made \in [Pkgs -> BOOLEAN] /\ retried \in [Pkgs -> BOOLEAN]
    /\ mailbox \in Seq(Pkgs)
    /\ try \in [dev : Loops \cup {"none"}, busy : 0..BusyMax, again : 0..AgainMax]
    /\ faults \in FaultSets

Init ==
    /\ loop = [l \in Loops |-> Unbound]
    /\ dm = [d \in Devs |-> NoDev]
    /\ stack = [p \in Pkgs |-> <<>>]
    /\ step = [p \in Pkgs |-> "verified"]
    /\ held = [p \in Pkgs |-> "none"] /\ devOf = [p \in Pkgs |-> "none"]
    /\ made = [p \in Pkgs |-> FALSE] /\ retried = [p \in Pkgs |-> FALSE]
    /\ mailbox = <<>> /\ try = NoTry
    /\ faults \in FaultSets

-----------------------------------------------------------------------------
(* The kernel *)

\* The dm devices that use a loop device, and the mounts that use a dm device.
UsersOf(l)  == {d \in Devs : dm[d].on = l}
MountsOf(d) == {p \in Pkgs : \E i \in DOMAIN stack[p] : stack[p][i] = d}

\* LOOP_CLR_FD on a device we hold: it is unbound at once if nobody else uses
\* it, and else with its last user.
Cleared(l) == IF UsersOf(l) = {} THEN Unbound ELSE [loop[l] EXCEPT !.clear = TRUE]

\* DM_DEV_REMOVE with DM_DEFERRED_REMOVE.
Removed(d) == IF MountsOf(d) = {} THEN NoDev ELSE [dm[d] EXCEPT !.deferred = TRUE]

\* The last user of a device that was let go is gone: the kernel frees it.
ReapDev(d) ==
    /\ dm[d].deferred /\ MountsOf(d) = {}
    /\ dm' = [dm EXCEPT ![d] = NoDev]
    /\ UNCHANGED <<loop, stack, tasks, actor, faults>>

ReapLoop(l) ==
    /\ loop[l].clear /\ UsersOf(l) = {}
    /\ loop' = [loop EXCEPT ![l] = Unbound]
    /\ UNCHANGED <<dm, stack, tasks, actor, faults>>

Reap == (\E d \in Devs : ReapDev(d)) \/ (\E l \in Loops : ReapLoop(l))

\* Another process of the host binds a loop device, or lets one go.
HostBinds(l) ==
    /\ "host" \in faults /\ loop[l] = Unbound
    /\ loop' = [loop EXCEPT ![l] = BoundTo("host")]
    /\ UNCHANGED <<dm, stack, tasks, actor, faults>>

HostReleases(l) ==
    /\ loop[l].user = "host"
    /\ loop' = [loop EXCEPT ![l] = Unbound]
    /\ UNCHANGED <<dm, stack, tasks, actor, faults>>

Host == \E l \in Loops : HostBinds(l) \/ HostReleases(l)

-----------------------------------------------------------------------------
(* Helpers *)

Outcomes(fault) == {TRUE} \cup {fault \notin faults}

Goto(p, s) == step' = [step EXCEPT ![p] = s]

\* is_exact_mount
IsMounted(p) == stack[p] # <<>>

\* The package's file is what the chain under its mount point ends in.
Backed(p) ==
    /\ stack[p][1] \in Devs
    /\ dm[stack[p][1]].state = "active"
    /\ loop[dm[stack[p][1]].on].user = p

\* Bug: every mount builds a chain of its own.
AlwaysAttach(p) == Goto(p, "attach") /\ mailbox' = Append(mailbox, p)

\* The idempotency gate of mount_pkgfs.
MountPkgfs(p) ==
    IF IsMounted(p) THEN Goto(p, "up") /\ UNCHANGED mailbox
    ELSE Goto(p, "attach") /\ mailbox' = Append(mailbox, p)

-----------------------------------------------------------------------------
(* The loop device *)

\* A package is set up once after it was created.
Setup(p) ==
    /\ step[p] = "verified"
    /\ MountPkgfs(p)
    /\ retried' = [retried EXCEPT ![p] = FALSE]
    /\ UNCHANGED <<kernel, held, devOf, made, try, faults>>

Serving == Head(mailbox)

\* The attach is answered, and the mount goes on or has failed.
Answer(s) == Goto(Serving, s) /\ mailbox' = Tail(mailbox) /\ try' = NoTry

\* next_free only looks: nothing is reserved.
PickLoop ==
    /\ mailbox # <<>> /\ try.dev = "none"
    /\ \/ \E l \in Loops :
             /\ loop[l] = Unbound
             /\ try' = [try EXCEPT !.dev = l]
             /\ UNCHANGED <<step, mailbox>>
       \/ (\A l \in Loops : loop[l] # Unbound) /\ Answer("lost")
    /\ UNCHANGED <<kernel, held, devOf, made, retried, faults>>

\* Bug: the errors are not counted.
RetryForever(kind, max) ==
    try' = [try EXCEPT !.dev = "none"] /\ UNCHANGED <<step, mailbox>>

\* Bug: an error too many is retried on.
RetryTooOften(kind, max) ==
    IF try[kind] > max THEN Answer("lost")
    ELSE /\ try' = [try EXCEPT !.dev = "none", ![kind] = @ + 1]
         /\ UNCHANGED <<step, mailbox>>

\* One more error of a kind that is retried on, until there were too many.
RetryOn(kind, max) ==
    IF try[kind] = max THEN Answer("lost")
    ELSE /\ try' = [try EXCEPT !.dev = "none", ![kind] = @ + 1]
         /\ UNCHANGED <<step, mailbox>>

\* Bug: the LoopDevice is dropped as soon as its path is known.
AttachDropped ==
    /\ loop[try.dev] = Unbound
    /\ held' = [held EXCEPT ![Serving] = try.dev]
    /\ Answer("create")
    /\ UNCHANGED loop

\* LOOP_CONFIGURE, or the two ioctls that did it before, binds the device to
\* the file that is there now.
AttachLoop ==
    /\ loop[try.dev] = Unbound
    /\ loop' = [loop EXCEPT ![try.dev] = BoundTo(Serving)]
    /\ held' = [held EXCEPT ![Serving] = try.dev]
    /\ Answer("create")

TryAttach ==
    /\ mailbox # <<>> /\ try.dev # "none"
    /\ \/ AttachLoop
       \/ /\ \/ loop[try.dev] # Unbound /\ RetryOn("busy", BusyMax)
             \/ "again" \in faults /\ RetryOn("again", AgainMax)
             \/ "attach" \in faults /\ Answer("lost")
          /\ UNCHANGED <<loop, held>>
    /\ UNCHANGED <<dm, stack, devOf, made, retried, faults>>

-----------------------------------------------------------------------------
(* The dm-verity device: VerityDevice::setup *)

Change(d, p, dev, s) ==
    /\ dm' = [dm EXCEPT ![d] = dev]
    /\ Goto(p, s)
    /\ UNCHANGED <<loop, stack, held, made, retried, actor, faults>>

\* The name is new each time, so a device yet to be reaped is not in the way.
CreateDevice(p) ==
    /\ step[p] = "create"
    /\ \/ \E d \in Devs :
             /\ dm[d] = NoDev
             /\ devOf' = [devOf EXCEPT ![p] = d]
             /\ Change(d, p, Created, "load")
       \/ /\ "dm" \in faults \/ \A d \in Devs : dm[d] # NoDev
          /\ Goto(p, "drop_loop")
          /\ UNCHANGED <<kernel, held, devOf, made, retried, actor, faults>>

\* The table is on the loop device by its path: it cannot be loaded when there
\* is nothing bound to it.
LoadTable(p) ==
    /\ step[p] = "load"
    /\ LET d == devOf[p]
       IN  \/ /\ loop[held[p]] # Unbound
              /\ Change(d, p, [Created EXCEPT !.state = "loaded", !.on = held[p]],
                        "resume")
           \/ /\ loop[held[p]] = Unbound \/ "dm" \in faults
              /\ Change(d, p, dm[d], "cleanup")
    /\ UNCHANGED devOf

ResumeDevice(p) ==
    /\ step[p] = "resume"
    /\ LET d == devOf[p]
       IN  \/ Change(d, p, [dm[d] EXCEPT !.state = "active"], "base")
           \/ "dm" \in faults /\ Change(d, p, dm[d], "cleanup")
    /\ UNCHANGED devOf

\* A device that was created is removed on failure, if that succeeds.
RemoveOnError(p) ==
    /\ step[p] = "cleanup"
    /\ \E ok \in Outcomes("release") :
          Change(devOf[p], p, IF ok THEN NoDev ELSE dm[devOf[p]], "drop_loop")
    /\ devOf' = [devOf EXCEPT ![p] = "none"]

-----------------------------------------------------------------------------
(* The mounts: mount_device_with *)

Mount(p, layers, s) ==
    /\ stack' = [stack EXCEPT ![p] = layers]
    /\ made' = [made EXCEPT ![p] = s = "drop_dm" /\ layers # <<>>]
    /\ Goto(p, s)
    /\ UNCHANGED <<loop, dm, held, devOf, retried, actor, faults>>

MountBase(p) ==
    /\ step[p] = "base"
    /\ \/ Mount(p, Append(stack[p], devOf[p]),
                IF Overlay THEN "overlay" ELSE "drop_dm")
       \/ "mount" \in faults /\ Mount(p, <<>>, "drop_dm")

MountOverlay(p) ==
    /\ step[p] = "overlay"
    /\ \/ Mount(p, Append(stack[p], "overlay"), "drop_dm")
       \/ "mount" \in faults /\ Mount(p, stack[p], "rollback")

\* The base goes with its overlay; if that fails too it stays.
RollbackBase(p) ==
    /\ step[p] = "rollback"
    /\ \E ok \in Outcomes("umount") :
          /\ stack' = IF ok THEN [stack EXCEPT ![p] = <<>>] ELSE stack
          /\ Goto(p, "drop_dm")
    /\ UNCHANGED <<loop, dm, held, devOf, made, retried, actor, faults>>

\* Bug: the device is removed at once or not at all.
DropWithoutDeferral(p) ==
    /\ step[p] = "drop_dm"
    /\ dm' = IF MountsOf(devOf[p]) = {} THEN [dm EXCEPT ![devOf[p]] = NoDev] ELSE dm
    /\ devOf' = [devOf EXCEPT ![p] = "none"]
    /\ Goto(p, "drop_loop")
    /\ UNCHANGED <<loop, stack, held, made, retried, actor, faults>>

\* VerityDevice::drop
DropDevice(p) ==
    /\ step[p] = "drop_dm"
    /\ \E ok \in Outcomes("release") :
          dm' = IF ok THEN [dm EXCEPT ![devOf[p]] = Removed(devOf[p])] ELSE dm
    /\ devOf' = [devOf EXCEPT ![p] = "none"]
    /\ Goto(p, "drop_loop")
    /\ UNCHANGED <<loop, stack, held, made, retried, actor, faults>>

\* LoopDevice::drop
DropLoop(p) ==
    /\ step[p] = "drop_loop"
    /\ \E ok \in Outcomes("release") :
          loop' = IF ok THEN [loop EXCEPT ![held[p]] = Cleared(held[p])] ELSE loop
    /\ held' = [held EXCEPT ![p] = "none"]
    /\ Goto(p, IF made[p] THEN "up" ELSE "lost")
    /\ made' = [made EXCEPT ![p] = FALSE]
    /\ UNCHANGED <<dm, stack, devOf, retried, actor, faults>>

\* Bug: the second attempt goes on from what the first one left.
LostAndMounted(p) ==
    /\ step[p] = "lost"
    /\ IF retried[p] THEN Goto(p, "failed") /\ UNCHANGED mailbox ELSE MountPkgfs(p)
    /\ retried' = [retried EXCEPT ![p] = TRUE]
    /\ UNCHANGED <<kernel, held, devOf, made, try, faults>>

\* setup() tries once more.
Lost(p) ==
    /\ step[p] = "lost"
    /\ Goto(p, IF retried[p] THEN "failed" ELSE "unmount")
    /\ retried' = [retried EXCEPT ![p] = TRUE]
    /\ UNCHANGED <<kernel, held, devOf, made, actor, faults>>

\* One umount(2) of unmount_pkgfs, from the top.
Umount(p) ==
    \E ok \in Outcomes("umount") :
        /\ stack' = IF ok THEN [stack EXCEPT ![p] = SubSeq(@, 1, Len(@) - 1)]
                          ELSE stack
        /\ IF ok THEN UNCHANGED step ELSE Goto(p, "failed")

\* The first attempt is undone, and the second one begins.
UnmountForRetry(p) ==
    /\ step[p] = "unmount"
    /\ IF IsMounted(p) THEN Umount(p) /\ UNCHANGED mailbox
                       ELSE MountPkgfs(p) /\ UNCHANGED stack
    /\ UNCHANGED <<loop, dm, held, devOf, made, retried, try, faults>>

-----------------------------------------------------------------------------
(* The package manager *)

\* A new file replaces the one that was installed; what is bound to that stays
\* bound to it.
Outdates(p) ==
    loop' = [l \in Loops |-> IF loop[l].user = p
                             THEN [loop[l] EXCEPT !.latest = FALSE] ELSE loop[l]]

\* A package is upgraded, or removed and installed again.  While it is Verified
\* nothing is torn down; otherwise its mounts go first.
Replace(p) ==
    /\ \/ /\ step[p] = "verified"
          /\ Outdates(p)
          /\ UNCHANGED step
       \/ step[p] \in {"up", "failed"} /\ Goto(p, "teardown") /\ UNCHANGED loop
    /\ UNCHANGED <<dm, stack, held, devOf, made, retried, actor, faults>>

\* A package that cannot be torn down can be asked again.
Teardown(p) ==
    /\ step[p] = "teardown"
    /\ IF IsMounted(p) THEN Umount(p) /\ UNCHANGED loop
       ELSE /\ Outdates(p)
            /\ Goto(p, "verified")
            /\ UNCHANGED stack
    /\ UNCHANGED <<dm, held, devOf, made, retried, actor, faults>>

\* The daemon dies.  What it has bound, created and mounted stays as it is.
Crash ==
    /\ "crash" \in faults
    /\ step' = [p \in Pkgs |-> "verified"]
    /\ held' = [p \in Pkgs |-> "none"] /\ devOf' = [p \in Pkgs |-> "none"]
    /\ made' = [p \in Pkgs |-> FALSE] /\ retried' = [p \in Pkgs |-> FALSE]
    /\ mailbox' = <<>> /\ try' = NoTry
    /\ UNCHANGED <<kernel, faults>>

-----------------------------------------------------------------------------

LoopActor == PickLoop \/ TryAttach

Task(p) == CreateDevice(p) \/ LoadTable(p) \/ ResumeDevice(p) \/ RemoveOnError(p)
               \/ MountBase(p) \/ MountOverlay(p) \/ RollbackBase(p)
               \/ DropDevice(p) \/ DropLoop(p) \/ Lost(p) \/ UnmountForRetry(p)
               \/ Teardown(p)

Next == Reap \/ Host \/ LoopActor \/ Crash
            \/ \E p \in Pkgs : Setup(p) \/ Task(p) \/ Replace(p)

\* The daemon's tasks are run, and the kernel frees what nobody uses.
Fairness ==
    /\ WF_vars(LoopActor) /\ WF_vars(Reap)
    /\ \A p \in Pkgs : WF_vars(Task(p))

Spec     == Init /\ [][Next]_vars
FairSpec == Spec /\ Fairness

-----------------------------------------------------------------------------
(* Safety *)

FullDepth == IF Overlay THEN 2 ELSE 1

\* What is mounted for a package is backed by its own file through a live
\* chain, whatever the daemon let go of, lost or left behind.
BaseIsBacked ==
    \A p \in Pkgs : IsMounted(p) => Backed(p)

\* A chain is never stacked on another one, even after crashes: "reuse a live
\* mount left by an ungraceful crash instead of stacking a second" chain.
NoRestack == \A p \in Pkgs : Len(stack[p]) <= FullDepth

AtRest ==
    /\ \A p \in Pkgs : step[p] \in Resting
    /\ \A d \in Devs : dm[d].deferred => MountsOf(d) # {}
    /\ \A l \in Loops : loop[l].clear => UsersOf(l) # {}

\* When nothing is under way, every device that is not free belongs to the
\* chain of a mount: whatever failed, and however setups overlapped, nothing
\* leaks, as long as the daemon lived to let go and the kernel took it back.
NoLeak ==
    AtRest /\ faults \cap {"crash", "release"} = {} =>
        /\ \A d \in Devs : dm[d] # NoDev => MountsOf(d) # {}
        /\ \A l \in Loops : loop[l].user \in Pkgs => UsersOf(l) # {}

\* A package that is set up has the whole stack, over the version that is
\* installed.  "Nothing to tear down - these states have no mounted filesystem."
ReadyIsWhole ==
    \A p \in Pkgs : step[p] = "up" =>
        /\ Len(stack[p]) = FullDepth
        /\ Backed(p) /\ loop[dm[stack[p][1]].on].latest

\* It does, as long as the daemon did not die.
ReadyIsWholeOtherwise == "crash" \notin faults => ReadyIsWhole

(* Liveness *)

\* A setup ends, however the processes of the host compete for loop devices.
SetupEnds ==
    \A p \in Pkgs : step[p] \in Mounting ~> step[p] \in Resting
=============================================================================
