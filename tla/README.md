# A TLA+ model of the ssam package daemon

`ssamd` (Rust, `src/ssamd`) installs container packages, mounts them, runs each
one as a transient systemd unit and keeps its status current.  This directory
holds TLA+ modules translated from that code, the TLC configurations that check
small instances of them, and theorems about them with proofs for TLAPS.

Everything is written from the source.  A comment in a module says *what* an
operator models; `PROJECT.json` ("map") says *which lines*.

## 1. The system

### 1.1 Components

| Component (source) | State | Operations | Correct when |
|---|---|---|---|
| Transition actor, one per package (`package.rs`, `package/state_machine.rs`, `package/transition.rs`) | the status, its resources: executor cell, mount point, network | transition to a status, teardown, get status | transient statuses are never seen; Ready and Running mean that mounts, executor and network are there; a skipped teardown skips nothing |
| Tasks of a package: `initialize()`, status receiver, ActiveState monitor (`package.rs:546-600`, `executor/systemd.rs:791-908`) | a bounded channel of unit states | set up and start at load; forward each change of the unit | the status ends at the state of the unit; a receiver that gives up leaves Error |
| systemd executor and the serial systemd manager actor (`executor/systemd.rs`) | queue of D-Bus calls, the job watch | start, stop, reset, teardown with its 8 s limit, the 10 s job wait | every call returns; no job outlives the handler that asked for it |
| Mount stack (`mount.rs`) | layers at a mount point | mount with retry and rollback, unmount | nothing is mounted twice, nothing is left |
| Loop and dm-verity devices (`mount.rs`, `dm.rs`, `dm/*`) | loop bindings, device-mapper tables | attach with retries, create, load, resume, remove deferred | a device lives as long as its mount and no longer |
| Package manager actor (`package_manager.rs`, `package_manager/store.rs`) | the store: packages and broken packages | reload, install, remove, start, stop, teardown_all | the store tells what is on the disk |
| Install transaction actor (`package_manager/pkg_file.rs`) | the package directory and its `.old` backups | backup, copy, commit, rollback | an upgrade that fails or dies loses neither the package nor its data |
| Network actor (`network/actor.rs`, `actor/restore.rs`, `network/allocator.rs`) | subnets, bridges, addresses, the host's links and namespaces | create and destroy namespaces, attach, detach, restore, clean up orphans | no two containers share an address, no two bridges a subnet, across restarts too |
| Volumes (`package_volume.rs`, `package_volume/data_directory.rs`, `ext4quota.rs`, `utils.rs`) | volume table, data directories, project ids and limits | acquire, release, purge, set limits | no two packages share a project; the limit in force is the installed version's |
| Daemon and RPC server (`lib.rs`, `main.rs`, `remocon_server_impl.rs`), its client (`src/ssam`) | the RPCs under way | list, start, stop, install, remove; SIGTERM | every RPC is answered; a signal ends the daemon and leaves nothing behind |
| Supervision (`utils.rs`) | none | end of an actor: exit, or ignored | the daemon ends, or goes on without it |
| Package builder and package format (`src/ssam-wrap`, `src/libssam`) | a workspace, an image, the package file | prepare, make an image, append its hash tree, write and read a package | a file that is accepted holds one whole image and leads to its hash tree |

The rest (`ssam-log`, `proc_macros`, configuration, AppArmor) is parsing,
formatting or code generation; it has no control worth a state machine and is not
modelled.

### 1.2 How they interact

An RPC handler asks the package manager.  The manager asks the transition actor
of one package, or the transaction actor, and waits.  The transition actor awaits
the mount code, the network actor and the executor; the executor asks the single
systemd manager actor, which makes one D-Bus call at a time and waits for its
job.  systemd changes the unit on its own; the monitor reads the change and sends
it through a channel of eight slots to the status receiver, which asks the
transition actor for the status it stands for.  `initialize()` is a third sender.

Every actor is an `rsactor` actor: a FIFO mailbox and one message at a time, so a
handler that awaits keeps every later message waiting.  `ask` sends and awaits
the answer; dropping the future of an `ask` (a timeout) leaves its message in the
mailbox.

### 1.3 What is hard

* Three senders and systemd move the same status, in orders nobody wrote down:
  requests act on a status that events of an *earlier* run may still change.
* A setup runs four tasks at once and any may fail after the others succeeded.
* An install changes the disk in up to eight steps, each may fail, each has its
  own compensation, which may fail too, and the daemon may die between any two.
* Time limits: teardown stops waiting before the systemd manager does.
* One receiver, one monitor, one systemd manager: what if it stops or waits?
* The host (mounts, links, units, data) outlives the daemon, its state does not.

`PROJECT.json` ("hazards") lists each hazard at its line, with the properties
that cover it or the reason why none does.

## 2. Plan

The order is that of what would hurt most.  Everything below is written and
checked; "proved" means by TLAPS, section 6.

1. `PackageLifecycle` (with `PackageTransitions` and `MountStack`): one package,
   its actor, tasks, executor and systemd.  Proved.
2. `PackageInstall`: manager, store, transaction, disk, crashes.  Proved.
3. `SlotAllocator`, `NetworkActor`: the allocator as a pure data type, the actor
   above it with the host's links and a restart that rebuilds the tables from
   them.  Proved.
4. `PackageService`: what a package promises, and `PackageLifecycle` checked to
   implement it.  Proved.
5. `SsamDaemon`: clients, server, manager, packages by their promises, SIGTERM.
   Proved.
6. `VolumeQuota`: directories, projects and limits on the disk.  Proved.
7. `PackageDevices`: loop and verity devices under the mounts.  Proved.
8. `PackageBuild`: how a package file is made, and read.  Proved.

Every safety invariant and action property that a passing run checks is a theorem;
liveness stays with TLC.

## 3. The modules

### `PackageTransitions`
Statuses and the transition table (`transition.rs`, `state_machine.rs`).
`Running(s)` is represented by the string of the unit's state `s`, Error and
Broken are kept without their reasons.  `From` is the table as the code builds it,
`Ignored` the requests answered Ok without effect, `MapJobResult` the status a job
result and the state read after it lead to.

### `MountStack`
How many layers are at a mount point: none, the base, base and overlay.  A call
that may fail is a *set of results* `[ok, layers]`, with a rollback that may fail
inside it, so one operator gives the success and all its partial failures.

### `PackageLifecycle`
One package.  `status`, `pc` and `task` are the transition actor: `pc` is where
between two awaits its handler is, and a message leaves `mailbox` only when the
handler returns.  `task` are the four concurrent tasks of `setup()`.  `msg` and
`reply` hold what each of the three senders asked and was answered; a sender is
where `initPc`, `recvPc` and `pmPc` say.  `mgrQ`, `called`, `result` are the
systemd manager actor; `unit` and `job` are systemd, modelled from how the
executor uses it; `monitor`, `dirty`, `events` are the monitor and its channel
(D-Bus property streams coalesce, hence one `dirty` bit).  `cell` is
`LazyExecutor`, whose arguments are gone after one failed attempt.  `torn` is a
ghost: a teardown was served.

Actions: `Receive` (find the transition, ignore it, refuse it, or enter its
handler), one action for each stretch of a handler between two awaits, `Manager`
and `Systemd` for what they wait for, `ForwardEvent`, `MonitorDies`, `Receiver`,
`Initialize`, `PackageManager`.

### `PackageInstall`
The package manager serves one request at a time, so `pc` is the place of the one
request under way, cut wherever the disk changes.  `files` and `olds` are the
downloaded directory and the `.old` files in it, `data` and `dataOld` the data
directories; `packages` and `broken` the store; `vols` the volume manager's
table.  `Crash` may come at every place and leaves only the disk; `Reload` is the
start of the daemon.  A file is a record `[pkg, ver, builds]`: what it declares
and whether `Package::new` accepts it.

What it assumes: bundled files are part of the system image and parse; a
download's name follows from its package (`DestFile` is injective), and no file
lies at first under the name another package installs to; a failure of
the metadata of a volume counts as `builds = FALSE`.  What a teardown or a
`prepare_upgrade` does inside the package is `PackageLifecycle`'s: here it is only
its outcome.  Requests that are refused before anything changes, and the read-only
ones, are left out.

### `SlotAllocator`
The lowest-free allocator of `allocator.rs` as operators on a function from ids to
keys: allocate, claim, release.  `BridgeIpAllocator` and `SubnetAllocator` are this
one over host addresses and over subnets of the pool.

### `NetworkActor`
`slots`, `reserved` and `bridges` are the tables of the actor (the subnet of each
bridge, the subnets held by `reserved:` ids, and each bridge's addresses).  `links`,
`veth`, `addr` and `ns` are the host, which a crash leaves as it is: the bridges, the
veth of each package and the bridge it is on, the address at its other end, and the
named namespace, with or without that end in it; `lost` is a history variable, the
veths that the last start left though it found them by no namespace's name.
`phase`, `plan` and `reserves` are `on_start` from the scan to the sweep of orphans.  `step`, `bridge` and `run` are the
packages: each sends its own messages in the order of `setup()`, `cleanup()` and
`teardown()` (`package.rs`), the packages among each other in any order.

One action per message, as the actor serves one at a time: `CreateNetns`, `Adopt`,
`AttachRefused`, `AttachNew` and `AttachFails` (the outcomes of an attach), `Detach`,
`DestroyNetns`.  `Crash` and `CrashInSetup` end the daemon, the latter inside
netavark; `Scan`, `ClaimAttach`, `Reserve` and `CleanupOrphans` are the next start.
`NamespaceDies` is the kernel: a namespace whose name is gone lives until its last
process ends, and its veth with it.

What it assumes: the configured pool and prefix do not change between two starts; a
path under the directory of namespaces is one (a target file left by a crash in
`create_named_netns` is cleared by the code and left out); interface names are
valid.  An attach always comes after a `CreateNetns` of the same setup, so its branch
for a veth without a namespace has nothing to delete.

### `PackageService` and the refinement
One package as its callers see it: a status, the request that is worked on, and
whether anything is mounted.  A request is begun only where the table has the
transition, ends in one of the statuses of `EndsIn` with what `EndsMounted` allows,
and mounts come and go only with the requests that are meant to change them.
`PackageLifecycle` instantiates it (`Service`) with `busy` as the request whose
handler is between two awaits and `mounted` as `layers > 0`;
`ImplementsService == Service!Spec` is a property of `setup` and `monitoring`, and
`PackageServiceProofs` proves it.

### `SsamDaemon`
The composition.  `rpc` holds the calls of the clients, `queue` the manager's
mailbox, `mgr` the request it has under way, cut at each of its `await`s; `pkg` the
packages of the store and `left` the tasks of those that are no longer in it.
`file`, `mount` and `unit` are the host: which version is installed, mounted, run.
A package is not modelled again: what a request comes to is drawn from `Promised`,
the results that `PackageService` allows, narrowed by what the version on the host
decides (`SetUp`, `Started`, `Stopped`, `Undone`).  The task of `initialize()` asks for
its setup and its start at any moment, before, between and behind the requests of the
manager, and also when its package has left the store.  `skipped` is a history
variable: the names of which a package was let go, or replaced with its mount in
place, while it was still Verified, when `Package::teardown` and a `prepare_upgrade`
do nothing.  `Signalled`, `ServeTeardown`,
`NextPackage`, `Clear`, `Drain`, `Exit` are the way from SIGTERM to the end;
`Crash` and `ActorDies` are the two failure policies of supervised actors.

### `VolumeQuota`
`dir` and `old` are the data directories and their backups: a directory's own
project, whether what is made in it inherits it, and the projects its data is
charged to.  `limits` is ext4's quota.  `volumes`, `ids`, `oldIds` and `quota` are the
tables of the actor, lost with the daemon and read back from the directories at the
next `Start`.  The requests (`pc`, `op`) are those of the transaction actor as far as
they touch volumes.  Each of the five calls of a grant and the three of a
revocation may fail or be the last before a crash (`CrashInGrant`,
`CrashInPurge`, `CrashInRestore`).

### `PackageDevices`
`loop`, `dm` and `stack` are the kernel; `step`, `held`, `devOf` the setups, which run
at the same time; `mailbox` and `try` the one actor that attaches loop devices.
`HostBinds` and `HostReleases` are other processes of the host that take the free
device in between.  Dropping a handle marks a device, and `ReapDev`, `ReapLoop` are
the kernel that frees it with its last user.  `Crash` leaves devices and mounts.

### `PackageBuild`
Runs of `ssam-wrap` on one workspace, one after the other, each of which may end at
any step (`Stops`) and leave what it did.  Sizes are numbers, and the offset,
the hash start and the hash size are computed as in the code; a package file is a
sequence of cells, written in the code's order over the file of the run before.
`Accepted` is `from_file_verified`.

### `MC...`
`MCPackageLifecycle`, `MCPackageInstall`, `MCNetworkActor`, `MCVolumeQuota`,
`MCPackageDevices`, `MCSsamDaemon` and `MCPackageBuild` name the sets the runs use.
`MCRequests` adds a history variable to `PackageLifecycle` (has the unit been gone
ever since a stop ended well).

### `...Proofs`
`PackageLifecycleProofs`, `PackageServiceProofs`, `PackageInstallProofs`,
`NetworkActorProofs`, `VolumeQuotaProofs`, `PackageDevicesProofs`,
`SsamDaemonProofs` and `PackageBuildProofs` have the theorems of section 6, each
about the module it is named after.

## 4. The runs

| Run | Instance | States | Shows |
|---|---|---|---|
| `setup` | bridge network, overlay; every call of setup and teardown may fail; all operations of the API in any order | 728 k | `TypeOK`, `LiveHasResources`, `SkippedIsUnmounted`, `ImplementsService` |
| `monitoring` | D-Bus calls fail, jobs time out, units are stopped from outside, the monitor dies; units left by an earlier daemon | 819 k | `TransientHidden`, `NoAbandonedJob`, `DeadReceiverMeansError`, `StatusTellsUnit`, `ImplementsService` |
| `live` | start, stop, upgrade under fairness, the monitor may die | 62 k | `AsksAnswered`, `StatusConverges` |
| `install` | all install faults, crashes anywhere, damaged, misnamed and refused downloads of a bundled package | 570 k | `TypeOK`, `StoreMatchesDisk`, `InstalledFileSurvives`, `UserDataSurvives`, `FailedUpgradeIsUndone` |
| `network` | two packages, two bridges, two subnets of two addresses; four groups of faults; crashes anywhere | 1.7 M | `TypeOK`, `NoSharedAddress`, `SlaveKeepsSubnet`, `AttachedHasNetwork` |
| `quota` | two packages, versions with and without a limit; seven groups of faults; crashes anywhere | 1.4 M | `TypeOK`, `OwnProject`, `LimitInForce`, `ProjectIsKept`, `DataIsLimitedOtherwise` |
| `devices` | two packages over two loop and two dm devices, with an overlay; five environments | 453 k | `TypeOK`, `BaseIsBacked`, `NoRestack`, `NoLeak`, `ReadyIsWholeOtherwise`, `SetupEnds` |
| `daemon` | two clients with five calls between them, two packages, a mailbox of two; nine scenarios | 360 k | `TypeOK`, `RunsWhatIsInstalled`, `NoOrphan`, `EndLeavesNothing`, `SignalEnds`, `RpcAnswered` |
| `build` | four runs; a tree, an image of whole blocks, one that is not, a container image | 615 k | `TypeOK`, `AcceptedIsWhole`, `TableFindsTreeOtherwise` |
| `lost_request` | start and stop only, no fault | | violation, section 5 |
| `stale_mount` | crashes, no overlay | | violation, section 5 |
| `hash_start` | two runs | | violation, section 5 |

**Bounds.**  `setup`, `monitoring`, `live`: one package.  Transition actors share
only the systemd manager, and what another package does to this one is to delay it,
which the model's unfair interleaving allows already.  `EventCap` is 1 instead of 8:
a full channel makes the monitor wait (it never drops), and one state in the
receiver's hands, one in the channel and the dirty bit are three stages of stale
states, of which one overtakes another.  `setup` has one start, that of
`initialize()`, and every other operation in any order: what a start does is
`monitoring`'s.  There is no bound on the length of a behaviour: the channels are
bounded by the code and a sender has one message outstanding.

`install` has two versions (older and newer), two file names (the one an install
writes to and another) and one package, as packages share nothing on the disk but
the directory; for more packages there is the proof.

`network` has two of each: sharing needs two packages, a package that changes its
bridge needs two bridges, and with two subnets and two addresses both the pool and a
subnet are exhausted and reused.  Packages and bridges are interchangeable, hence
the symmetry; no property of that run is temporal.

`quota` has two packages, as an id must be reusable by another package, and ids up to
`MaxId` = 3: two packages, one backup and one more.  A grant that would need a
greater id fails; with faults that leave ids behind (`MaxIdBare`) the bound is 2, so
that the table is exhausted too.

`devices` has as many devices as two packages need and no more, so that one that is
not let go of is missed.  `BusyMax` = 2 and `AgainMax` = 1 stand for the numbers of
retries of the code: each limit is reached and exceeded.

`daemon` has a mailbox (`QueueMax` = 2) with room for a message behind the signal's,
which is what makes it interesting, and two versions.  A client makes its next call
when at most `LeftMax` = 0 tasks of packages that left the store are still under way:
the calls that are already made, of the other client and of the signal, meet any such
task, but they cannot pile up without end.

`build` has four runs (`MaxRuns`): one to leave something half done, one to package
it, one to format the same image again and one to be cut in the middle of writing
over the result.  The hash block is two units and file systems have blocks of one or
two.

**Faults** are drawn once, as a set, and each of them may then happen any number of
times (`FaultSets` of `network`, `quota` and `devices`, `Scenarios` of `daemon`,
`Faults` of the others).  The groups keep apart what the invariants exclude, so that
each is checked with everything else that may fail around it: in `network`,
`SeesAll` (the start saw every namespace) and `UndoesSetups` (no failed setup whose
veth cannot be deleted); in `quota`, "cut" (a death inside a revocation)
and "scan".

`CHECK_DEADLOCK FALSE` stands where a package may leave the store (then nothing is
left to do) and where `MaxRuns` ends the runs.

**Fairness** (`FairSpec`).  In `PackageLifecycle` it has three parts.  `TasksGoOn`:
weak fairness of the transition actor, the receiver, the monitor, `initialize()` and
the manager's reception of an answer, as the tokio runtime polls every ready task.
`JobWaitEnds`: the manager's 10 s timer fires, so a job wait ends though the job never
does.  `RepliesCome`: systemd replies to a *method call*, if only with an error.  That
is an assumption about the host and not a fact about the code, which awaits
`StartTransientUnit`, `StopUnit`, `ResetFailedUnit` and the state reads without any
limit (`executor/systemd.rs:238`, `251`, `288`, `584`): one reply that never comes
would hold the one systemd manager and every package that asks it, and
`AsksAnswered` does not hold without it.  The state reads, the mounts and the network
calls of a handler are steps of the transition actor and assumed to return with it.
Nothing is assumed of units, of jobs or of the callers; `StatusConverges` assumes only
that the unit stops changing.  In `PackageDevices`: of the actor and of each setup;
nothing of the host's processes, which may take the device every time: the retries are
bounded.  In `SsamDaemon`: of the manager, the server and an RPC handler that has a
message to send; nobody has to call, hang up or send a signal, and no task of a
package has to go on.  `RpcAnswered` and `SignalEnds` rest on a request to a package
returning, which is `AsksAnswered` with its assumptions.

## 5. Where code and text disagree

* `lost_request`: after a stop whose job has ended and left the package Ready, a state
  of the run that ended may still be queued: the `deactivating` of the stop, or, in the
  trace TLC finds, the `activating` of a start that gave up waiting for its job.  It
  takes Ready to Running, and a start is then ignored with Ok.  No unit runs and none is
  started, while `executor/systemd.rs:669` says that a gone unit gets a fresh start:
  `StoppedIsRestarted`.
* `stale_mount`: after a crash a package is Verified again though its mount was left.
  An upgrade before its setup skips the teardown, and the new version becomes Ready
  on the old one's file system; "Nothing to tear down" says `package.rs:634`.
* `hash_start`: `hash_start_block` (`verity.rs:118`) is the data size divided by the
  file system's block size, rounded *down*, plus one, while `veritysetup` gets an
  offset rounded *up* ("align data size up to block boundary",
  `veritysetup.rs:129`), and the kernel counts it in *hash* blocks.  For an image
  that is not whole blocks the signed table names the superblock, and for a file
  system of blocks smaller than `veritysetup`'s hash block (1 KiB, which `mkfs.ext4`
  takes for small images, and 4 KiB) a block behind the tree.
  `TableFindsTreeOtherwise` shows that it holds for all other images.

What invariants exclude because the code does not have it, each found with TLC when
the exclusion was missing:

* `NoSharedAddress`: a lookup of a veth's master that fails at a restart
  (`reserve_containing` leaves a subnet alone that a sibling's bridge has claimed),
  and a failed setup whose veth cannot be deleted;
* `NoSharedAddress`, `SlaveKeepsSubnet` (`lost`): a veth that outlives its detach, its
  name and the daemon.  A detach cannot delete it (`network/actor.rs:283-296`), `destroy_netns`
  takes the namespace's name all the same while the container runs on, the daemon dies,
  and the next start neither finds the veth by a name nor can delete it
  (`cleanup_orphans`, `network/actor.rs:426-432`).  Its subnet and its address are free then and
  given out again, although `network/allocator.rs:9` says that no two running packages share
  one.  As long as the daemon lives, such a veth is counted;
* `AttachedHasNetwork`: a detach that could not delete the veth; the next setup
  adopts it;
* `InstalledFileSurvives`: a rollback whose rename fails too leaves the file under
  its backup's name, where a reload does not look, although `package_manager.rs:482`
  logs that the package "will recover on next reload";
* `RunsWhatIsInstalled`, `NoOrphan`, `EndLeavesNothing`, the half about units
  (`EveryStopWorks`): a stop of the unit that fails during a teardown is only logged
  (`package.rs:361`), so the container of the old version goes on;
* the same three (`skipped`): a request that reaches a package before the setup its
  `initialize()` has asked for, or is about to ask for, finds it Verified.  A removal
  skips the teardown (`package.rs:634`) and the setup then mounts and starts a package
  that has left the store.  `teardown_all` skips it too, so it is up when the daemon
  ends.  An upgrade after a crash unmounts nothing, and the new version becomes live on
  the old one's mount, as in `stale_mount`.  And when such a package could not be removed
  and was read in again (`try_recover`), the old task's setup may come between the
  unmount of a later upgrade and its new package.  TLC finds the first three as soon as
  `skipped` is left out of the properties; what they say is that there is no *other* way
  to an orphan or to a wrong version;
* `EndLeavesNothing`: packages that were installed behind the signal's teardown;
* `DataIsLimitedOtherwise`: a version of another limit that does not build after the
  quota was granted or revoked for it, a removal that fails half-way, and a quota that
  is not there leave data charged to another project;
* `OwnProject`, `LimitInForce` (`KeepsTrack`): a project that could not be read at a
  start; a death between the removal of a directory's flag and of its project; a
  revocation that fails there, of a directory whose removal then fails too; and a
  directory renamed back after a failed build, whose id is forgotten by then, when
  the grant of its new project fails.  In each the
  directory keeps a project the daemon does not know of, whose id it gives away.

## 6. The proofs

`PackageLifecycleProofs` proves for every value of the constants (any faults, any
channel capacity, any operations):

* `TypeCorrect`: `Spec => []TypeOK`;
* `TransientStatusIsHidden`: `Spec => []TransientHidden`;
* `NoJobIsAbandoned`: `Spec => []NoAbandonedJob`;
* `DeadReceiverLeavesError`: `Spec => []DeadReceiverMeansError`;
* `StatusTellsItsUnit`: `Spec => []StatusTellsUnit`;
* `LivePackageHasResources` and `SkippedPackageIsUnmounted`: `LiveHasResources` and
  `SkippedIsUnmounted`, if the mount point is empty at first
  (`InitialLayers \subseteq {0}`; without it the gate of `mount_pkgfs` takes a
  leftover base for the whole stack, see the hazards).

None of these is inductive.  `TransientHidden` speaks of the moment between two
messages, so the proof needs to know at which `pc` which message is served, and
which status its handler has set: `HandlerInv`.  That needs the mailbox to hold
each sender at most once, with a message that has not been answered:
`MailboxInv`.  `NoAbandonedJob` needs that the systemd manager's queue is what the
handler's `pc` says, including the stop whose waiting teardown gave up:
`ManagerInv`.  `DeadReceiverMeansError` needs that Error stays Error whatever is
asked next, and that it is already there, or asked for, while the receiver is
`failing`: `ReceiverInv`.  Together with `TypeOK` they form `IInv`, which is
inductive; each part has one lemma for its step with a case per action.
`StatusTellsUnit` speaks of a moment with nothing in flight, so its invariant
(`TellsInv`) follows a change of the unit on its way: it waits for the monitor, or is
the last in the channel, or is what the receiver asks for (`EventInv`), or has come to
the actor, in which case a live package has its unit's status and one that may become
live without a word of its unit has one that is not loaded (`HeardInv`).
`ResetInv` is the one place where a start relies on a unit that nobody moves.
`ResourceInv` is proved on top of `IInv` as well: it says, by `pc` and `task`, which layers,
executor and network parts are provided already (`Provisioned`), through the four
setup tasks in any order, the compensations and the retry of the mount, whose
possible results are lemmas of their own (`MountWithRetryEffect`, `UnmountEffect`).

`PackageServiceProofs` proves `ServiceImplemented`: `Spec => ImplementsService`, for
any faults, operations and units left by an earlier daemon, as long as that daemon
mounted no more than this one would (an overlay left from a configuration that had
one is not seen by an unmount without one).  Under the refinement mapping each step
of the actor is a step of the service or a stutter; the other tasks and systemd never
move it (`OthersLeaveActor`).  `HandlerInv` tells which request a handler may end,
`MountInv` adds that a mount task that succeeded has left something mounted, also where
the gate took what was there (`MountWithRetryGains`): so a setup that ends in Ready is
mounted, and a cleanup or an upgrade that ends well is not.

`PackageInstallProofs` proves, for any packages, files, versions, contents and
faults that satisfy `InstallConstantsOK`:

* `InstallTypeCorrect`: `Spec => []TypeOK`;
* `StoreIsOnDisk`: `Spec => []StoreMatchesDisk`;
* `InstalledFileIsKept`: `Spec => []InstalledFileSurvives`;
* `UserDataIsKept`: `Spec => []UserDataSurvives`;
* `FailedUpgradeUndone`: `Spec => []FailedUpgradeIsUndone`.

The invariant goes by `pc`.  `OpInv`: which request is at which place, and what the
store says of its package meanwhile.  `FileInv`: the replaced file is under its own
name before `backup`, under its backup's until `rollback`, and back after it unless
that failed; and a file that parses under the name an install of n writes to declares
n.  `BrokenInv`: the broken files are filed under what they declare, so removing one
never takes the file of an installed package (`OnlyOwnFiles`: a request changes no
file but its own package's; with it what the store says of *other* packages stays
true, the part that one package in a run cannot show).  `StoreInv`: the store agrees
with the disk but for the package of the request under way.  `DataInv`: the user's
data is in the backup exactly when `aside` says so.  TLC has checked this invariant on
the instance of `install`.

`NetworkActorProofs` proves, for any pool, bridges, packages and faults:

* `NetworkTypeCorrect`: `Spec => []TypeOK`;
* `LiveBridgeKeepsSubnet`: `Spec => []SlaveKeepsSubnet`;
* `AddressesAreDistinct`: `Spec => []NoSharedAddress`;
* `AttachedIsConnected`: `Spec => []AttachedHasNetwork`.

They rest on lemmas about the allocator (`LowestIsOne`, by the well-foundedness of
the naturals; `AllocatedEffect`) and about what
an attach, a release and a claim do to the tables (`AttachEffect`, `ReleaseEffect`,
`ClaimEffect`).  The invariant `IInv` has four parts.  `ShapeInv`: types, and what is
left to claim is live.  `SubnetInv`: the tables agree with each other and, for every
package with an address they know of (`Restored`: none during the scan, all of `Live`
once the daemon is up), with the host; and the *host alone* tells bridges and subnets apart, which is what
lets a restart succeed in any order of the directory (`ClaimAccepted`).  `AddressInv`
is the same one level down.  `AdoptInv`: what an attach finds by the package's names
is wired and is what the tables have.  `SubnetInv` is assumed only when the start saw
all (`SeesAll`), `AddressInv` also needs `UndoesSetups`, `AdoptInv` that links can be
deleted: `faults` never changes, so a behaviour is on one side for good.

`VolumeQuotaProofs` proves, for any packages, versions, bounds on the ids and faults:

* `VolumeTypeCorrect`: `Spec => []TypeOK`;
* `ProjectsAreOwn`: `Spec => []OwnProject`;
* `LimitIsInForce`: `Spec => []LimitInForce`;
* `DataLimited`: `Spec => []DataIsLimitedOtherwise`;
* `ProjectKept`: `Spec => ProjectIsKept`, the one about steps.

`ProjectIdIsOwn` is the lemma about `next_id`: one more than the greatest id in use is
in use nowhere.  That keeps two packages apart only if the ids the daemon knows are
those on the directories, hence `TrackInv` (in memory) next to `DiskInv` (on the
disk), with the backup a request has set aside among the latter and the one exception
of a directory that was just renamed back.  A crash loses `TrackInv` and the next
`Start` gets it back from `DiskInv` alone.  `LimitInv` relates three places, the
file's limit, the volume's and the one the file system enforces; `ChargeInv` is the
history of what was written.  The middle two are assumed under `KeepsTrack` and the
last under `Undisturbed`, both conditions on the faults, which never change.

`PackageDevicesProofs` proves, for any packages, devices, limits and faults:

* `DevicesTypeCorrect`: `Spec => []TypeOK`;
* `ChainsAreBacked`: `Spec => []BaseIsBacked`;
* `ChainsAreSingle`: `Spec => []NoRestack`;
* `NothingLeaks`: `Spec => []NoLeak`;
* `ReadyHasItsStack`: `Spec => []ReadyIsWholeOtherwise`.

The invariant says, by the step of a setup, which loop device it holds (`HoldInv`),
which dm device and how far that one has come (`DevInv`), that no two setups have the
same (`OwnDevInv`) and what it found mounted (`StepInv`); the mailbox of the actor has
each waiting setup once (`MailInv`), without which one could be handed two devices.
`ChainInv` is about what is mounted whether or not a setup still knows of it: so it
outlives a crash.  `LetGoInv` (each device has a holder, or goes with its last user)
holds without crashes and failed releases, `UpInv` without crashes.

`SsamDaemonProofs` proves, for any clients, calls, packages, versions, bounds and
faults:

* `DaemonTypeCorrect`: `Spec => []TypeOK`;
* `PackagesRunWhatIsInstalled`: `Spec => []RunsWhatIsInstalled`;
* `NothingIsOrphaned`: `Spec => []NoOrphan`;
* `NothingIsLeftAtTheEnd`: `Spec => EndLeavesNothing`.

The last three speak of moments between two requests, so `StageInv` says what the
manager is at in each of its `await`s: the message it serves stays at the head of its mailbox,
whatever clients hang up (`MailInv`, `Answered`), and a teardown only works on packages
of the store.  `HostInv` follows the host for every name that is not `skipped`: what is
mounted of it is the installed version, what runs is what is mounted, a package that is
to be replaced is not mounted, and a name outside the store has neither (`MountOf` where
unmounts work, `UnitOf` where stops do too).  What makes this hold against the tasks of
packages that left the store (`left`) is in `StageInv` and `StoreInv`: a package leaves
it past its setup unless its name is skipped (`PastSetup`), so the task of any other has
at most a start in hand.  That moves no mount (`AfterRequest`), and a unit it starts runs
what is mounted under the name, which after a removal is nothing and after an upgrade the
installed version.  The setup of a package that *is* in the store cannot bring back an
old version either: once it is Upgrading, no setup applies, and before that it mounts the
version of the store, which is the one installed.  An upgrade of a package still Verified
leaves the host as it is (`VerifiedUpgrade`): its name is skipped if anything is there.
`DoneInv` says `MountOf` of the part of the store a signal's teardown is through with.

`PackageBuildProofs` proves, for any sources, sizes, block sizes and number of runs:

* `BuildTypeCorrect`: `Spec => []TypeOK`;
* `AcceptedFileIsWhole`: `Spec => []AcceptedIsWhole`;
* `TableLeadsToTree`: `Spec => []TableFindsTreeOtherwise`.

An image is any number of blocks, so the package file is a sequence of unbounded
length, and the proof goes cell by cell.  `Laid(file, table, image)` says of each index
what a file that is being written has there, as far as it goes, and `ToCome` the same
of what is still to be written; a step of writing moves one cell from the second to the
first (`CellWritten`).  `FileInv` is then that what lies at the path is a beginning of
the package of *one* signed image, and a file with a footer is all of it.  `StartIsTree`
does the arithmetic of the hash start: with whole hash blocks all roundings agree, and
formatting an image again, tree and all, keeps it one of whole blocks
(`WorkspaceInv`).  `BuildConstantsOK` says that the image a run makes is none of the
user's own (`"built" \notin Files`).  TLC has checked this invariant on the instance of
`build`.

**What the proofs assume.**  The named assumptions on the constants
(`...ConstantsOK`), which TLC evaluates on every run, and the fault sets the
properties themselves exclude, section 5.

**Model-checked only.**  Liveness (`AsksAnswered`, `StatusConverges`, `SetupEnds`,
`SignalEnds`, `RpcAnswered`): it needs fairness and ENABLED, which are out of the
prover's reach.  The three properties that TLC finds violated (section 5) are not
theorems, of course.  Lists are functions of an index and invariants are about every
index, so no proof needs an induction over data.

## 7. What is not modelled

The components marked `not_modelled` in `PROJECT.json`, with the reason there; and
within the modelled ones:

* data: the units' properties, the container bundle (namespaces, seccomp and AppArmor
  profiles, bind mounts), mount options, the options given to netavark, the encodings
  and the fields of package metadata, signatures' arithmetic, quota numbers, ioctls;
* logs, the wording of answers, timelines;
* a `JobRemoved` that comes before its watch is registered, beyond its effect, which
  is a timeout;
* two downloads that carry each other's names; a pool reconfigured between two
  starts; a source of `ssam-wrap` that is the workspace's own `pkgfs` or inside it;
* what an actor that panics leaves in its own memory: the daemon exits with it, which
  is the crash the modules have, or goes on without it (`ActorDies`).

The map covers the control of the daemon; the larger part of the repository's lines
are unit tests inside the source files and the data listed above.
