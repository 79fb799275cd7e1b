---------------------------- MODULE VolumeQuota ----------------------------
(***************************************************************************)
(* The data directories of packages and their ext4 project quota: the      *)
(* volume manager actor, the project ids it hands out, and the directories *)
(* and limits on the disk, which outlive the daemon.  The ids are kept     *)
(* nowhere but on the directories: each start of the daemon reads them.    *)
(*                                                                         *)
(* The actor serves one message at a time and only the package manager's   *)
(* request under way (pc, op) sends it any.  Granting a quota is five      *)
(* calls on the disk and revoking it three; any of them may fail, and the  *)
(* daemon may die between two.                                             *)
(***************************************************************************)
EXTENDS Integers, FiniteSets

CONSTANTS
    Names,     \* package names
    Limits,    \* storage limits of package versions; 0 is none
    Incoming,  \* the package files users install
    MaxId,     \* the greatest project id of a run ...
    MaxIdBare, \* ... and where a grant, the quota or its scan may fail
    FaultSets  \* the sets of calls that may fail together, of QuotaFaults

QuotaFaults == {"quota", "scan", "grant", "clear", "remove", "cleanup",
                "restore", "copy", "build", "cut"}

ASSUME QuotaConstantsOK ==
    /\ "none" \notin Names
    /\ Limits \subseteq Nat /\ 0 \in Limits
    /\ Incoming \subseteq [name : Names, limit : Limits, builds : BOOLEAN]
    /\ MaxId \in Nat /\ MaxIdBare \in 0..MaxId
    /\ FaultSets \subseteq SUBSET QuotaFaults

Ids == 0..MaxId

\* A data directory: its own project, whether what is made in it inherits it
\* (PROJINHERIT), and the projects that the package's data in it is charged to.
Directory(top, inherit, charged) ==
    [made |-> TRUE, top |-> top, inherit |-> inherit, charged |-> charged]
NoDir == [Directory(0, FALSE, {}) EXCEPT !.made = FALSE]
Dirs  == [made : BOOLEAN, top : Ids, inherit : BOOLEAN, charged : SUBSET Ids]

\* A PackageVolume: with its DataDirectory and the quota entry that holds, or
\* "bare" when that could not be made; id is 0 without a quota.
Volume(kind, id, limit) == [kind |-> kind, id |-> id, limit |-> limit]
NoVolume == Volume("none", 0, 0)
Volumes  == [kind : {"none", "bare", "data"}, id : Ids, limit : Limits]

\* The package file of a name.
File(limit, builds) == [there |-> TRUE, limit |-> limit, builds |-> builds]
NoFile == [File(0, FALSE) EXCEPT !.there = FALSE]
Files  == [there : BOOLEAN, limit : Limits, builds : BOOLEAN]

NoOp == [name |-> "none", new |-> NoFile, orig |-> NoFile,
         removeData |-> FALSE, aside |-> FALSE]

VARIABLES
    dir,      \* dir[n]: the data directory of n
    old,      \* old[n]: its backup <n>.old
    limits,   \* limits[id]: the hard limit of a project; 0 is no limit
    file,     \* file[n]: the package file of n
    quota,    \* DataDirectoryManager.quota_root is Some
    ids,      \* QuotaProjectIdManager.project_map, 0 for no entry ...
    oldIds,   \* ... and its entries for directories <n>.old
    volumes,  \* PackageVolumeManagerActor.volumes
    store,    \* the packages of the manager's store
    pc,       \* where the request under way is
    op,       \* its parameters
    todo,     \* the packages reload_packages has yet to create
    faults    \* the calls that may fail in this behaviour

disk    == <<dir, old, limits, file>>
memory  == <<quota, ids, oldIds, volumes>>
request == <<store, pc, op, todo>>
vars    == <<disk, memory, request, faults>>

TypeOK ==
    /\ dir \in [Names -> Dirs] /\ old \in [Names -> Dirs]
    /\ limits \in [Ids -> Limits]
    /\ file \in [Names -> Files]
    /\ quota \in BOOLEAN
    /\ ids \in [Names -> Ids] /\ oldIds \subseteq Ids \ {0}
    /\ volumes \in [Names -> Volumes]
    /\ store \subseteq Names
    /\ pc \in {"boot", "load", "idle", "aside", "acquire", "build", "undo",
               "restore", "recover", "purge", "file"}
    /\ op \in [name : Names \cup {"none"}, new : Files, orig : Files,
               removeData : BOOLEAN, aside : BOOLEAN]
    /\ todo \subseteq Names
    /\ faults \in FaultSets

Init ==
    /\ dir = [n \in Names |-> NoDir] /\ old = [n \in Names |-> NoDir]
    /\ limits = [id \in Ids |-> 0]
    /\ file = [n \in Names |-> NoFile]
    /\ quota = FALSE
    /\ ids = [n \in Names |-> 0] /\ oldIds = {}
    /\ volumes = [n \in Names |-> NoVolume]
    /\ store = {} /\ pc = "boot" /\ op = NoOp /\ todo = {}
    /\ faults \in FaultSets

-----------------------------------------------------------------------------
(* Helpers *)

\* A call that may fail: its result is one of Outcomes.
Outcomes(fault) == {TRUE} \cup {fault \notin faults}

\* What a call did that may fail, or be cut off by a crash, after any of the
\* steps it is made of.
Progress(fault, last) == IF fault \in faults THEN 0..last ELSE {last}

Goto(p) == pc' = p /\ UNCHANGED <<store, op, todo>>
Done(stored) ==
    /\ pc' = "idle" /\ op' = NoOp /\ store' = stored /\ UNCHANGED todo

InUse == {ids[n] : n \in Names} \cup oldIds \cup {0}
\* Bug: the number of entries is taken for the greatest id.
CountIds == Cardinality({n \in Names : ids[n] # 0}) + 1
\* next_id
NextId == (CHOOSE i \in InUse : \A j \in InUse : j <= i) + 1

\* The bound of a run: the code knows none.
Bounded(id) ==
    id <= IF faults \cap {"grant", "quota", "scan"} = {} THEN MaxId ELSE MaxIdBare

\* get_project_id: the id of the path if it has one.
ProjectId(n) == IF ids[n] # 0 THEN ids[n] ELSE NextId

\* make_directory: a directory that is there is kept.
Made(d) == IF d.made THEN d ELSE Directory(0, FALSE, {})

\* The directory after the first steps of create_data_directory: mkdir, flag,
\* project, limit, and then the data_dirs, which are made in the project the
\* directory has then.  Those that are there are left as they are; all versions
\* of a package ask for the same.
Granted(d, id, steps) ==
    LET flagged  == IF quota /\ steps >= 2 THEN [Made(d) EXCEPT !.inherit = TRUE]
                                           ELSE Made(d)
        assigned == IF quota /\ steps >= 3 THEN [flagged EXCEPT !.top = id]
                                           ELSE flagged
        project  == IF assigned.inherit THEN assigned.top ELSE 0
    IN  IF steps = 0 THEN d
        ELSE IF steps >= 5 /\ d.charged = {}
             THEN [assigned EXCEPT !.charged = {project}]
        ELSE assigned

\* What create_data_directory does to the disk in its first steps.
Grant(n, limit, id, steps) ==
    /\ dir' = [dir EXCEPT ![n] = Granted(@, id, steps)]
    /\ limits' = IF quota /\ steps >= 4 THEN [limits EXCEPT ![id] = limit]
                                        ELSE limits

\* handle_acquire_volume: the package runs without a data directory when it
\* cannot be made; the id is taken all the same.
AcquireVolume(n, limit) ==
    LET id == IF quota THEN ProjectId(n) ELSE 0
    IN  /\ Bounded(id)
        /\ ids' = IF quota THEN [ids EXCEPT ![n] = id] ELSE ids
        /\ \E steps \in Progress("grant", 5) :
              /\ Grant(n, limit, id, steps)
              /\ volumes' = [volumes EXCEPT ![n] =
                     IF steps = 5
                     THEN Volume("data", id, IF quota THEN limit ELSE 0)
                     ELSE Volume("bare", 0, 0)]
        /\ UNCHANGED <<quota, oldIds>>

\* The first steps of set_block_limit(false): flag, project, limit.
Revoked(d, steps) ==
    [d EXCEPT !.inherit = IF steps >= 1 THEN FALSE ELSE @,
              !.top     = IF steps >= 2 THEN 0 ELSE @]
\* Bug: -1 for no limit.
LimitsMinusOne(id, steps) ==
    IF steps >= 3 THEN [limits EXCEPT ![id] = 0 - 1] ELSE limits

LimitsWithout(id, steps) ==
    IF steps >= 3 THEN [limits EXCEPT ![id] = 0] ELSE limits

\* Revoking needs a quota entry and a directory to open.
Revocable(n) == volumes[n].id # 0 /\ dir[n].made

\* handle_purge_volume: the table forgets the volume; of its directory the quota
\* is revoked (an error is logged), then the id and the directory go.  A volume
\* without a directory leaves what it found.
PurgeVolume(n, ok) ==
    /\ volumes' = [volumes EXCEPT ![n] = NoVolume]
    /\ IF volumes[n].kind = "data"
       THEN /\ ok => dir[n].made
            /\ ~ok => ~dir[n].made \/ "remove" \in faults
            /\ ids' = [ids EXCEPT ![n] = 0]
            /\ \E steps \in IF Revocable(n) THEN Progress("clear", 3) ELSE {0} :
                  /\ limits' = LimitsWithout(volumes[n].id, steps)
                  /\ dir' = [dir EXCEPT ![n] =
                                 IF ok THEN NoDir ELSE Revoked(@, steps)]
       ELSE ok /\ UNCHANGED <<ids, limits, dir>>
    /\ UNCHANGED <<quota, oldIds>>

-----------------------------------------------------------------------------
(* Start of the daemon *)

\* Bug: no directory has a quota yet.
NoActiveId(d) == 0
\* get_active_projid
ActiveId(d) == IF d.made /\ d.inherit /\ d.top # 0 THEN d.top ELSE 0

\* PackageVolumeManagerActor::on_start: the quota of the file system, if it has
\* one that can be reached, and the ids on the directories, the backups among
\* them; one that cannot be read is left out.
Start ==
    /\ pc = "boot"
    /\ \E on \in Outcomes("quota") :
          /\ quota' = on
          /\ \E read, readOld \in [Names -> Outcomes("scan")] :
                /\ ids' = [n \in Names |->
                       IF on /\ read[n] THEN ActiveId(dir[n]) ELSE 0]
                /\ oldIds' = {ActiveId(old[n]) : n \in
                                  {m \in Names : on /\ readOld[m]}} \ {0}
    /\ todo' = {n \in Names : file[n].there}
    /\ pc' = IF todo' = {} THEN "idle" ELSE "load"
    /\ UNCHANGED <<disk, volumes, store, op, faults>>

\* load_parsed_package: the volume is acquired before the package is built.
Load ==
    /\ pc = "load"
    /\ \E n \in todo :
          /\ AcquireVolume(n, file[n].limit)
          /\ store' = IF file[n].builds THEN store \cup {n} ELSE store
          /\ todo' = todo \ {n}
    /\ pc' = IF todo' = {} THEN "idle" ELSE "load"
    /\ UNCHANGED <<old, file, op, faults>>

\* The daemon dies, or ends, and what it had in memory with it ...
Dies ==
    /\ pc # "boot"
    /\ quota' = FALSE /\ ids' = [n \in Names |-> 0] /\ oldIds' = {}
    /\ volumes' = [n \in Names |-> NoVolume]
    /\ store' = {} /\ pc' = "boot" /\ op' = NoOp /\ todo' = {}
    /\ UNCHANGED faults

\* ... between two requests or two steps of one ...
Crash == Dies /\ UNCHANGED disk

\* ... between two calls of a grant ...
CrashInGrant ==
    /\ Dies
    /\ \E n \in Names, limit \in Limits, steps \in 1..5 :
          /\ \/ pc = "load" /\ n \in todo /\ limit = file[n].limit
             \/ pc = "acquire" /\ n = op.name /\ limit = op.new.limit
             \/ pc = "recover" /\ n = op.name /\ limit = op.orig.limit
          /\ Bounded(ProjectId(n))
          /\ Grant(n, limit, IF quota THEN ProjectId(n) ELSE 0, steps)
    /\ UNCHANGED <<old, file>>

\* ... between the calls of a revocation ...
CrashInPurge ==
    /\ Dies
    /\ "cut" \in faults
    /\ \/ pc = "purge" /\ UNCHANGED file
       \/ pc = "undo" /\ file' = [file EXCEPT ![op.name] = op.orig]
    /\ Revocable(op.name)
    /\ \E steps \in 1..3 :
          /\ dir' = [dir EXCEPT ![op.name] = Revoked(@, steps)]
          /\ limits' = LimitsWithout(volumes[op.name].id, steps)
    /\ UNCHANGED old

\* ... or before the backup is renamed back.
CrashInRestore ==
    /\ Dies
    /\ pc = "restore"
    /\ dir' = [dir EXCEPT ![op.name] = NoDir]
    /\ UNCHANGED <<old, limits, file>>

-----------------------------------------------------------------------------
(* Install, with what it does to the files in one step: PackageInstall has  *)
(* these in detail.                                                         *)

\* The file is copied, the installed one backed up; when that fails the
\* installed package is created again.
InstallRequest ==
    /\ pc = "idle"
    /\ \E c \in Incoming, remove \in BOOLEAN :
          LET n    == c.name
              orig == IF n \in store THEN file[n] ELSE NoFile
              new  == File(c.limit, c.builds)
          IN  \/ /\ c.builds \/ "build" \in faults
                 /\ file' = [file EXCEPT ![n] = new]
                 /\ op' = [name |-> n, new |-> new, orig |-> orig,
                           removeData |-> remove /\ orig.there, aside |-> FALSE]
                 /\ pc' = IF op'.removeData THEN "aside" ELSE "acquire"
              \/ /\ "copy" \in faults
                 /\ file' = [file EXCEPT ![n] = orig]
                 /\ op' = [NoOp EXCEPT !.name = n, !.orig = orig]
                 /\ pc' = IF orig.there THEN "recover" ELSE "idle"
    /\ UNCHANGED <<dir, old, limits, memory, store, todo, faults>>

\* backup_data_dir: the directory takes its project with it.
SetDataAside ==
    /\ pc = "aside"
    /\ old' = [old EXCEPT ![op.name] = dir[op.name]]
    /\ dir' = [dir EXCEPT ![op.name] = NoDir]
    /\ op' = [op EXCEPT !.aside = dir[op.name].made]
    /\ pc' = "acquire"
    /\ UNCHANGED <<limits, file, memory, store, todo, faults>>

Acquire ==
    /\ pc = "acquire"
    /\ AcquireVolume(op.name, op.new.limit)
    /\ Goto("build")
    /\ UNCHANGED <<old, file, faults>>

\* Package::new, and the removal of the backup when it succeeds.
Build ==
    /\ pc = "build"
    /\ IF op.new.builds
       THEN /\ Done(store \cup {op.name})
            /\ \E gone \in Outcomes("cleanup") :
                  old' = IF op.aside /\ gone THEN [old EXCEPT ![op.name] = NoDir]
                                             ELSE old
       ELSE Goto("undo") /\ UNCHANGED old
    /\ UNCHANGED <<dir, limits, file, memory, faults>>

\* The package that was installed is created again, if there was one.
Recovers == Goto(IF op.orig.there THEN "recover" ELSE "idle")

\* After a failed build: a volume that is fresh is purged, one whose data was
\* to be kept is left as the new version has it.
Undo ==
    /\ pc = "undo"
    /\ file' = [file EXCEPT ![op.name] = op.orig]
    /\ IF op.aside \/ op.removeData \/ ~op.orig.there
       THEN \E ok \in BOOLEAN : PurgeVolume(op.name, ok)
       ELSE UNCHANGED <<dir, limits, memory>>
    /\ IF op.aside THEN Goto("restore") ELSE Recovers
    /\ UNCHANGED <<old, faults>>

\* The backup is renamed back over what is left of the fresh directory.
RestoreData ==
    /\ pc = "restore"
    /\ LET n == op.name
       IN  \/ dir' = [dir EXCEPT ![n] = old[n]] /\ old' = [old EXCEPT ![n] = NoDir]
           \/ /\ "restore" \in faults
              /\ dir' \in {dir, [dir EXCEPT ![n] = NoDir]}
              /\ UNCHANGED old
    /\ Goto("recover")
    /\ UNCHANGED <<limits, file, memory, faults>>

\* Bug: the package comes back with the volume it has.
RecoverWithVolume ==
    /\ pc = "recover"
    /\ Done(store \cup {op.name})
    /\ UNCHANGED <<disk, memory, faults>>

\* try_recover: the file was built before, so it is again.
Recover ==
    /\ pc = "recover"
    /\ AcquireVolume(op.name, op.orig.limit)
    /\ Done(store \cup {op.name})
    /\ UNCHANGED <<old, file, faults>>

-----------------------------------------------------------------------------
(* Removal *)

RemoveRequest ==
    /\ pc = "idle"
    /\ \E n \in store :
          /\ store' = store \ {n}
          /\ op' = [NoOp EXCEPT !.name = n, !.orig = file[n]]
    /\ pc' = "purge"
    /\ UNCHANGED <<disk, memory, todo, faults>>

\* A broken package has its file removed, not its volume.
RemoveBroken ==
    /\ pc = "idle"
    /\ \E n \in Names \ store :
          /\ file[n].there
          /\ file' = [file EXCEPT ![n] = NoFile]
    /\ UNCHANGED <<dir, old, limits, memory, request, faults>>

Purge ==
    /\ pc = "purge"
    /\ \E ok \in BOOLEAN :
          PurgeVolume(op.name, ok) /\ Goto(IF ok THEN "file" ELSE "recover")
    /\ UNCHANGED <<old, file, faults>>

RemoveFile ==
    /\ pc = "file"
    /\ file' = [file EXCEPT ![op.name] = NoFile]
    /\ Done(store)
    /\ UNCHANGED <<dir, old, limits, memory, faults>>

-----------------------------------------------------------------------------

Daemon  == Start \/ Load \/ Crash \/ CrashInGrant \/ CrashInPurge \/ CrashInRestore
Install == InstallRequest \/ SetDataAside \/ Acquire \/ Build \/ Undo
               \/ RestoreData \/ Recover
Remove  == RemoveRequest \/ RemoveBroken \/ Purge \/ RemoveFile

Next == Daemon \/ Install \/ Remove

Spec == Init /\ [][Next]_vars

-----------------------------------------------------------------------------
(* Safety *)

\* The packages whose data directory is under quota.
Limited == {n \in Names : volumes[n].kind = "data" /\ volumes[n].id # 0 /\ pc = "idle"}

\* The daemon knows the projects of all directories: a start can read them; no
\* death cuts a revocation off after the flag and before the project; no directory
\* whose revocation failed stays because its removal fails too; and a directory
\* renamed back after a failed build, whose id is forgotten by then, gets its new
\* project.
KeepsTrack ==
    /\ faults \cap {"cut", "scan"} = {}
    /\ ~({"clear", "remove"} \subseteq faults)
    /\ ~({"build", "grant"} \subseteq faults)

\* Two packages never share a project, whatever else fails and wherever the
\* daemon dies: next_id gives no id that is on a directory.
OwnProject ==
    KeepsTrack => \A m, n \in Limited : m # n => dir[m].top # dir[n].top

\* Between two requests the limit in force for a package's directory is the one
\* of the version that is installed, which is also what the daemon reports.
LimitInForce ==
    KeepsTrack =>
        \A n \in Limited \cap store :
            /\ dir[n].top = volumes[n].id
            /\ limits[dir[n].top] = file[n].limit
            /\ volumes[n].limit = file[n].limit

\* A restart and an upgrade that keeps the data leave the project of a directory
\* as it is, for its data is charged to it; but a project that cannot be read at
\* a start is forgotten.
ProjectIsKept ==
    [][\A n \in Names :
           /\ "scan" \notin faults
           /\ \/ pc = "load"
              \/ pc \in {"acquire", "recover"} /\ volumes[n].kind = "data"
           /\ dir[n].inherit /\ dir[n].top \in dir[n].charged \ {0}
           => dir'[n].top = dir[n].top]_vars

\* set_block_limit: "Set the quota block limit of the data directory"; what a
\* package stores is charged to the project its limit is on.
DataIsLimited == \A n \in Limited : dir[n].charged \subseteq {dir[n].top}

\* It is, as long as every version builds, every removal goes through and the
\* quota is always there.
DataIsLimitedOtherwise ==
    faults \cap {"build", "remove", "quota", "scan", "cut"} = {} => DataIsLimited
=============================================================================
