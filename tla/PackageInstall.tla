--------------------------- MODULE PackageInstall ---------------------------
(***************************************************************************)
(* The package manager actor, the transaction actor it delegates to, and   *)
(* what outlives them: the package directories and the data directories.   *)
(*                                                                         *)
(* The manager serves one request at a time, so pc is the place where the  *)
(* one install or removal under way is; the places are cut wherever the    *)
(* disk changes, because the daemon may die there and come back with       *)
(* nothing but the disk (Crash, then Reload).                              *)
(*                                                                         *)
(* A package file is a record [pkg, ver, builds]: the package it declares, *)
(* its version, and whether Package::new accepts it.  Files of the bundled *)
(* directory are part of the system image and can be parsed.               *)
(***************************************************************************)
EXTENDS Naturals

CONSTANTS
    Names,        \* package names
    Files,        \* file names in the downloaded directory
    DestFile,     \* DestFile[n]: the name an install of package n writes to
    Versions,     \* version numbers
    Bundled,      \* Bundled[n]: the bundled file of package n, or NoFile
    Preinstalled, \* what the downloaded directory may hold at first
    Incoming,     \* the files users install
    Faults        \* the calls that may fail, of InstallFaults

InstallFaults == {"upgrade", "teardown", "backup", "copy", "volume", "rollback",
                  "restore", "data", "remove", "cleanup"}

Content(n, v, b) == [pkg |-> n, ver |-> v, builds |-> b]
NoFile   == Content("none", 0, FALSE)
Corrupt  == Content("corrupt", 0, FALSE)
Packages == [pkg : Names, ver : Versions, builds : BOOLEAN]
Contents == Packages \cup {Corrupt, NoFile}

ASSUME InstallConstantsOK ==
    /\ {"none", "corrupt", "bundled"} \cap (Names \cup Files) = {}
    /\ Names \cap Files = {}
    /\ DestFile \in [Names -> Files]
    /\ \A m, n \in Names : DestFile[m] = DestFile[n] => m = n
    /\ Versions \subseteq Nat \ {0}
    /\ Bundled \in [Names -> Packages \cup {NoFile}]
    /\ \A n \in Names : Bundled[n] # NoFile => Bundled[n].pkg = n
    /\ Preinstalled \subseteq [Files -> Contents]
    \* The file an install of n writes to declares n, if it can be parsed.
    /\ \A pre \in Preinstalled, n \in Names :
           pre[DestFile[n]] \in Packages => pre[DestFile[n]].pkg = n
    /\ Incoming \subseteq Packages
    /\ Faults \subseteq InstallFaults

\* A file name that cannot be parsed stands for a package name in the store.
Keys  == Names \cup Files
Paths == Files \cup {"bundled"}

\* What a Package object was built from.
Entry(p, v) == [path |-> p, ver |-> v]
NoEntry == Entry("none", 0)
Entries == [path : Paths, ver : Versions] \cup {NoEntry}

NoOp == [kind |-> "none", name |-> "none", new |-> NoFile, removeData |-> FALSE,
         orig |-> NoEntry, hadData |-> FALSE, aside |-> FALSE, built |-> FALSE,
         stuck |-> {}]

VARIABLES
    files,     \* files[f]: the downloaded directory
    olds,      \* olds[f]: the backup <f>.old next to it
    data,      \* data[n]: the data directory, "none", "empty" or "user" data
    dataOld,   \* dataOld[n]: its backup <n>.old
    packages,  \* PackageStore.packages
    broken,    \* PackageStore.broken_packages: the path of a broken file
    vols,      \* PackageVolumeManagerActor.volumes: "none", "data" or "bare"
    volumeUp,  \* that actor is alive
    pc,        \* where the request under way is
    op,        \* its parameters; after an error or a crash, the last one's
    answer     \* what the last request was answered

disk == <<files, olds, data, dataOld>>
store == <<packages, broken>>
volumes == <<vols, volumeUp>>
vars == <<disk, store, volumes, pc, op, answer>>

DataStates == {"none", "empty", "user"}

TypeOK ==
    /\ files \in [Files -> Contents] /\ olds \in [Files -> Contents]
    /\ data \in [Names -> DataStates] /\ dataOld \in [Names -> DataStates]
    /\ packages \in [Names -> Entries]
    /\ broken \in [Keys -> Paths \cup {"none"}]
    /\ vols \in [Names -> {"none", "data", "bare"}]
    /\ volumeUp \in BOOLEAN
    /\ pc \in {"boot", "idle", "backup", "copy", "aside", "acquire", "build",
               "commit", "rollback", "undo", "recover", "purge", "file",
               "restore"}
    /\ op \in [kind : {"none", "install", "remove"}, name : Keys \cup {"none"},
               new : Contents, removeData : BOOLEAN,
               orig : [path : Paths \cup {"none"}, ver : Versions \cup {0}],
               hadData : BOOLEAN, aside : BOOLEAN, built : BOOLEAN,
               stuck : SUBSET {"file", "data"}]
    /\ answer \in {"none", "ok", "err"}

Init ==
    /\ files \in Preinstalled
    /\ olds = [f \in Files |-> NoFile]
    /\ data \in [Names -> {"none", "user"}]
    /\ dataOld = [n \in Names |-> "none"]
    /\ packages = [n \in Names |-> NoEntry]
    /\ broken = [k \in Keys |-> "none"]
    /\ vols = [n \in Names |-> "none"] /\ volumeUp = TRUE
    /\ pc = "boot" /\ op = NoOp /\ answer = "none"

-----------------------------------------------------------------------------
(* Helpers *)

\* A call that may fail: its result is one of Outcomes.
Outcomes(fault) == {TRUE} \cup {fault \notin Faults}

Parses(c) == c \in Packages

\* The file a package path names.
FileAt(n, path) == IF path = "bundled" THEN Bundled[n] ELSE files[path]

Goto(p) == pc' = p /\ UNCHANGED <<op, answer>>

\* The request is answered.  The parameters of one that failed are kept.
Reply(a) ==
    /\ pc' = "idle" /\ answer' = a
    /\ op' = IF a = "ok" THEN NoOp ELSE op

\* create_data_directory: the directory is kept if it exists.  When it, its
\* quota or its subdirectories cannot be made the package runs without it.
AcquireVolume(n) ==
    LET made == [data EXCEPT ![n] = IF @ = "none" THEN "empty" ELSE @]
    IN  /\ volumeUp
        /\ \/ vols' = [vols EXCEPT ![n] = "data"] /\ data' = made
           \/ /\ "data" \in Faults
              /\ vols' = [vols EXCEPT ![n] = "bare"] /\ data' \in {data, made}
        /\ UNCHANGED volumeUp

\* handle_purge_volume: the table forgets the volume, then its directory goes.
PurgeVolume(n, ok) ==
    /\ \/ /\ volumeUp
          /\ vols' = [vols EXCEPT ![n] = "none"]
          /\ \/ vols[n] = "data" /\ ok /\ data[n] # "none"
                /\ data' = [data EXCEPT ![n] = "none"]
             \/ vols[n] = "data" /\ ~ok /\ ("data" \in Faults \/ data[n] = "none")
                /\ UNCHANGED data
             \/ vols[n] # "data" /\ ok /\ UNCHANGED data
       \/ ~volumeUp /\ ~ok /\ UNCHANGED <<vols, data>>
    /\ UNCHANGED volumeUp

\* The data directory's backup is renamed back over whatever is there.
RestoreData(n) ==
    \E ok \in Outcomes("restore") :
        /\ data' = [data EXCEPT ![n] = IF ok THEN dataOld[n] ELSE "none"]
        /\ dataOld' = IF ok THEN [dataOld EXCEPT ![n] = "none"] ELSE dataOld
        /\ op' = IF ok THEN op ELSE [op EXCEPT !.stuck = @ \cup {"data"}]

-----------------------------------------------------------------------------
(* Start of the daemon *)

\* The downloaded files that declare package n.
Overrides(n) == {f \in Files : Parses(files[f]) /\ files[f].pkg = n}

\* reload_packages: the candidates for n are its downloaded files, or else the
\* bundled one; of several the last in directory order is kept.
Candidates(n) ==
    IF Overrides(n) # {} THEN Overrides(n)
    ELSE IF Bundled[n] # NoFile THEN {"bundled"} ELSE {}

Reload ==
    /\ pc = "boot"
    /\ \E good, bad \in [Names -> Paths \cup {"none"}] :
          /\ \A n \in Names :
                LET works == {p \in Candidates(n) : FileAt(n, p).builds}
                    fails == Candidates(n) \ works
                IN  /\ IF works = {} THEN good[n] = "none" ELSE good[n] \in works
                    /\ IF fails = {} THEN bad[n] = "none" ELSE bad[n] \in fails
          /\ packages' = [n \in Names |->
                 IF good[n] = "none" THEN NoEntry
                 ELSE Entry(good[n], FileAt(n, good[n]).ver)]
          /\ broken' = [k \in Keys |->
                 IF k \in Names THEN bad[k]
                 ELSE IF files[k] = Corrupt THEN k ELSE "none"]
    /\ vols' \in [Names -> {"none", "data"} \cup
                               (IF "data" \in Faults THEN {"bare"} ELSE {})]
    /\ \A n \in Names : vols'[n] = "none" <=> Candidates(n) = {}
    /\ data' = [n \in Names |->
           IF vols'[n] = "data" /\ data[n] = "none" THEN "empty" ELSE data[n]]
    /\ Goto("idle")
    /\ UNCHANGED <<files, olds, dataOld, volumeUp>>

\* The daemon dies, or ends after teardown_all: all but the disk is gone.
Crash ==
    /\ pc # "boot"
    /\ packages' = [n \in Names |-> NoEntry]
    /\ broken' = [k \in Keys |-> "none"]
    /\ vols' = [n \in Names |-> "none"] /\ volumeUp' = TRUE
    /\ pc' = "boot" /\ answer' = "none"
    /\ UNCHANGED <<disk, op>>

\* teardown_all on SIGTERM: errors are logged and the store is emptied, while
\* the server goes on serving for a moment.
TeardownAll ==
    /\ pc = "idle"
    /\ packages' = [n \in Names |-> NoEntry]
    /\ broken' = [k \in Keys |-> "none"]
    /\ answer' = "none"
    /\ UNCHANGED <<disk, volumes, pc, op>>

\* The volume manager actor panics: nobody starts another one.
VolumeManagerDies ==
    /\ volumeUp /\ "volume" \in Faults
    /\ volumeUp' = FALSE
    /\ UNCHANGED <<disk, store, vols, pc, op, answer>>

\* A package that is up writes to its data directory.
UserWrites ==
    \E n \in Names :
        /\ packages[n] # NoEntry /\ vols[n] = "data" /\ data[n] = "empty"
        /\ pc = "idle" \/ op.name # n
        /\ data' = [data EXCEPT ![n] = "user"]
        /\ UNCHANGED <<files, olds, dataOld, store, volumes, pc, op, answer>>

-----------------------------------------------------------------------------
(* handle_install_package *)

UpgradesDownloaded == op.orig.path \in Files
dest == DestFile[op.new.pkg]

\* A file that cannot be parsed, or whose version is not newer without force,
\* is refused before anything changes.  The installed package is taken down
\* first; if that fails it stays in the store, in Error.
InstallRequest ==
    /\ pc = "idle"
    /\ \E c \in Incoming, force, remove \in BOOLEAN :
          LET orig == packages[c.pkg]
          IN  /\ orig = NoEntry \/ c.ver > orig.ver \/ force
              /\ broken' = [broken EXCEPT ![DestFile[c.pkg]] = "none"]
              /\ op' = [NoOp EXCEPT
                     !.kind = "install", !.name = c.pkg, !.new = c,
                     !.removeData = remove /\ orig # NoEntry, !.orig = orig,
                     !.hadData = data[c.pkg] = "user"]
              /\ \/ /\ pc' = IF orig.path \in Files THEN "backup" ELSE "copy"
                    /\ answer' = "none"
                 \/ /\ orig # NoEntry /\ "upgrade" \in Faults
                    /\ pc' = "idle" /\ answer' = "err"
    /\ UNCHANGED <<disk, packages, volumes>>

Backup ==
    /\ pc = "backup"
    /\ LET f == op.orig.path
       IN  \/ /\ files[f] # NoFile
              /\ olds' = [olds EXCEPT ![f] = files[f]]
              /\ files' = [files EXCEPT ![f] = NoFile]
              /\ Goto("copy")
           \/ /\ files[f] = NoFile \/ "backup" \in Faults
              /\ Goto("recover")
              /\ UNCHANGED <<files, olds>>
    /\ UNCHANGED <<data, dataOld, store, volumes>>

\* Written to a temporary file and renamed: all of it or nothing.
Copy ==
    /\ pc = "copy"
    /\ \/ /\ files' = [files EXCEPT ![dest] = op.new]
          /\ Goto(IF op.removeData THEN "aside" ELSE "acquire")
       \/ /\ "copy" \in Faults
          /\ Goto("rollback")
          /\ UNCHANGED files
    /\ UNCHANGED <<olds, data, dataOld, store, volumes>>

\* Bug: the data directory is deleted instead of renamed.
DeleteData ==
    /\ pc = "aside"
    /\ data' = [data EXCEPT ![op.name] = "none"]
    /\ Goto("acquire")
    /\ UNCHANGED <<files, olds, dataOld, store, volumes>>

\* backup_data_dir: a stale backup is deleted first.
SetDataAside ==
    /\ pc = "aside"
    /\ LET n == op.name
       IN  \/ /\ dataOld' = [dataOld EXCEPT ![n] = data[n]]
              /\ data' = [data EXCEPT ![n] = "none"]
              /\ op' = [op EXCEPT !.aside = data[n] # "none"]
              /\ pc' = "acquire"
           \/ /\ data[n] # "none" /\ "backup" \in Faults
              /\ dataOld' = [dataOld EXCEPT ![n] = "none"]
              /\ pc' = "rollback"
              /\ UNCHANGED <<data, op>>
    /\ UNCHANGED <<files, olds, store, volumes, answer>>

\* AcquireVolume is answered Ok unless the volume manager is dead.
Acquire ==
    /\ pc = "acquire"
    /\ \/ /\ AcquireVolume(op.name)
          /\ Goto("build")
          /\ UNCHANGED dataOld
       \/ /\ ~volumeUp
          /\ IF op.aside THEN RestoreData(op.name)
                         ELSE UNCHANGED <<data, dataOld, op>>
          /\ pc' = "rollback"
          /\ UNCHANGED <<volumes, answer>>
    /\ UNCHANGED <<files, olds, store>>

\* Bug: the backup is dropped as soon as the new file is in place.
BuildWithoutBackup ==
    /\ pc = "build"
    /\ pc' = IF op.new.builds THEN "commit" ELSE "rollback"
    /\ olds' = IF UpgradesDownloaded THEN [olds EXCEPT ![op.orig.path] = NoFile]
                                     ELSE olds
    /\ op' = [op EXCEPT !.built = TRUE]
    /\ UNCHANGED <<files, data, dataOld, store, volumes, answer>>

\* Package::new
Build ==
    /\ pc = "build"
    /\ pc' = IF op.new.builds THEN "commit" ELSE "rollback"
    /\ op' = [op EXCEPT !.built = TRUE]
    /\ UNCHANGED <<disk, store, volumes, answer>>

\* The backups are dropped, or left behind with a warning, and the new package
\* is stored.
Commit ==
    /\ pc = "commit"
    /\ packages' = [packages EXCEPT ![op.name] = Entry(dest, op.new.ver)]
    /\ \E fileGone, dataGone \in Outcomes("cleanup") :
          /\ olds' = IF UpgradesDownloaded /\ fileGone
                     THEN [olds EXCEPT ![op.orig.path] = NoFile] ELSE olds
          /\ dataOld' = IF op.aside /\ dataGone
                        THEN [dataOld EXCEPT ![op.name] = "none"] ELSE dataOld
    /\ Reply("ok")
    /\ UNCHANGED <<files, data, broken, volumes>>

\* What follows a rollback: the data first if the package was built.
AfterRollback == IF op.built THEN "undo" ELSE "recover"

\* Bug: the new file is removed whatever the mode.
RemoveDest ==
    /\ pc = "rollback"
    /\ files' = [files EXCEPT ![dest] = NoFile]
    /\ Goto(AfterRollback)
    /\ UNCHANGED <<olds, data, dataOld, store, volumes>>

\* rollback_file_ops: the backup is renamed back, or else the new file removed.
\* An error is logged and dropped.
Rollback ==
    /\ pc = "rollback"
    /\ \/ /\ UpgradesDownloaded
          /\ files' = [files EXCEPT ![op.orig.path] = olds[op.orig.path]]
          /\ olds' = [olds EXCEPT ![op.orig.path] = NoFile]
          /\ UNCHANGED op
       \/ /\ ~UpgradesDownloaded
          /\ files' = [files EXCEPT ![dest] = NoFile]
          /\ UNCHANGED <<olds, op>>
       \/ /\ "rollback" \in Faults
          /\ op' = [op EXCEPT !.stuck = @ \cup {"file"}]
          /\ UNCHANGED <<files, olds>>
    /\ pc' = AfterRollback
    /\ UNCHANGED <<data, dataOld, store, volumes, answer>>

\* After a failed build: the old data comes back, whether the purge of the
\* volume failed or not; without a backup the volume is purged if it is fresh.
Undo ==
    /\ pc = "undo"
    /\ LET n == op.name
       IN  \/ /\ op.aside
              /\ vols' = IF volumeUp THEN [vols EXCEPT ![n] = "none"] ELSE vols
              /\ RestoreData(n)
              /\ UNCHANGED volumeUp
           \/ /\ ~op.aside /\ (op.removeData \/ op.orig = NoEntry)
              /\ \E ok \in BOOLEAN : PurgeVolume(n, ok)
              /\ UNCHANGED <<dataOld, op>>
           \/ /\ ~op.aside /\ ~op.removeData /\ op.orig # NoEntry
              /\ UNCHANGED <<data, dataOld, volumes, op>>
    /\ pc' = "recover"
    /\ UNCHANGED <<files, olds, store, answer>>

-----------------------------------------------------------------------------
(* try_recover *)

\* Bug: the store keeps the package it had, whatever is on the disk now.
KeepEntry(n, path) ==
    /\ packages' = [packages EXCEPT ![n] = op.orig]
    /\ UNCHANGED <<volumes, data>>

\* The file is parsed and its package created again; if that fails the store
\* forgets it.
TryRecover(n, path) ==
    LET c == FileAt(n, path)
    IN  \/ /\ Parses(c)
           /\ AcquireVolume(n)
           /\ packages' = [packages EXCEPT ![n] =
                  IF c.builds THEN Entry(path, c.ver) ELSE NoEntry]
        \/ /\ ~Parses(c) \/ ~volumeUp
           /\ packages' = [packages EXCEPT ![n] = NoEntry]
           /\ UNCHANGED <<volumes, data>>

\* After a failed install or purge.  A fresh install has nothing to recover.
Recover ==
    /\ pc = "recover"
    /\ IF op.orig = NoEntry THEN UNCHANGED <<packages, volumes, data>>
                            ELSE TryRecover(op.name, op.orig.path)
    /\ Reply("err")
    /\ UNCHANGED <<files, olds, dataOld, broken>>

-----------------------------------------------------------------------------
(* remove_package, with purge: the only way it is called *)

\* A bundled package is refused; one that cannot be torn down stays.
RemoveRequest ==
    /\ pc = "idle"
    /\ \E n \in Names :
          /\ packages[n].path \in Files
          /\ op' = [NoOp EXCEPT !.kind = "remove", !.name = n,
                                !.orig = packages[n]]
          /\ \/ /\ packages' = [packages EXCEPT ![n] = NoEntry]
                /\ pc' = "purge" /\ answer' = "none"
             \/ /\ "teardown" \in Faults
                /\ pc' = "idle" /\ answer' = "err"
                /\ UNCHANGED packages
    /\ UNCHANGED <<disk, broken, volumes>>

\* The key of a broken package names a package or a file.
RemoveBroken ==
    /\ pc = "idle"
    /\ \E k \in Keys :
          /\ k \in Names => packages[k] = NoEntry
          /\ broken[k] \in Files
          /\ broken' = [broken EXCEPT ![k] = "none"]
          /\ op' = [NoOp EXCEPT !.kind = "remove", !.name = k,
                                !.orig = Entry(broken[k], 0)]
    /\ pc' = "file" /\ answer' = "none"
    /\ UNCHANGED <<disk, packages, volumes>>

Purge ==
    /\ pc = "purge"
    /\ \E ok \in BOOLEAN :
          /\ PurgeVolume(op.name, ok)
          /\ Goto(IF ok THEN "file" ELSE "recover")
    /\ UNCHANGED <<files, olds, dataOld, store>>

\* remove_package_file: a file that is not there is no error.
RemoveFile ==
    /\ pc = "file"
    /\ \/ /\ files' = [files EXCEPT ![op.orig.path] = NoFile]
          /\ IF op.name \in Names /\ Bundled[op.name] # NoFile
             THEN Goto("restore") ELSE Reply("ok")
       \/ /\ "remove" \in Faults
          /\ Reply("err")
          /\ UNCHANGED files
    /\ UNCHANGED <<olds, data, dataOld, store, volumes>>

\* The bundled package comes back after its override is gone.
RestoreBundled ==
    /\ pc = "restore"
    /\ TryRecover(op.name, "bundled")
    /\ Reply("ok")
    /\ UNCHANGED <<files, olds, dataOld, broken>>

-----------------------------------------------------------------------------

Install == InstallRequest \/ Backup \/ Copy \/ SetDataAside \/ Acquire \/ Build
               \/ Commit \/ Rollback \/ Undo \/ Recover

Remove == RemoveRequest \/ RemoveBroken \/ Purge \/ RemoveFile \/ RestoreBundled

Next == Reload \/ Crash \/ TeardownAll \/ VolumeManagerDies \/ UserWrites
            \/ Install \/ Remove

Spec == Init /\ [][Next]_vars

-----------------------------------------------------------------------------
(* Safety *)

\* Between two requests every package of the store is the one its file holds:
\* what is mounted at the next setup is what the store says is installed.
StoreMatchesDisk ==
    pc = "idle" =>
        \A n \in Names : packages[n] # NoEntry =>
            FileAt(n, packages[n].path) = Content(n, packages[n].ver, TRUE)

\* From its backup to the commit of its successor, the installed file of an
\* upgrade is on the disk, under its own name or its backup's, whatever fails
\* and wherever the daemon dies.
InstalledFileSurvives ==
    op.kind = "install" /\ op.orig.path \in Files =>
        Content(op.name, op.orig.ver, TRUE)
            \in {files[op.orig.path], olds[op.orig.path]}

\* The user's data survives an upgrade that fails or dies, one that is to
\* remove the data included.
UserDataSurvives ==
    op.kind = "install" /\ op.orig # NoEntry /\ op.hadData =>
        "user" \in {data[op.name], dataOld[op.name]}

\* An upgrade that is answered with an error has been undone: the package is in
\* the store as it was and its data is in place, unless a step of the rollback
\* itself failed or the package cannot be created again.
FailedUpgradeIsUndone ==
    pc = "idle" /\ answer = "err" /\ op.kind = "install" /\ op.orig # NoEntry =>
        /\ "file" \in op.stuck \/ ~volumeUp \/ packages[op.name] = op.orig
        /\ op.hadData => "data" \in op.stuck \/ data[op.name] = "user"
=============================================================================
