------------------------ MODULE PackageInstallProofs ------------------------
(***************************************************************************)
(* What holds of PackageInstall for every value of the constants: installs *)
(* and removals keep the store, the package files and the users' data      *)
(* together, whatever fails and wherever the daemon dies.                  *)
(***************************************************************************)
EXTENDS PackageInstall, TLAPS

-----------------------------------------------------------------------------
(* The inductive invariant *)

Declares(c, k) == Parses(c) => c.pkg = k

\* The package the request under way is to replace, as its file holds it.
Replaced == Content(op.name, op.orig.ver, TRUE)

Serving   == pc \notin {"boot", "idle"}
Replacing == op.kind = "install" /\ op.orig.path \in Files

\* The request under way, and what the store says of its package meanwhile.
OpInv ==
    /\ pc \in {"backup", "copy", "aside", "acquire", "build", "commit",
               "rollback", "undo"} => op.kind = "install"
    /\ pc \in {"purge", "file", "restore"} => op.kind = "remove"
    /\ pc = "recover" => op.kind # "none"
    /\ pc \in {"purge", "restore", "recover"} => op.name \in Names
    /\ pc = "backup" => op.orig.path \in Files
    /\ op.kind = "install" => /\ op.name \in Names /\ op.new \in Packages
                              /\ op.new.pkg = op.name /\ op.orig \in Entries
    /\ op.kind = "remove" => op.orig.path \in Files
    /\ op.kind = "install" /\ Serving => packages[op.name] = op.orig
    /\ Serving /\ op.kind = "remove" /\ op.name \in Names =>
           packages[op.name] = NoEntry
    /\ pc = "boot" => answer = "none"

\* The package files: each keeps the package it is named for, and an upgrade
\* always has the one it replaces.
FileInv ==
    /\ \A n \in Names : Declares(files[DestFile[n]], n) /\ Declares(olds[DestFile[n]], n)
    /\ Serving /\ op.orig.path \in Files => Declares(files[op.orig.path], op.name)
    /\ op.kind = "install" /\ op.orig.path = "bundled" => Bundled[op.name] = Replaced
    /\ pc \in {"aside", "acquire", "build", "commit"} => files[dest] = op.new
    /\ pc = "commit" => op.new.builds
    /\ Replacing =>
           /\ pc = "backup" => files[op.orig.path] = Replaced
           /\ pc \in {"copy", "aside", "acquire", "build", "commit", "rollback"} =>
                  olds[op.orig.path] = Replaced
           /\ pc \in {"undo", "recover"} =>
                  "file" \in op.stuck \/ files[op.orig.path] = Replaced
    /\ InstalledFileSurvives

\* The broken files: each is filed under the package it declares or, if it
\* cannot be parsed, under its own name.
BrokenInv ==
    /\ \A k \in Keys : broken[k] \in Files => Declares(files[broken[k]], k)
    /\ \A m, n \in Names : broken[m] = DestFile[n] => m = n
    /\ \A f \in Files : broken[f] \in {f, "none"}
    /\ Serving /\ op.kind = "install" =>
           /\ broken[dest] = "none"
           /\ Replacing => \A k \in Keys : broken[k] = op.orig.path => k = op.name

InStoreAsOnDisk(n) ==
    packages[n] # NoEntry =>
        FileAt(n, packages[n].path) = Content(n, packages[n].ver, TRUE)

\* The store agrees with the disk, but for the package of the request under way.
StoreInv ==
    /\ \A n \in Names : (Serving /\ n = op.name) \/ InStoreAsOnDisk(n)
    /\ pc = "idle" /\ answer = "err" /\ op.kind = "install" =>
           "file" \in op.stuck \/ ~volumeUp \/ packages[op.name] = op.orig

\* Where the user's data is during an upgrade.
DataInv ==
    LET n == op.name
    IN  /\ pc \in {"backup", "copy", "aside"} => ~op.aside
        /\ pc \in {"backup", "copy", "aside", "acquire"} => ~op.built
        /\ op.kind = "install" /\ op.orig # NoEntry /\ op.hadData =>
               /\ pc \in {"backup", "copy", "aside"} => data[n] = "user"
               /\ pc \in {"acquire", "build", "commit", "undo"}
                  \/ (pc = "rollback" /\ op.built) =>
                      IF op.aside THEN dataOld[n] = "user"
                                  ELSE data[n] = "user" /\ ~op.removeData
               /\ pc = "recover" \/ (pc = "rollback" /\ ~op.built)
                  \/ (pc = "idle" /\ answer = "err") =>
                      "data" \in op.stuck \/ data[n] = "user"
        /\ UserDataSurvives

IInv == TypeOK /\ OpInv /\ FileInv /\ BrokenInv /\ StoreInv /\ DataInv

-----------------------------------------------------------------------------
(* The constants and the first state *)

LEMMA Unparsable ==
  /\ NoFile \notin Packages /\ Corrupt \notin Packages
  /\ NoFile \in Contents /\ Corrupt \in Contents /\ Packages \subseteq Contents
  /\ \A k \in Keys : Declares(NoFile, k) /\ Declares(Corrupt, k)
BY InstallConstantsOK DEF NoFile, Corrupt, Packages, Contents, Content, Declares, Parses

LEMMA Places ==
  /\ "bundled" \notin Files /\ "none" \notin Files
  /\ "none" \notin Names /\ "none" # "bundled"
  /\ Paths = Files \cup {"bundled"} /\ Keys = Names \cup Files
  /\ Names \cap Files = {}
  /\ \A n \in Names : DestFile[n] \in Files
  /\ \A n \in Names : n \in Keys
BY InstallConstantsOK DEF Paths, Keys

LEMMA EntryFacts ==
  /\ NoEntry \in Entries /\ NoEntry.path \notin Paths
  /\ \A p \in Paths, v \in Versions : Entry(p, v) \in Entries /\ Entry(p, v) # NoEntry
  /\ \A e \in Entries : /\ e.path \in Paths \cup {"none"} /\ e.ver \in Versions \cup {0}
                        /\ e # NoEntry => e.path \in Paths /\ e.ver \in Versions
                        /\ e.path \in Paths => e # NoEntry
BY InstallConstantsOK, Places DEF Entries, Entry, NoEntry

LEMMA Sealed ==
  ASSUME NEW n \in Names, NEW v \in Versions
  PROVE  /\ Content(n, v, TRUE) \in Packages
         /\ Content(n, v, TRUE).pkg = n /\ Content(n, v, TRUE).ver = v
         /\ Content(n, v, TRUE).builds
BY DEF Content, Packages

LEMMA BundledFacts ==
  ASSUME NEW n \in Names
  PROVE  Declares(Bundled[n], n) /\ Bundled[n] \in Contents
BY InstallConstantsOK, Unparsable DEF Declares, Parses

LEMMA IInvInit == Init => IInv
<1>. SUFFICES ASSUME Init PROVE IInv
  OBVIOUS
<1>1. TypeOK
  BY InstallConstantsOK, Unparsable, EntryFacts
     DEF Init, TypeOK, NoOp, DataStates, NoEntry, Entry
<1>2. OpInv
  BY Places DEF Init, OpInv, NoOp, Serving, NoEntry, Entry
<1>3. FileInv
  BY InstallConstantsOK, Unparsable, Places
     DEF Init, FileInv, InstalledFileSurvives, NoOp, Serving, Replacing, Declares,
         Parses, NoEntry, Entry
<1>4. BrokenInv
  BY Places DEF Init, BrokenInv, NoOp, Serving
<1>5. StoreInv
  BY DEF Init, StoreInv, InStoreAsOnDisk, Serving
<1>6. DataInv
  BY DEF Init, DataInv, UserDataSurvives, NoOp
<1>. QED BY <1>1, <1>2, <1>3, <1>4, <1>5, <1>6 DEF IInv

-----------------------------------------------------------------------------
(* Types *)

LEMMA ReplyType ==
  ASSUME TypeOK, NEW a \in {"ok", "err"}, Reply(a)
  PROVE  /\ pc' = "idle" /\ answer' = a /\ (op' = op \/ op' = NoOp)
         /\ (a = "err" => op' = op)
BY DEF Reply

LEMMA AcquireType ==
  ASSUME TypeOK, NEW n \in Names, AcquireVolume(n)
  PROVE  /\ vols' \in [Names -> {"none", "data", "bare"}]
         /\ data' \in [Names -> DataStates]
         /\ volumeUp /\ volumeUp' = volumeUp
         /\ \A m \in Names : data[m] = "user" => data'[m] = "user"
BY DEF AcquireVolume, TypeOK, DataStates

LEMMA PurgeType ==
  ASSUME TypeOK, NEW n \in Names, NEW ok \in BOOLEAN, PurgeVolume(n, ok)
  PROVE  /\ vols' \in [Names -> {"none", "data", "bare"}]
         /\ data' \in [Names -> DataStates]
         /\ volumeUp' = volumeUp
BY DEF PurgeVolume, TypeOK, DataStates

LEMMA RestoreType ==
  ASSUME TypeOK, NEW n \in Names, RestoreData(n)
  PROVE  /\ data' \in [Names -> DataStates] /\ dataOld' \in [Names -> DataStates]
         /\ op' = op \/ op' = [op EXCEPT !.stuck = @ \cup {"data"}]
BY DEF RestoreData, Outcomes, TypeOK, DataStates

LEMMA TryRecoverType ==
  ASSUME TypeOK, NEW n \in Names, NEW path \in Paths, TryRecover(n, path)
  PROVE  /\ vols' \in [Names -> {"none", "data", "bare"}]
         /\ data' \in [Names -> DataStates]
         /\ volumeUp' = volumeUp
         /\ \A m \in Names : data[m] = "user" => data'[m] = "user"
         /\ packages' \in [Names -> Entries]
         /\ \A m \in Names \ {n} : packages'[m] = packages[m]
<1>1. CASE Parses(FileAt(n, path)) /\ AcquireVolume(n)
           /\ packages' = [packages EXCEPT ![n] =
                  IF FileAt(n, path).builds THEN Entry(path, FileAt(n, path).ver)
                                            ELSE NoEntry]
  <2>1. FileAt(n, path).ver \in Versions
    BY <1>1 DEF Parses, Packages
  <2>. QED BY <1>1, <2>1, EntryFacts, AcquireType DEF TypeOK
<1>2. CASE packages' = [packages EXCEPT ![n] = NoEntry] /\ UNCHANGED <<volumes, data>>
  BY <1>2, EntryFacts DEF TypeOK, volumes
<1>. QED BY <1>1, <1>2 DEF TryRecover

\* The parameters of a request.
Ops == [kind : {"none", "install", "remove"}, name : Keys \cup {"none"},
        new : Contents, removeData : BOOLEAN,
        orig : [path : Paths \cup {"none"}, ver : Versions \cup {0}],
        hadData : BOOLEAN, aside : BOOLEAN, built : BOOLEAN,
        stuck : SUBSET {"file", "data"}]

LEMMA OpType ==
  ASSUME op \in Ops
  PROVE  /\ NoOp \in Ops
         /\ [op EXCEPT !.stuck = @ \cup {"data"}] \in Ops
         /\ [op EXCEPT !.stuck = @ \cup {"file"}] \in Ops
         /\ [op EXCEPT !.built = TRUE] \in Ops
         /\ \A b \in BOOLEAN : [op EXCEPT !.aside = b] \in Ops
BY Unparsable DEF Ops, NoOp, NoEntry, Entry

LEMMA RemovalType ==
  ASSUME NEW k \in Keys, NEW e \in [path : Paths \cup {"none"}, ver : Versions \cup {0}]
  PROVE  [NoOp EXCEPT !.kind = "remove", !.name = k, !.orig = e] \in Ops
BY Unparsable DEF Ops, NoOp

LEMMA InstallationType ==
  ASSUME NEW n \in Names, NEW c \in Contents, NEW r \in BOOLEAN, NEW h \in BOOLEAN,
         NEW e \in [path : Paths \cup {"none"}, ver : Versions \cup {0}]
  PROVE  [NoOp EXCEPT !.kind = "install", !.name = n, !.new = c, !.removeData = r,
                      !.orig = e, !.hadData = h] \in Ops
BY Unparsable, Places DEF Ops, NoOp

LEMMA InstallRequestType ==
  ASSUME TypeOK, InstallRequest PROVE op' \in Ops
<1>1. PICK c \in Incoming, remove \in BOOLEAN :
        op' = [NoOp EXCEPT !.kind = "install", !.name = c.pkg, !.new = c,
                   !.removeData = remove /\ packages[c.pkg] # NoEntry,
                   !.orig = packages[c.pkg], !.hadData = data[c.pkg] = "user"]
  BY DEF InstallRequest
<1>2. c \in Contents /\ c.pkg \in Names
  BY InstallConstantsOK, Unparsable DEF Packages
<1>3. packages[c.pkg] \in [path : Paths \cup {"none"}, ver : Versions \cup {0}]
  BY <1>2 DEF TypeOK, Entries, Entry, NoEntry
<1>4. /\ (remove /\ packages[c.pkg] # NoEntry) \in BOOLEAN
      /\ (data[c.pkg] = "user") \in BOOLEAN
  OBVIOUS
<1>. QED BY ONLY <1>1, <1>2, <1>3, <1>4, InstallationType

LEMMA InstallType ==
  ASSUME TypeOK, OpInv, Install PROVE TypeOK'
<1>. USE DEF TypeOK, disk, store, volumes, Goto
<1>0. op \in Ops
  BY DEF Ops
<1>1. CASE InstallRequest
  <2>1. op' \in Ops
    BY <1>1, InstallRequestType
  <2>. QED BY <1>1, <2>1 DEF InstallRequest, Ops
<1>2. CASE Backup
  BY <1>2, Unparsable DEF Backup, OpInv
<1>3. CASE Copy
  BY <1>3 DEF Copy
<1>4. CASE SetDataAside
  <2>1. op.name \in Names
    BY <1>4 DEF SetDataAside, OpInv
  <2>2. op' = op \/ \E b \in BOOLEAN : op' = [op EXCEPT !.aside = b]
    BY <1>4 DEF SetDataAside
  <2>3. op' \in Ops
    BY <1>0, <2>2, OpType
  <2>. QED BY <1>4, <2>1, <2>3 DEF SetDataAside, DataStates, Ops
<1>5. CASE Acquire
  <2>1. op.name \in Names
    BY <1>5 DEF Acquire, OpInv
  <2>2. CASE AcquireVolume(op.name) /\ Goto("build") /\ UNCHANGED dataOld
    BY <1>5, <2>1, <2>2, AcquireType DEF Acquire
  <2>3. CASE /\ ~volumeUp
             /\ IF op.aside THEN RestoreData(op.name)
                            ELSE UNCHANGED <<data, dataOld, op>>
             /\ pc' = "rollback"
             /\ UNCHANGED <<volumes, answer>>
    <3>1. op' \in Ops /\ data' \in [Names -> DataStates] /\ dataOld' \in [Names -> DataStates]
      BY <1>0, <2>1, <2>3, RestoreType, OpType
    <3>. QED BY <1>5, <2>3, <3>1 DEF Acquire, Ops
  <2>. QED BY <1>5, <2>2, <2>3 DEF Acquire
<1>6. CASE Build
  <2>1. op' \in Ops
    BY <1>0, <1>6, OpType DEF Build
  <2>. QED BY <1>6, <2>1 DEF Build, Ops
<1>7. CASE Commit
  <2>1. op.name \in Names /\ op.new \in Packages
    BY <1>7 DEF Commit, OpInv
  <2>2. dest \in Paths /\ op.new.ver \in Versions
    BY <1>7, <2>1, Places DEF Commit, OpInv, dest, Packages
  <2>3. packages' \in [Names -> Entries]
    BY <1>7, <2>1, <2>2, EntryFacts DEF Commit
  <2>4. op' \in Ops /\ pc' = "idle" /\ answer' = "ok"
    BY <1>0, <1>7, OpType, ReplyType DEF Commit
  <2>5. olds' \in [Files -> Contents] /\ dataOld' \in [Names -> DataStates]
    BY <1>7, <2>1, Unparsable DEF Commit, UpgradesDownloaded, DataStates
  <2>. QED BY <1>7, <2>3, <2>4, <2>5 DEF Commit, Ops
<1>8. CASE Rollback
  <2>1. op' \in Ops
    BY <1>0, <1>8, OpType DEF Rollback
  <2>2. files' \in [Files -> Contents] /\ olds' \in [Files -> Contents]
    BY <1>8, Unparsable DEF Rollback, UpgradesDownloaded
  <2>. QED BY <1>8, <2>1, <2>2 DEF Rollback, Ops, AfterRollback
<1>9. CASE Undo
  <2>1. op.name \in Names
    BY <1>9 DEF Undo, OpInv
  <2>2. op' \in Ops /\ data' \in [Names -> DataStates] /\ dataOld' \in [Names -> DataStates]
        /\ vols' \in [Names -> {"none", "data", "bare"}] /\ volumeUp' = volumeUp
    <3>1. CASE op.aside
      BY <1>0, <1>9, <2>1, <3>1, RestoreType, OpType DEF Undo
    <3>2. CASE ~op.aside /\ \E ok \in BOOLEAN : PurgeVolume(op.name, ok)
               /\ UNCHANGED <<dataOld, op>>
      BY <1>0, <2>1, <3>2, PurgeType
    <3>3. CASE UNCHANGED <<data, dataOld, volumes, op>>
      BY <1>0, <3>3
    <3>. QED BY <1>9, <3>1, <3>2, <3>3 DEF Undo
  <2>. QED BY <1>9, <2>2 DEF Undo, Ops
<1>10. CASE Recover
  <2>1. op.name \in Names /\ op.kind # "none"
    BY <1>10 DEF Recover, OpInv
  <2>2. op.orig = NoEntry \/ op.orig.path \in Paths
    BY <1>10, <2>1, EntryFacts, Places DEF OpInv
  <2>3. /\ data' \in [Names -> DataStates] /\ packages' \in [Names -> Entries]
        /\ vols' \in [Names -> {"none", "data", "bare"}] /\ volumeUp' = volumeUp
    BY <1>10, <2>1, <2>2, TryRecoverType DEF Recover
  <2>4. op' \in Ops /\ pc' = "idle" /\ answer' = "err"
    BY <1>0, <1>10, OpType, ReplyType DEF Recover
  <2>. QED BY <1>10, <2>3, <2>4 DEF Recover, Ops
<1>. QED BY <1>1, <1>2, <1>3, <1>4, <1>5, <1>6, <1>7, <1>8, <1>9, <1>10 DEF Install

LEMMA RemoveType ==
  ASSUME TypeOK, OpInv, Remove PROVE TypeOK'
<1>. USE DEF TypeOK, disk, store, volumes, Goto
<1>0. op \in Ops
  BY DEF Ops
<1>1. CASE RemoveRequest
  <2>. PICK n \in Names :
        /\ op' = [NoOp EXCEPT !.kind = "remove", !.name = n, !.orig = packages[n]]
        /\ packages' \in {packages, [packages EXCEPT ![n] = NoEntry]}
        /\ pc' \in {"purge", "idle"} /\ answer' \in {"none", "err"}
    BY <1>1 DEF RemoveRequest
  <2>1. packages[n] \in [path : Paths \cup {"none"}, ver : Versions \cup {0}]
    BY DEF Entries, Entry, NoEntry
  <2>2. op' \in Ops
    BY <2>1, RemovalType, Places
  <2>. QED BY <1>1, <2>2, EntryFacts DEF RemoveRequest, Ops
<1>2. CASE RemoveBroken
  <2>. PICK k \in Keys :
        /\ broken[k] \in Files
        /\ broken' = [broken EXCEPT ![k] = "none"]
        /\ op' = [NoOp EXCEPT !.kind = "remove", !.name = k,
                              !.orig = Entry(broken[k], 0)]
    BY <1>2 DEF RemoveBroken
  <2>1. Entry(broken[k], 0) \in [path : Paths \cup {"none"}, ver : Versions \cup {0}]
    BY Places DEF Entry
  <2>2. op' \in Ops
    BY <2>1, RemovalType
  <2>. QED BY <1>2, <2>2 DEF RemoveBroken, Ops
<1>3. CASE Purge
  BY <1>3, PurgeType DEF Purge, OpInv
<1>4. CASE RemoveFile
  <2>1. op' \in Ops /\ pc' \in {"restore", "idle"} /\ answer' \in {"none", "ok", "err"}
    BY <1>0, <1>4, OpType DEF RemoveFile, Reply
  <2>. QED BY <1>4, <2>1, Unparsable DEF RemoveFile, Ops
<1>5. CASE RestoreBundled
  <2>1. op' \in Ops /\ pc' = "idle" /\ answer' = "ok"
    BY <1>0, <1>5, OpType, ReplyType DEF RestoreBundled
  <2>2. op.name \in Names /\ "bundled" \in Paths
    BY <1>5, Places DEF RestoreBundled, OpInv
  <2>. QED BY <1>5, <2>1, <2>2, TryRecoverType DEF RestoreBundled, Ops
<1>. QED BY <1>1, <1>2, <1>3, <1>4, <1>5 DEF Remove

\* What the store holds after the start.
LEMMA ReloadEffect ==
  ASSUME TypeOK, Reload
  PROVE  /\ packages' \in [Names -> Entries]
         /\ broken' \in [Keys -> Paths \cup {"none"}]
         /\ \A n \in Names : packages'[n] # NoEntry =>
                /\ packages'[n].path \in Candidates(n)
                /\ FileAt(n, packages'[n].path).builds
                /\ packages'[n].ver = FileAt(n, packages'[n].path).ver
         /\ \A n \in Names : broken'[n] = "none" \/ broken'[n] \in Candidates(n)
         /\ \A f \in Files : broken'[f] = IF files[f] = Corrupt THEN f ELSE "none"
<1>. PICK good \in [Names -> Paths \cup {"none"}], bad \in [Names -> Paths \cup {"none"}] :
          /\ \A n \in Names :
                LET works == {p \in Candidates(n) : FileAt(n, p).builds}
                    fails == Candidates(n) \ works
                IN  /\ IF works = {} THEN good[n] = "none" ELSE good[n] \in works
                    /\ IF fails = {} THEN bad[n] = "none" ELSE bad[n] \in fails
          /\ packages' = [n \in Names |->
                 IF good[n] = "none" THEN NoEntry
                 ELSE Entry(good[n], FileAt(n, good[n]).ver)]
          /\ broken' = [k \in Keys |->
                 IF k \in Names THEN bad[k]
                 ELSE IF files[k] = Corrupt THEN k ELSE "none"]
  BY DEF Reload
<1>1. \A n \in Names : Candidates(n) \subseteq Paths
  BY Places DEF Candidates, Overrides
<1>2. \A n \in Names : good[n] # "none" =>
          good[n] \in Candidates(n) /\ FileAt(n, good[n]).builds
  OBVIOUS
<1>3. \A n \in Names : bad[n] = "none" \/ bad[n] \in Candidates(n)
  OBVIOUS
<1>4. \A n \in Names : \A p \in Candidates(n) : FileAt(n, p).ver \in Versions
  BY InstallConstantsOK, Places
     DEF Candidates, Overrides, FileAt, Parses, Packages
<1>5. packages' \in [Names -> Entries]
  BY <1>1, <1>2, <1>4, EntryFacts
<1>6. broken' \in [Keys -> Paths \cup {"none"}]
  BY <1>1, <1>3, Places
<1>. QED BY <1>2, <1>3, <1>5, <1>6, Places DEF Entry

LEMMA AroundType ==
  ASSUME TypeOK, Reload \/ Crash \/ TeardownAll \/ VolumeManagerDies \/ UserWrites
  PROVE  TypeOK'
<1>. USE DEF TypeOK, disk, store, volumes, Goto
<1>1. CASE Reload
  <2>1. packages' \in [Names -> Entries] /\ broken' \in [Keys -> Paths \cup {"none"}]
    BY <1>1, ReloadEffect
  <2>2. vols' \in [Names -> {"none", "data", "bare"}]
    BY <1>1 DEF Reload
  <2>. QED BY <1>1, <2>1, <2>2 DEF Reload, DataStates
<1>2. CASE Crash \/ TeardownAll
  <2>1. packages' \in [Names -> Entries] /\ broken' \in [Keys -> Paths \cup {"none"}]
    BY <1>2, EntryFacts DEF Crash, TeardownAll
  <2>2. vols' \in [Names -> {"none", "data", "bare"}] /\ volumeUp' \in BOOLEAN
    <3>1. CASE Crash
      BY <3>1 DEF Crash
    <3>2. CASE TeardownAll
      BY <3>2 DEF TeardownAll
    <3>. QED BY <1>2, <3>1, <3>2
  <2>3. UNCHANGED <<disk, op>> /\ pc' \in {"boot", pc} /\ answer' = "none"
    BY <1>2 DEF Crash, TeardownAll
  <2>4. UNCHANGED <<files, olds, data, dataOld>>
    BY <2>3
  <2>5. pc' \in {"boot", pc} /\ op' = op
    BY <2>3
  <2>. QED BY <2>1, <2>2, <2>3, <2>4, <2>5
<1>3. CASE VolumeManagerDies
  <2>1. volumeUp' \in BOOLEAN
    BY <1>3 DEF VolumeManagerDies
  <2>2. UNCHANGED <<disk, store, vols, pc, op, answer>>
    BY <1>3 DEF VolumeManagerDies
  <2>. QED BY <2>1, <2>2
<1>4. CASE UserWrites
  <2>1. data' \in [Names -> DataStates]
    BY <1>4 DEF UserWrites, DataStates
  <2>2. UNCHANGED <<files, olds, dataOld, store, volumes, pc, op, answer>>
    BY <1>4 DEF UserWrites
  <2>. QED BY <2>1, <2>2
<1>. QED BY <1>1, <1>2, <1>3, <1>4

LEMMA TypeStep == TypeOK /\ OpInv /\ [Next]_vars => TypeOK'
<1>. SUFFICES ASSUME TypeOK, OpInv, [Next]_vars PROVE TypeOK'
  OBVIOUS
<1>1. CASE UNCHANGED vars
  BY <1>1 DEF TypeOK, vars, disk, store, volumes
<1>. QED BY <1>1, InstallType, RemoveType, AroundType DEF Next

-----------------------------------------------------------------------------
(* The request under way *)

\* The request stays the one it is.
SameRequest ==
    /\ op'.kind = op.kind /\ op'.name = op.name /\ op'.new = op.new
    /\ op'.orig = op.orig /\ op'.hadData = op.hadData
    /\ op'.removeData = op.removeData

LEMMA RequestKept ==
  ASSUME TypeOK,
         \/ op' = op
         \/ op' = [op EXCEPT !.stuck = @ \cup {"data"}]
         \/ op' = [op EXCEPT !.stuck = @ \cup {"file"}]
         \/ op' = [op EXCEPT !.built = TRUE]
         \/ \E b \in BOOLEAN : op' = [op EXCEPT !.aside = b]
  PROVE  SameRequest
BY DEF SameRequest, TypeOK

Steps == {"copy", "aside", "acquire", "build", "commit", "rollback", "undo", "recover"}

\* What the steps of an install between the request and its answer change.
LEMMA InstallMoves ==
  ASSUME TypeOK, OpInv,
         Backup \/ Copy \/ SetDataAside \/ Acquire \/ Build \/ Rollback \/ Undo
  PROVE  /\ op.kind = "install" /\ op.name \in Names /\ Serving /\ Serving'
         /\ SameRequest /\ pc' \in Steps /\ UNCHANGED <<packages, broken, answer>>
<1>. USE DEF OpInv, Serving, Steps, store, Goto
<1>1. CASE Backup
  BY <1>1, RequestKept DEF Backup
<1>2. CASE Copy
  BY <1>2, RequestKept DEF Copy
<1>3. CASE SetDataAside
  BY <1>3, RequestKept DEF SetDataAside
<1>4. CASE Acquire
  <2>1. op.kind = "install" /\ op.name \in Names
    BY <1>4 DEF Acquire
  <2>2. SameRequest
    BY <1>4, <2>1, RestoreType, RequestKept DEF Acquire
  <2>. QED BY <1>4, <2>1, <2>2 DEF Acquire
<1>5. CASE Build
  BY <1>5, RequestKept DEF Build
<1>6. CASE Rollback
  BY <1>6, RequestKept DEF Rollback, AfterRollback
<1>7. CASE Undo
  <2>1. op.kind = "install" /\ op.name \in Names
    BY <1>7 DEF Undo
  <2>2. SameRequest
    BY <1>7, <2>1, RestoreType, RequestKept DEF Undo
  <2>. QED BY <1>7, <2>1, <2>2 DEF Undo
<1>. QED BY <1>1, <1>2, <1>3, <1>4, <1>5, <1>6, <1>7

\* The answer to an install.
LEMMA InstallAnswered ==
  ASSUME TypeOK, OpInv, Commit \/ Recover
  PROVE  /\ op.name \in Names /\ pc' = "idle"
         /\ Commit => op' = NoOp /\ answer' = "ok"
         /\ Recover => op' = op /\ answer' = "err"
         /\ UNCHANGED broken
BY DEF OpInv, Commit, Recover, Reply, store

LEMMA OpStep ==
  ASSUME TypeOK, OpInv, [Next]_vars PROVE OpInv'
<1>. USE DEF Serving
<1>1. CASE UNCHANGED vars
  BY <1>1 DEF OpInv, vars, store
<1>2. CASE InstallRequest
  <2>. PICK c \in Incoming, force \in BOOLEAN, remove \in BOOLEAN :
        LET orig == packages[c.pkg]
        IN  /\ op' = [NoOp EXCEPT
                   !.kind = "install", !.name = c.pkg, !.new = c,
                   !.removeData = remove /\ orig # NoEntry, !.orig = orig,
                   !.hadData = data[c.pkg] = "user"]
            /\ pc' \in {IF orig.path \in Files THEN "backup" ELSE "copy", "idle"}
    BY <1>2 DEF InstallRequest
  <2>1. c \in Packages /\ c.pkg \in Names
    BY InstallConstantsOK DEF Packages
  <2>2. packages[c.pkg] \in Entries
    BY <2>1 DEF TypeOK
  <2>3. op'.kind = "install" /\ op'.name = c.pkg /\ op'.new = c /\ op'.orig = packages[c.pkg]
    BY DEF NoOp
  <2>. QED BY <1>2, <2>1, <2>2, <2>3 DEF InstallRequest, OpInv
<1>3. CASE Backup \/ Copy \/ SetDataAside \/ Acquire \/ Build \/ Rollback \/ Undo
  BY <1>3, InstallMoves DEF OpInv, SameRequest, Steps
<1>4. CASE Commit \/ Recover
  BY <1>4, InstallAnswered DEF OpInv, NoOp
<1>5. CASE RemoveRequest
  <2>. PICK n \in Names :
        /\ packages[n].path \in Files
        /\ op' = [NoOp EXCEPT !.kind = "remove", !.name = n, !.orig = packages[n]]
        /\ \/ packages' = [packages EXCEPT ![n] = NoEntry] /\ pc' = "purge"
           \/ pc' = "idle"
    BY <1>5 DEF RemoveRequest
  <2>1. op'.kind = "remove" /\ op'.name = n /\ op'.orig.path \in Files
    BY DEF NoOp
  <2>. QED BY <2>1 DEF OpInv, TypeOK
<1>6. CASE RemoveBroken
  <2>. PICK k \in Keys :
        /\ k \in Names => packages[k] = NoEntry
        /\ broken[k] \in Files
        /\ op' = [NoOp EXCEPT !.kind = "remove", !.name = k,
                              !.orig = Entry(broken[k], 0)]
    BY <1>6 DEF RemoveBroken
  <2>1. op'.kind = "remove" /\ op'.name = k /\ op'.orig.path \in Files
    BY DEF NoOp, Entry
  <2>. QED BY <1>6, <2>1 DEF OpInv, RemoveBroken
<1>7. CASE Purge
  BY <1>7 DEF Purge, OpInv, Goto, store
<1>8. CASE RemoveFile
  BY <1>8 DEF RemoveFile, OpInv, Goto, Reply, store, NoOp
<1>9. CASE RestoreBundled
  BY <1>9 DEF RestoreBundled, OpInv, Reply, NoOp
<1>10. CASE Reload
  BY <1>10 DEF Reload, OpInv, Goto
<1>11. CASE Crash
  BY <1>11 DEF Crash, OpInv
<1>12. CASE TeardownAll
  BY <1>12 DEF TeardownAll, OpInv
<1>13. CASE VolumeManagerDies \/ UserWrites
  BY <1>13 DEF VolumeManagerDies, UserWrites, OpInv, store
<1>. QED BY <1>1, <1>2, <1>3, <1>4, <1>5, <1>6, <1>7, <1>8, <1>9, <1>10, <1>11,
            <1>12, <1>13 DEF Next, Install, Remove

-----------------------------------------------------------------------------
(* The package files *)

\* An install that starts finds the file of the package it is to replace.
LEMMA RequestFinds ==
  ASSUME TypeOK, StoreInv, pc = "idle", NEW n \in Names
  PROVE  /\ packages[n] # NoEntry => FileAt(n, packages[n].path)
                                       = Content(n, packages[n].ver, TRUE)
         /\ packages[n] # NoEntry => packages[n].ver \in Versions
         /\ packages[n].path \in Paths => packages[n] # NoEntry
BY EntryFacts DEF StoreInv, InStoreAsOnDisk, Serving, TypeOK

LEMMA InstallRequestFiles ==
  ASSUME TypeOK, OpInv, FileInv, StoreInv, InstallRequest PROVE FileInv'
<1>. PICK c \in Incoming, force \in BOOLEAN, remove \in BOOLEAN :
      LET orig == packages[c.pkg]
      IN  /\ op' = [NoOp EXCEPT
                 !.kind = "install", !.name = c.pkg, !.new = c,
                 !.removeData = remove /\ orig # NoEntry, !.orig = orig,
                 !.hadData = data[c.pkg] = "user"]
          /\ pc' \in {IF orig.path \in Files THEN "backup" ELSE "copy", "idle"}
  BY DEF InstallRequest
<1>. DEFINE n == c.pkg
<1>1. n \in Names /\ pc = "idle" /\ UNCHANGED <<files, olds>>
  BY InstallConstantsOK DEF InstallRequest, Packages, disk
<1>2. op'.kind = "install" /\ op'.name = n /\ op'.orig = packages[n]
  BY DEF NoOp
<1>3. op'.orig.path \in Paths => FileAt(n, op'.orig.path) = Replaced'
  BY <1>1, <1>2, RequestFinds DEF Replaced
<1>4. op'.orig.path \in Files => files[op'.orig.path] = Replaced'
  BY <1>3, Places DEF FileAt
<1>5. op'.orig.path = "bundled" => Bundled[n] = Replaced'
  BY <1>3, Places DEF FileAt
<1>6. Declares(Replaced', n)
  BY <1>2 DEF Replaced, Declares, Content
<1>. HIDE DEF n
<1>7. InstalledFileSurvives'
  BY <1>1, <1>4 DEF InstalledFileSurvives, Replaced
<1>. QED BY <1>1, <1>2, <1>4, <1>5, <1>6, <1>7 DEF FileInv, Replacing, Serving

LEMMA BackupFiles ==
  ASSUME TypeOK, OpInv, FileInv, Backup PROVE FileInv'
<1>. DEFINE f == op.orig.path
<1>1. /\ f \in Files /\ op' = op /\ op.kind = "install" /\ pc = "backup"
      /\ files[f] = Replaced /\ Serving
  BY DEF Backup, Goto, OpInv, FileInv, Replacing, Serving
<1>2. Replaced' = Replaced
  BY <1>1 DEF Replaced
<1>3. CASE /\ olds' = [olds EXCEPT ![f] = files[f]]
           /\ files' = [files EXCEPT ![f] = NoFile]
           /\ pc' = "copy"
  <2>1. olds'[f] = Replaced /\ files'[f] = NoFile
        /\ \A g \in Files \ {f} : files'[g] = files[g] /\ olds'[g] = olds[g]
    BY <1>1, <1>3 DEF TypeOK
  <2>2. \A n \in Names : Declares(files'[DestFile[n]], n) /\ Declares(olds'[DestFile[n]], n)
    BY <1>1, <2>1, Unparsable, Places DEF FileInv
  <2>3. Declares(files'[f], op.name)
    BY <2>1, Unparsable, <1>1 DEF Declares, Parses
  <2>. HIDE DEF f
  <2>4. InstalledFileSurvives'
    BY <1>1, <1>2, <2>1 DEF InstalledFileSurvives, Replaced, f
  <2>. QED BY <1>1, <1>2, <1>3, <2>1, <2>2, <2>3, <2>4, Places
           DEF FileInv, Replacing, Serving, f
<1>4. CASE pc' = "recover" /\ UNCHANGED <<files, olds>>
  BY <1>1, <1>2, <1>4, Places DEF FileInv, Replacing, Serving, InstalledFileSurvives
<1>. QED BY <1>3, <1>4 DEF Backup, Goto

LEMMA CopyFiles ==
  ASSUME TypeOK, OpInv, FileInv, Copy PROVE FileInv'
<1>1. /\ op' = op /\ op.kind = "install" /\ pc = "copy" /\ Serving /\ olds' = olds
      /\ op.name \in Names /\ op.new.pkg = op.name /\ dest \in Files
      /\ dest = DestFile[op.name]
  BY Places DEF Copy, Goto, OpInv, Serving, dest
<1>2. Replaced' = Replaced /\ dest' = dest
  BY <1>1 DEF Replaced, dest
<1>3. CASE files' = [files EXCEPT ![dest] = op.new] /\ pc' \in {"aside", "acquire"}
  <2>1. files'[dest] = op.new /\ \A g \in Files \ {dest} : files'[g] = files[g]
    BY <1>1, <1>3 DEF TypeOK
  <2>2. \A n \in Names : Declares(files'[DestFile[n]], n) /\ Declares(olds'[DestFile[n]], n)
    BY <1>1, <2>1, InstallConstantsOK, Places DEF FileInv, Declares
  <2>3. op.orig.path \in Files => Declares(files'[op.orig.path], op.name)
    BY <1>1, <2>1 DEF FileInv, Declares
  <2>4. InstalledFileSurvives'
    BY <1>1 DEF InstalledFileSurvives, FileInv, Replacing, Replaced
  <2>. QED BY <1>1, <1>2, <1>3, <2>1, <2>2, <2>3, <2>4 DEF FileInv, Replacing, Serving
<1>4. CASE pc' = "rollback" /\ UNCHANGED files
  <2>1. InstalledFileSurvives'
    BY <1>1, <1>4 DEF InstalledFileSurvives, FileInv
  <2>. QED BY <1>1, <1>2, <1>4, <2>1 DEF FileInv, Replacing, Serving
<1>. QED BY <1>3, <1>4 DEF Copy, Goto

LEMMA RollbackFiles ==
  ASSUME TypeOK, OpInv, FileInv, Rollback PROVE FileInv'
<1>. DEFINE f == op.orig.path
<1>1. /\ SameRequest /\ op.kind = "install" /\ pc = "rollback" /\ Serving
      /\ op.name \in Names /\ dest = DestFile[op.name] /\ dest \in Files
      /\ pc' \in {"undo", "recover"}
  BY InstallMoves, Places DEF Rollback, OpInv, AfterRollback, dest
<1>2. /\ Replaced' = Replaced /\ op'.orig.path = f /\ op'.name = op.name
      /\ op'.kind = "install" /\ (Replacing' <=> f \in Files)
  BY <1>1 DEF Replaced, SameRequest, Replacing
<1>3. f \in Files => olds[f] = Replaced
  BY <1>1 DEF FileInv, Replacing
<1>4. Declares(Replaced, op.name)
  BY DEF Replaced, Declares, Content
<1>5. CASE /\ f \in Files
           /\ files' = [files EXCEPT ![f] = olds[f]]
           /\ olds' = [olds EXCEPT ![f] = NoFile]
  <2>1. files'[f] = Replaced /\ olds'[f] = NoFile
        /\ \A g \in Files \ {f} : files'[g] = files[g] /\ olds'[g] = olds[g]
    BY <1>3, <1>5 DEF TypeOK
  <2>2. \A n \in Names : Declares(files'[DestFile[n]], n) /\ Declares(olds'[DestFile[n]], n)
    <3>. SUFFICES ASSUME NEW n \in Names
                  PROVE Declares(files'[DestFile[n]], n) /\ Declares(olds'[DestFile[n]], n)
      OBVIOUS
    <3>1. CASE DestFile[n] = f
      BY <1>3, <1>5, <2>1, <3>1, Unparsable, Places DEF FileInv
    <3>2. CASE DestFile[n] # f
      BY <2>1, <3>2, Places DEF FileInv
    <3>. QED BY <3>1, <3>2
  <2>. HIDE DEF f
  <2>3. InstalledFileSurvives'
    BY <1>2, <2>1 DEF InstalledFileSurvives, Replaced
  <2>. QED BY <1>1, <1>2, <1>4, <1>5, <2>1, <2>2, <2>3, Places DEF FileInv
<1>6. CASE /\ f \notin Files
           /\ files' = [files EXCEPT ![dest] = NoFile]
           /\ UNCHANGED <<olds, op>>
  <2>1. files'[dest] = NoFile /\ \A g \in Files \ {dest} : files'[g] = files[g]
    BY <1>1, <1>6 DEF TypeOK
  <2>2. \A n \in Names : Declares(files'[DestFile[n]], n) /\ Declares(olds'[DestFile[n]], n)
    BY <1>6, <2>1, Unparsable, Places DEF FileInv
  <2>3. InstalledFileSurvives'
    BY <1>2, <1>6 DEF InstalledFileSurvives
  <2>. QED BY <1>1, <1>2, <1>6, <2>2, <2>3 DEF FileInv
<1>7. CASE op' = [op EXCEPT !.stuck = @ \cup {"file"}] /\ UNCHANGED <<files, olds>>
  <2>1. "file" \in op'.stuck
    BY <1>7 DEF TypeOK
  <2>2. InstalledFileSurvives'
    BY <1>1, <1>2, <1>7 DEF InstalledFileSurvives, FileInv, SameRequest
  <2>. QED BY <1>1, <1>2, <1>7, <2>1, <2>2 DEF FileInv
<1>. QED BY <1>5, <1>6, <1>7 DEF Rollback, UpgradesDownloaded

\* The steps of an install that leave the package files alone.
LEMMA MiddleFiles ==
  ASSUME TypeOK, OpInv, FileInv, SetDataAside \/ Acquire \/ Build \/ Undo
  PROVE  FileInv'
<1>1. /\ SameRequest /\ op.kind = "install" /\ Serving /\ op.name \in Names
      /\ UNCHANGED <<files, olds>>
  BY InstallMoves DEF SetDataAside, Acquire, Build, Undo, disk
<1>2. op.stuck \subseteq op'.stuck
  <2>1. CASE SetDataAside \/ Build
    BY <2>1 DEF SetDataAside, Build, TypeOK
  <2>2. CASE Acquire \/ Undo
    BY <1>1, <2>2, RestoreType DEF Acquire, Undo, Goto, TypeOK
  <2>. QED BY <2>1, <2>2
<1>3. \/ pc = "aside" /\ pc' \in {"acquire", "rollback"}
      \/ pc = "acquire" /\ pc' \in {"build", "rollback"}
      \/ pc = "build" /\ pc' = (IF op.new.builds THEN "commit" ELSE "rollback")
      \/ pc = "undo" /\ pc' = "recover"
  BY DEF SetDataAside, Acquire, Build, Undo, Goto
<1>4. Replaced' = Replaced /\ dest' = dest /\ (Replacing' <=> Replacing)
  BY <1>1 DEF SameRequest, Replaced, dest, Replacing
<1>5. InstalledFileSurvives'
  BY <1>1 DEF FileInv, InstalledFileSurvives, SameRequest
<1>. QED BY <1>1, <1>2, <1>3, <1>4, <1>5 DEF FileInv, SameRequest, Serving

LEMMA AnsweredFiles ==
  ASSUME TypeOK, OpInv, FileInv, Commit \/ Recover PROVE FileInv'
<1>1. CASE Commit
  <2>1. op' = NoOp /\ pc' = "idle" /\ UNCHANGED files
    BY <1>1, InstallAnswered DEF Commit
  <2>2. op'.kind = "none"
    BY <2>1 DEF NoOp
  <2>3. \A f \in Files : olds'[f] \in {olds[f], NoFile}
    BY <1>1 DEF Commit, TypeOK
  <2>4. \A n \in Names : Declares(olds'[DestFile[n]], n)
    BY <2>3, Unparsable, Places DEF FileInv
  <2>. QED BY <2>1, <2>2, <2>4 DEF FileInv, Serving, Replacing, InstalledFileSurvives
<1>2. CASE Recover
  <2>1. op' = op /\ pc' = "idle" /\ UNCHANGED <<files, olds>>
    BY <1>2, InstallAnswered DEF Recover
  <2>. QED BY <2>1 DEF FileInv, Serving, Replacing, Replaced, InstalledFileSurvives
<1>. QED BY <1>1, <1>2

LEMMA RemoveFiles ==
  ASSUME TypeOK, OpInv, FileInv, BrokenInv, StoreInv, Remove PROVE FileInv'
<1>1. CASE RemoveRequest
  <2>. PICK n \in Names :
        /\ packages[n].path \in Files
        /\ op' = [NoOp EXCEPT !.kind = "remove", !.name = n, !.orig = packages[n]]
        /\ pc' \in {"purge", "idle"}
    BY <1>1 DEF RemoveRequest
  <2>1. op'.kind = "remove" /\ op'.name = n /\ op'.orig = packages[n]
    BY DEF NoOp
  <2>2. UNCHANGED <<files, olds>> /\ pc = "idle"
    BY <1>1 DEF RemoveRequest, disk
  <2>3. files[packages[n].path] = Content(n, packages[n].ver, TRUE)
    BY <2>2, RequestFinds, Places DEF FileAt
  <2>4. Declares(files[packages[n].path], n)
    BY <2>3 DEF Declares, Content
  <2>. QED BY <2>1, <2>2, <2>4 DEF FileInv, Replacing, InstalledFileSurvives
<1>2. CASE RemoveBroken
  <2>. PICK k \in Keys :
        /\ broken[k] \in Files
        /\ op' = [NoOp EXCEPT !.kind = "remove", !.name = k,
                              !.orig = Entry(broken[k], 0)]
    BY <1>2 DEF RemoveBroken
  <2>1. op'.kind = "remove" /\ op'.name = k /\ op'.orig.path = broken[k]
    BY DEF NoOp, Entry
  <2>2. UNCHANGED <<files, olds>> /\ pc' = "file"
    BY <1>2 DEF RemoveBroken, disk
  <2>. QED BY <2>1, <2>2 DEF FileInv, BrokenInv, Replacing, InstalledFileSurvives
<1>3. CASE Purge
  <2>1. op' = op /\ op.kind = "remove" /\ Serving /\ pc' \in {"file", "recover"}
        /\ UNCHANGED <<files, olds>>
    BY <1>3 DEF Purge, Goto, OpInv, Serving
  <2>. QED BY <2>1 DEF FileInv, Serving, Replacing, InstalledFileSurvives
<1>4. CASE RemoveFile
  <2>1. op.orig.path \in Files /\ op.kind = "remove" /\ Serving
        /\ op' \in {op, NoOp} /\ pc' \in {"restore", "idle"} /\ olds' = olds
    BY <1>4 DEF RemoveFile, OpInv, Goto, Reply, Serving
  <2>2. op'.kind # "install"
    BY <2>1 DEF NoOp
  <2>3. \A f \in Files : files'[f] \in {files[f], NoFile}
    BY <1>4 DEF RemoveFile, TypeOK
  <2>4. \A n \in Names : Declares(files'[DestFile[n]], n)
    BY <2>3, Unparsable, Places DEF FileInv
  <2>5. Declares(files'[op.orig.path], op.name)
    BY <2>1, <2>3, Unparsable DEF FileInv, Declares, Parses
  <2>6. pc' = "restore" => op' = op
    BY <1>4 DEF RemoveFile, Goto, Reply
  <2>. QED BY <2>1, <2>2, <2>4, <2>5, <2>6 DEF FileInv, Serving, Replacing, InstalledFileSurvives
<1>5. CASE RestoreBundled
  <2>1. op' = NoOp /\ pc' = "idle" /\ UNCHANGED <<files, olds>>
    BY <1>5 DEF RestoreBundled, Reply
  <2>2. op'.kind = "none"
    BY <2>1 DEF NoOp
  <2>. QED BY <2>1, <2>2 DEF FileInv, Serving, Replacing, InstalledFileSurvives
<1>. QED BY <1>1, <1>2, <1>3, <1>4, <1>5 DEF Remove

\* Around the requests the files and the request stay as they are.
LEMMA AroundKeeps ==
  ASSUME Reload \/ Crash \/ TeardownAll \/ VolumeManagerDies \/ UserWrites
  PROVE  /\ UNCHANGED <<files, olds, dataOld, op>>
         /\ pc' = pc \/ pc' \in {"boot", "idle"}
BY DEF Reload, Crash, TeardownAll, VolumeManagerDies, UserWrites, Goto, disk

LEMMA FileStep ==
  ASSUME TypeOK, OpInv, FileInv, BrokenInv, StoreInv, [Next]_vars PROVE FileInv'
<1>1. CASE UNCHANGED vars
          \/ Reload \/ Crash \/ TeardownAll \/ VolumeManagerDies \/ UserWrites
  <2>1. /\ UNCHANGED <<files, olds, op>>
        /\ pc' = pc \/ pc' \in {"boot", "idle"}
    BY <1>1, AroundKeeps DEF vars, disk
  <2>. QED BY <2>1 DEF FileInv, Serving, Replacing, Replaced, dest, InstalledFileSurvives
<1>. QED BY <1>1, InstallRequestFiles, BackupFiles, CopyFiles, RollbackFiles,
            MiddleFiles, AnsweredFiles, RemoveFiles DEF Next, Install

-----------------------------------------------------------------------------
(* The broken files *)

LEMMA BrokenInstallRequest ==
  ASSUME TypeOK, FileInv, BrokenInv, StoreInv, InstallRequest PROVE BrokenInv'
<1>. PICK c \in Incoming, force \in BOOLEAN, remove \in BOOLEAN :
      LET orig == packages[c.pkg]
      IN  /\ broken' = [broken EXCEPT ![DestFile[c.pkg]] = "none"]
          /\ op' = [NoOp EXCEPT
                 !.kind = "install", !.name = c.pkg, !.new = c,
                 !.removeData = remove /\ orig # NoEntry, !.orig = orig,
                 !.hadData = data[c.pkg] = "user"]
  BY DEF InstallRequest
<1>. DEFINE n == c.pkg
<1>1. n \in Names /\ pc = "idle" /\ UNCHANGED <<files, olds>>
  BY InstallConstantsOK DEF InstallRequest, Packages, disk
<1>2. op'.kind = "install" /\ op'.name = n /\ op'.orig = packages[n] /\ op'.new = c
  BY DEF NoOp
<1>3. DestFile[n] \in Files /\ DestFile[n] \in Keys /\ dest' = DestFile[n]
  BY <1>1, <1>2, Places DEF dest
<1>. HIDE DEF n
<1>4. \A k \in Keys : broken'[k] \in {broken[k], "none"}
  BY DEF TypeOK
<1>5. broken'[DestFile[n]] = "none"
  BY <1>1, <1>3 DEF TypeOK, n
<1>6. Replacing' => \A k \in Keys : broken'[k] = op'.orig.path => k = n
  <2>. SUFFICES ASSUME packages[n].path \in Files, NEW k \in Keys,
                       broken'[k] = packages[n].path
                PROVE  k = n
    BY <1>2 DEF Replacing
  <2>1. broken[k] = packages[n].path
    BY <1>4, Places
  <2>2. files[packages[n].path] = Content(n, packages[n].ver, TRUE)
        /\ packages[n].ver \in Versions
    BY <1>1, RequestFinds, Places DEF FileAt
  <2>3. Declares(files[packages[n].path], k)
    BY <2>1 DEF BrokenInv
  <2>4. Content(n, packages[n].ver, TRUE) \in Packages
        /\ Content(n, packages[n].ver, TRUE).pkg = n
    BY <1>1, <2>2, Sealed
  <2>. QED BY <2>2, <2>3, <2>4 DEF Declares, Parses
<1>7. \A k \in Keys : broken'[k] \in Files => Declares(files'[broken'[k]], k)
  BY <1>1, <1>4, Places DEF BrokenInv
<1>8. \A m, o \in Names : broken'[m] = DestFile[o] => m = o
  BY <1>4, Places DEF BrokenInv
<1>9. \A f \in Files : broken'[f] \in {f, "none"}
  BY <1>4, Places DEF BrokenInv
<1>. QED BY <1>2, <1>3, <1>5, <1>6, <1>7, <1>8, <1>9 DEF BrokenInv

\* The steps of an install: only the copy and the rollback put a file in place.
LEMMA BrokenInstallMoves ==
  ASSUME TypeOK, OpInv, FileInv, BrokenInv,
         Backup \/ Copy \/ SetDataAside \/ Acquire \/ Build \/ Rollback \/ Undo
  PROVE  BrokenInv'
<1>1. /\ op.kind = "install" /\ op.name \in Names /\ Serving /\ Serving'
      /\ SameRequest /\ broken' = broken
  BY InstallMoves
<1>2. dest' = dest /\ op'.orig.path = op.orig.path /\ (Replacing' <=> Replacing)
      /\ op'.name = op.name /\ dest = DestFile[op.name] /\ dest \in Files
      /\ op.new.pkg = op.name
  BY <1>1, Places DEF SameRequest, dest, Replacing, OpInv
<1>3. \A k \in Keys : broken[k] \in Files => Declares(files'[broken[k]], k)
  <2>. SUFFICES ASSUME NEW k \in Keys, broken[k] \in Files
                PROVE  Declares(files'[broken[k]], k)
    OBVIOUS
  <2>1. CASE files'[broken[k]] \in {files[broken[k]], NoFile}
    BY <2>1, Unparsable DEF BrokenInv
  <2>2. CASE Copy /\ files' = [files EXCEPT ![dest] = op.new] /\ broken[k] = dest
    <3>1. files'[dest] = op.new
      BY <1>2, <2>2 DEF TypeOK
    <3>2. k \in Names
      BY <1>1, <2>2, <1>2, Places DEF BrokenInv
    <3>3. k = op.name
      BY <1>1, <1>2, <2>2, <3>2 DEF BrokenInv
    <3>. QED BY <1>2, <2>2, <3>1, <3>3 DEF Declares
  <2>3. CASE /\ Rollback /\ op.orig.path \in Files /\ broken[k] = op.orig.path
             /\ files' = [files EXCEPT ![op.orig.path] = olds[op.orig.path]]
    <3>1. files'[op.orig.path] = Replaced
      BY <1>1, <2>3 DEF TypeOK, FileInv, Replacing, Rollback
    <3>2. k = op.name
      BY <1>1, <2>3 DEF BrokenInv, Replacing
    <3>. QED BY <2>3, <3>1, <3>2 DEF Replaced, Declares, Content
  <2>4. CASE Copy
    BY <1>2, <2>1, <2>2, <2>4 DEF Copy, TypeOK
  <2>5. CASE Rollback
    BY <1>2, <2>1, <2>3, <2>5 DEF Rollback, TypeOK, UpgradesDownloaded
  <2>6. CASE Backup
    BY <2>1, <2>6 DEF Backup, TypeOK
  <2>7. CASE SetDataAside \/ Acquire \/ Build \/ Undo
    BY <2>1, <2>7 DEF SetDataAside, Acquire, Build, Undo, disk
  <2>. QED BY <2>4, <2>5, <2>6, <2>7
<1>. QED BY <1>1, <1>2, <1>3 DEF BrokenInv

LEMMA BrokenStep ==
  ASSUME TypeOK, OpInv, FileInv, BrokenInv, StoreInv, [Next]_vars PROVE BrokenInv'
<1>1. CASE UNCHANGED vars
  BY <1>1 DEF BrokenInv, vars, disk, store, Serving, Replacing, dest
<1>2. CASE Install
  <2>1. CASE Commit \/ Recover
    <3>1. /\ pc' = "idle" /\ UNCHANGED <<files, broken>>
      BY <2>1, InstallAnswered DEF Commit, Recover
    <3>. QED BY <3>1 DEF BrokenInv, Serving
  <2>. QED BY <1>2, <2>1, BrokenInstallRequest, BrokenInstallMoves DEF Install
<1>3. CASE Remove
  <2>1. op'.kind # "install" \/ ~Serving'
    BY <1>3 DEF Remove, RemoveRequest, RemoveBroken, Purge, RemoveFile, RestoreBundled,
                Goto, Reply, NoOp, OpInv, Serving
  <2>2. \A k \in Keys : broken'[k] \in {broken[k], "none"}
    BY <1>3 DEF Remove, RemoveRequest, RemoveBroken, Purge, RemoveFile, RestoreBundled,
                store, TypeOK
  <2>3. \A f \in Files : files'[f] \in {files[f], NoFile}
    BY <1>3 DEF Remove, RemoveRequest, RemoveBroken, Purge, RemoveFile, RestoreBundled,
                disk, TypeOK
  <2>4. \A k \in Keys : broken'[k] \in Files => Declares(files'[broken'[k]], k)
    BY <2>2, <2>3, Unparsable, Places DEF BrokenInv
  <2>5. \A m, n \in Names : broken'[m] = DestFile[n] => m = n
    BY <2>2, Places DEF BrokenInv
  <2>6. \A f \in Files : broken'[f] \in {f, "none"}
    BY <2>2, Places DEF BrokenInv
  <2>. QED BY <2>1, <2>4, <2>5, <2>6 DEF BrokenInv
<1>4. CASE Reload
  <2>1. UNCHANGED files /\ ~Serving'
    BY <1>4 DEF Reload, Goto, Serving
  <2>2. \A n \in Names : broken'[n] \in Files => files[broken'[n]].pkg = n
                                                 /\ Parses(files[broken'[n]])
    BY <1>4, ReloadEffect, Places DEF Candidates, Overrides
  <2>3. \A f \in Files : broken'[f] = IF files[f] = Corrupt THEN f ELSE "none"
    BY <1>4, ReloadEffect
  <2>4. \A k \in Keys : broken'[k] \in Files => Declares(files[broken'[k]], k)
    BY <2>2, <2>3, Unparsable, Places DEF Declares
  <2>5. \A m, n \in Names : broken'[m] = DestFile[n] => m = n
    BY <2>2, Places DEF FileInv, Declares
  <2>. QED BY <2>1, <2>3, <2>4, <2>5 DEF BrokenInv
<1>5. CASE Crash \/ TeardownAll
  <2>1. UNCHANGED files /\ ~Serving' /\ broken' = [k \in Keys |-> "none"]
    BY <1>5 DEF Crash, TeardownAll, disk, Serving
  <2>. QED BY <2>1, Places DEF BrokenInv
<1>6. CASE VolumeManagerDies \/ UserWrites
  BY <1>6 DEF VolumeManagerDies, UserWrites, BrokenInv, disk, store, Serving, Replacing, dest
<1>. QED BY <1>1, <1>2, <1>3, <1>4, <1>5, <1>6 DEF Next

-----------------------------------------------------------------------------
(* The store *)

\* A request changes no file but those of its own package.
LEMMA OnlyOwnFiles ==
  ASSUME TypeOK, OpInv, FileInv, [Next]_vars
  PROVE  \A f \in Files : files'[f] = files[f] \/ (Serving /\ Declares(files[f], op.name))
<1>1. CASE Backup
  BY <1>1 DEF Backup, FileInv, OpInv, TypeOK, Serving
<1>2. CASE Copy
  <2>1. op.name \in Names /\ dest = DestFile[op.name] /\ Serving
    BY <1>2 DEF Copy, OpInv, dest, Serving
  <2>. QED BY <1>2, <2>1 DEF Copy, FileInv, TypeOK
<1>3. CASE Rollback
  <2>1. op.name \in Names /\ dest = DestFile[op.name] /\ Serving
    BY <1>3 DEF Rollback, OpInv, dest, Serving
  <2>. QED BY <1>3, <2>1 DEF Rollback, FileInv, TypeOK, UpgradesDownloaded
<1>4. CASE RemoveFile
  BY <1>4 DEF RemoveFile, FileInv, OpInv, TypeOK, Serving
<1>5. CASE UNCHANGED files
  BY <1>5
<1>. QED BY <1>1, <1>2, <1>3, <1>4, <1>5
         DEF Next, Install, Remove, InstallRequest, SetDataAside, Acquire, Build, Commit,
             Undo, Recover, RemoveRequest, RemoveBroken, Purge, RestoreBundled, Reload,
             Crash, TeardownAll, VolumeManagerDies, UserWrites, vars, disk

\* So what the store says of another package stays true.
LEMMA OthersInStore ==
  ASSUME TypeOK, OpInv, FileInv, StoreInv, [Next]_vars, NEW n \in Names,
         ~Serving \/ n # op.name, packages'[n] = packages[n]
  PROVE  InStoreAsOnDisk(n)'
<1>. SUFFICES ASSUME packages[n] # NoEntry
              PROVE  FileAt(n, packages[n].path)' = Content(n, packages[n].ver, TRUE)
  BY DEF InStoreAsOnDisk, FileAt
<1>. DEFINE path == packages[n].path
<1>1. FileAt(n, path) = Content(n, packages[n].ver, TRUE)
  BY DEF StoreInv, InStoreAsOnDisk
<1>2. path \in Paths /\ packages[n].ver \in Versions
  BY EntryFacts DEF TypeOK
<1>3. CASE path = "bundled"
  BY <1>1, <1>3 DEF FileAt
<1>4. CASE path \in Files
  <2>1. files[path] = Content(n, packages[n].ver, TRUE)
    BY <1>1, <1>4, Places DEF FileAt
  <2>2. Content(n, packages[n].ver, TRUE) \in Packages
        /\ Content(n, packages[n].ver, TRUE).pkg = n
    BY <1>2, Sealed
  <2>3. n # op.name => ~Declares(files[path], op.name)
    BY <2>1, <2>2 DEF Declares, Parses
  <2>4. files'[path] = files[path]
    BY <1>4, <2>3, OnlyOwnFiles
  <2>. QED BY <1>4, <2>1, <2>4, Places DEF FileAt
<1>. QED BY <1>2, <1>3, <1>4, Places

\* A package created from a file is the one the file holds.
LEMMA RecoveredInStore ==
  ASSUME TypeOK, NEW n \in Names, NEW path \in Paths, TryRecover(n, path), files' = files,
         Declares(FileAt(n, path), n)
  PROVE  InStoreAsOnDisk(n)'
<1>. DEFINE c == FileAt(n, path)
<1>1. CASE Parses(c) /\ packages' = [packages EXCEPT ![n] =
                  IF c.builds THEN Entry(path, c.ver) ELSE NoEntry]
  <2>1. CASE c.builds
    <3>1. packages'[n] = Entry(path, c.ver)
      BY <1>1, <2>1 DEF TypeOK
    <3>2. c = Content(n, c.ver, TRUE)
      BY <1>1, <2>1 DEF Declares, Parses, Packages, Content
    <3>3. packages'[n].path = path /\ packages'[n].ver = c.ver
      BY <3>1 DEF Entry
    <3>4. FileAt(n, path)' = c
      BY DEF FileAt
    <3>. HIDE DEF c
    <3>. QED BY <3>2, <3>3, <3>4 DEF InStoreAsOnDisk, FileAt
  <2>2. CASE ~c.builds
    BY <1>1, <2>2 DEF InStoreAsOnDisk, TypeOK
  <2>. QED BY <2>1, <2>2
<1>2. CASE packages' = [packages EXCEPT ![n] = NoEntry]
  BY <1>2 DEF InStoreAsOnDisk, TypeOK
<1>. QED BY <1>1, <1>2 DEF TryRecover

LEMMA RecoverStore ==
  ASSUME TypeOK, OpInv, FileInv, StoreInv, Recover PROVE StoreInv'
<1>1. /\ op.name \in Names /\ op.kind # "none" /\ op' = op /\ pc' = "idle"
      /\ files' = files /\ pc = "recover" /\ Serving
  BY InstallAnswered DEF Recover, OpInv, Serving
<1>2. [Next]_vars
  BY DEF Next, Install
<1>3. CASE op.orig = NoEntry
  <2>1. packages[op.name] = NoEntry /\ packages' = packages /\ op.kind = "install"
    BY <1>1, <1>3, EntryFacts, Places DEF OpInv, Recover, TypeOK
  <2>2. InStoreAsOnDisk(op.name)'
    BY <1>1, <2>1 DEF InStoreAsOnDisk
  <2>. QED BY <1>1, <1>2, <1>3, <2>1, <2>2, OthersInStore DEF StoreInv
<1>4. CASE op.orig # NoEntry
  <2>. DEFINE n == op.name
              path == op.orig.path
              c == FileAt(n, path)
  <2>1. path \in Paths /\ TryRecover(n, path)
    BY <1>1, <1>4, EntryFacts, Places DEF Recover, OpInv, TypeOK
  <2>2. Declares(c, n)
    BY <1>1, <2>1, BundledFacts, Places DEF FileInv, FileAt
  <2>3. InStoreAsOnDisk(n)' /\ \A m \in Names \ {n} : packages'[m] = packages[m]
    BY <1>1, <2>1, <2>2, RecoveredInStore, TryRecoverType
  <2>4. \A m \in Names : InStoreAsOnDisk(m)'
    BY <1>1, <1>2, <2>3, OthersInStore
  <2>5. op.kind = "install" => "file" \in op.stuck \/ ~volumeUp' \/ packages'[n] = op.orig
    <3>. SUFFICES ASSUME op.kind = "install", "file" \notin op.stuck, volumeUp'
                  PROVE  packages'[n] = op.orig
      OBVIOUS
    <3>1. op.orig \in Entries /\ op.orig.ver \in Versions
          /\ op.orig = Entry(path, op.orig.ver)
      <4>1. op.orig \in Entries
        BY <1>1 DEF OpInv
      <4>2. op.orig \in [path : Paths, ver : Versions]
        BY <1>4, <4>1 DEF Entries
      <4>. QED BY <4>1, <4>2 DEF Entry
    <3>2. c = Replaced
      BY <1>1, <2>1, Places DEF FileInv, Replacing, FileAt
    <3>3. Parses(c) /\ c.builds /\ c.ver = op.orig.ver
      <4>1. Replaced \in Packages /\ Replaced.builds /\ Replaced.ver = op.orig.ver
        BY <1>1, <3>1, Sealed DEF Replaced
      <4>. HIDE DEF c
      <4>. QED BY <3>2, <4>1 DEF Parses
    <3>4. volumeUp
      BY <1>1, <2>1, TryRecoverType
    <3>5. packages' = [packages EXCEPT ![n] = Entry(path, c.ver)]
      BY <2>1, <3>3, <3>4 DEF TryRecover
    <3>. QED BY <1>1, <3>1, <3>3, <3>5 DEF TypeOK
  <2>. QED BY <1>1, <2>4, <2>5 DEF StoreInv
<1>. QED BY <1>3, <1>4

LEMMA RequestStore ==
  ASSUME TypeOK, OpInv, FileInv, StoreInv,
         InstallRequest \/ RemoveRequest \/ RemoveBroken
  PROVE  StoreInv'
<1>1. ~Serving /\ files' = files /\ [Next]_vars
  BY DEF InstallRequest, RemoveRequest, RemoveBroken, Serving, disk, Next, Install, Remove
<1>2. \A n \in Names : packages'[n] = packages[n] => InStoreAsOnDisk(n)'
  BY <1>1, OthersInStore
<1>3. CASE InstallRequest
  <2>. PICK c \in Incoming, force \in BOOLEAN, remove \in BOOLEAN :
        LET orig == packages[c.pkg]
        IN  op' = [NoOp EXCEPT
                   !.kind = "install", !.name = c.pkg, !.new = c,
                   !.removeData = remove /\ orig # NoEntry, !.orig = orig,
                   !.hadData = data[c.pkg] = "user"]
    BY <1>3 DEF InstallRequest
  <2>1. op'.name = c.pkg /\ op'.orig = packages[c.pkg] /\ packages' = packages
    BY <1>3 DEF InstallRequest, NoOp
  <2>. QED BY <1>2, <2>1 DEF StoreInv
<1>4. CASE RemoveRequest
  <2>. PICK n \in Names :
        /\ op' = [NoOp EXCEPT !.kind = "remove", !.name = n, !.orig = packages[n]]
        /\ packages' = [packages EXCEPT ![n] = NoEntry] \/ packages' = packages
    BY <1>4 DEF RemoveRequest
  <2>1. op'.kind = "remove"
    BY DEF NoOp
  <2>2. InStoreAsOnDisk(n)' /\ \A m \in Names \ {n} : packages'[m] = packages[m]
    BY <1>2 DEF InStoreAsOnDisk, TypeOK
  <2>. QED BY <1>2, <2>1, <2>2 DEF StoreInv
<1>5. CASE RemoveBroken
  <2>1. packages' = packages /\ pc' = "file"
    BY <1>5 DEF RemoveBroken
  <2>. QED BY <1>2, <2>1 DEF StoreInv
<1>. QED BY <1>3, <1>4, <1>5

LEMMA CommitStore ==
  ASSUME TypeOK, OpInv, FileInv, StoreInv, Commit PROVE StoreInv'
<1>0. PICK n, c, f : n = op.name /\ c = op.new /\ f = dest
  OBVIOUS
<1>1. /\ n \in Names /\ op' = NoOp /\ files' = files /\ pc = "commit" /\ [Next]_vars
      /\ packages' = [packages EXCEPT ![n] = Entry(f, c.ver)]
  BY <1>0, InstallAnswered DEF Commit, Next, Install
<1>2. /\ files[f] = c /\ c.builds /\ c.pkg = n /\ c \in Packages /\ f \in Files
  BY <1>0, <1>1, Places DEF FileInv, OpInv, dest
<1>3. c = Content(n, c.ver, TRUE)
  BY <1>2 DEF Packages, Content
<1>4. packages'[n].path = f /\ packages'[n].ver = c.ver
  BY <1>1 DEF TypeOK, Entry
<1>5. FileAt(n, f)' = c
  BY <1>1, <1>2, Places DEF FileAt
<1>6. InStoreAsOnDisk(n)'
  BY <1>3, <1>4, <1>5 DEF InStoreAsOnDisk, FileAt
<1>7. \A m \in Names \ {n} : packages'[m] = packages[m]
  BY <1>1 DEF TypeOK
<1>8. op'.kind = "none"
  BY <1>1 DEF NoOp
<1>9. \A m \in Names \ {n} : InStoreAsOnDisk(m)'
  BY <1>0, <1>1, <1>7, OthersInStore
<1>. QED BY <1>6, <1>8, <1>9 DEF StoreInv

LEMMA RemoveStore ==
  ASSUME TypeOK, OpInv, FileInv, StoreInv, Purge \/ RemoveFile \/ RestoreBundled
  PROVE  StoreInv'
<1>1. /\ Serving /\ op.kind = "remove" /\ [Next]_vars
      /\ op.name \in Names => packages[op.name] = NoEntry
  BY DEF Purge, RemoveFile, RestoreBundled, OpInv, Serving, Next, Remove
<1>2. CASE Purge \/ RemoveFile
  <2>1. packages' = packages /\ op' \in {op, NoOp} /\ (Serving' => op' = op)
    BY <1>2 DEF Purge, RemoveFile, Goto, Reply, store, Serving
  <2>2. op'.kind # "install"
    BY <1>1, <2>1 DEF NoOp
  <2>3. \A n \in Names : n # op.name => InStoreAsOnDisk(n)'
    BY <1>1, <2>1, OthersInStore
  <2>4. \A n \in Names : n = op.name => InStoreAsOnDisk(n)'
    BY <1>1, <2>1 DEF InStoreAsOnDisk
  <2>. QED BY <2>2, <2>3, <2>4 DEF StoreInv
<1>3. CASE RestoreBundled
  <2>0. PICK b : b = op.name
    OBVIOUS
  <2>1. b \in Names /\ op' = NoOp /\ files' = files /\ "bundled" \in Paths
        /\ TryRecover(b, "bundled")
    BY <1>3, <2>0, Places DEF RestoreBundled, OpInv, Reply
  <2>2. op'.kind = "none"
    BY <2>1 DEF NoOp
  <2>3. Declares(FileAt(b, "bundled"), b)
    BY <2>1, BundledFacts DEF FileAt
  <2>4. InStoreAsOnDisk(b)'
    BY <2>1, <2>3, RecoveredInStore
  <2>5. \A n \in Names \ {b} : packages'[n] = packages[n]
    BY <2>1, TryRecoverType
  <2>6. \A n \in Names \ {b} : InStoreAsOnDisk(n)'
    BY <1>1, <2>0, <2>5, OthersInStore
  <2>. QED BY <2>2, <2>4, <2>6 DEF StoreInv
<1>. QED BY <1>2, <1>3

LEMMA ReloadStore ==
  ASSUME TypeOK, OpInv, Reload PROVE StoreInv'
<1>1. pc' = "idle" /\ answer' = "none" /\ files' = files
  BY DEF Reload, Goto, OpInv
<1>2. ASSUME NEW n \in Names, packages'[n] # NoEntry
      PROVE  FileAt(n, packages'[n].path) = Content(n, packages'[n].ver, TRUE)
  <2>. DEFINE path == packages'[n].path
              c == FileAt(n, path)
  <2>1. path \in Candidates(n) /\ c.builds /\ packages'[n].ver = c.ver
    BY <1>2, ReloadEffect
  <2>2. c \in Packages /\ c.pkg = n
    BY <2>1, InstallConstantsOK, Places DEF Candidates, Overrides, FileAt, Parses
  <2>3. c = Content(n, c.ver, TRUE)
    BY <2>1, <2>2 DEF Packages, Content
  <2>. QED BY <2>1, <2>3
<1>. QED BY <1>1, <1>2 DEF StoreInv, InStoreAsOnDisk, FileAt

LEMMA StoreStep ==
  ASSUME TypeOK, OpInv, FileInv, StoreInv, [Next]_vars PROVE StoreInv'
<1>1. CASE UNCHANGED vars \/ UserWrites
  <2>1. UNCHANGED <<files, packages, volumeUp, pc, op, answer>>
    BY <1>1 DEF UserWrites, vars, disk, store, volumes
  <2>. QED BY <2>1 DEF StoreInv, InStoreAsOnDisk, FileAt, Serving
<1>2. CASE Install
  <2>1. CASE Backup \/ Copy \/ SetDataAside \/ Acquire \/ Build \/ Rollback \/ Undo
    <3>1. Serving /\ Serving' /\ op'.name = op.name /\ packages' = packages
      BY <2>1, InstallMoves DEF SameRequest
    <3>2. \A n \in Names : n # op.name => InStoreAsOnDisk(n)'
      BY <3>1, OthersInStore
    <3>. QED BY <3>1, <3>2 DEF StoreInv, Serving
  <2>. QED BY <1>2, <2>1, RequestStore, CommitStore, RecoverStore DEF Install
<1>3. CASE Remove
  BY <1>3, RequestStore, RemoveStore, RecoverStore DEF Remove
<1>4. CASE Reload
  BY <1>4, ReloadStore
<1>5. CASE Crash \/ TeardownAll
  <2>1. packages' = [n \in Names |-> NoEntry] /\ answer' = "none"
    BY <1>5 DEF Crash, TeardownAll
  <2>. QED BY <2>1 DEF StoreInv, InStoreAsOnDisk
<1>6. CASE VolumeManagerDies
  <2>1. UNCHANGED <<files, packages, pc, op>> /\ ~volumeUp'
    BY <1>6 DEF VolumeManagerDies, disk, store
  <2>. QED BY <2>1 DEF StoreInv, InStoreAsOnDisk, FileAt, Serving
<1>. QED BY <1>1, <1>2, <1>3, <1>4, <1>5, <1>6 DEF Next

-----------------------------------------------------------------------------
(* The users' data *)

\* The user of n has data where DataInv speaks of it.
UserData == op.kind = "install" /\ op.orig # NoEntry /\ op.hadData

LEMMA DataInstallRequest ==
  ASSUME TypeOK, OpInv, DataInv, InstallRequest PROVE DataInv'
<1>. PICK c \in Incoming, force \in BOOLEAN, remove \in BOOLEAN :
      LET orig == packages[c.pkg]
      IN  op' = [NoOp EXCEPT
                 !.kind = "install", !.name = c.pkg, !.new = c,
                 !.removeData = remove /\ orig # NoEntry, !.orig = orig,
                 !.hadData = data[c.pkg] = "user"]
  BY DEF InstallRequest
<1>1. /\ op'.name = c.pkg /\ ~op'.aside /\ ~op'.built
      /\ op'.hadData <=> data[c.pkg] = "user"
  BY DEF NoOp
<1>2. UNCHANGED <<data, dataOld>> /\ pc' \in {"backup", "copy", "idle"}
  BY DEF InstallRequest, disk
<1>. QED BY <1>1, <1>2 DEF DataInv, UserDataSurvives

LEMMA DataInstallMoves ==
  ASSUME TypeOK, OpInv, DataInv,
         Backup \/ Copy \/ SetDataAside \/ Acquire \/ Build \/ Rollback \/ Undo
  PROVE  DataInv'
<1>. DEFINE n == op.name
<1>1. /\ op.kind = "install" /\ n \in Names /\ SameRequest /\ Serving
  BY InstallMoves
<1>2. op'.name = n /\ op'.removeData = op.removeData /\ (UserData' <=> UserData)
  BY <1>1 DEF SameRequest, UserData
<1>3. CASE Backup
  BY <1>3 DEF Backup, Goto, DataInv, UserDataSurvives
<1>4. CASE Copy
  BY <1>4 DEF Copy, Goto, DataInv, UserDataSurvives
<1>5. CASE SetDataAside
  <2>1. CASE /\ dataOld' = [dataOld EXCEPT ![n] = data[n]]
             /\ op' = [op EXCEPT !.aside = data[n] # "none"]
             /\ pc' = "acquire"
    <3>1. dataOld'[n] = data[n] /\ op'.built = op.built /\ op'.aside = (data[n] # "none")
      BY <1>1, <2>1 DEF TypeOK
    <3>. QED BY <1>2, <1>5, <2>1, <3>1 DEF SetDataAside, DataInv, UserDataSurvives, UserData
  <2>2. CASE pc' = "rollback" /\ UNCHANGED <<data, op>>
    BY <1>5, <2>2 DEF SetDataAside, DataInv, UserDataSurvives
  <2>. QED BY <1>5, <2>1, <2>2 DEF SetDataAside
<1>6. CASE Acquire
  <2>1. CASE AcquireVolume(n) /\ Goto("build") /\ UNCHANGED dataOld
    <3>1. data[n] = "user" => data'[n] = "user"
      BY <1>1, <2>1, AcquireType
    <3>. QED BY <1>6, <2>1, <3>1 DEF Acquire, Goto, DataInv, UserDataSurvives
  <2>2. CASE op.aside /\ RestoreData(n) /\ pc' = "rollback"
    <3>1. op'.built = op.built
      BY <2>2 DEF RestoreData, Outcomes, TypeOK
    <3>2. \/ data'[n] = dataOld[n]
          \/ "data" \in op'.stuck /\ dataOld' = dataOld
      BY <1>1, <2>2 DEF RestoreData, Outcomes, TypeOK
    <3>. QED BY <1>2, <1>6, <2>2, <3>1, <3>2 DEF Acquire, DataInv, UserDataSurvives, UserData
  <2>3. CASE ~op.aside /\ UNCHANGED <<data, dataOld, op>> /\ pc' = "rollback"
    BY <1>6, <2>3 DEF Acquire, DataInv, UserDataSurvives
  <2>. QED BY <1>6, <2>1, <2>2, <2>3 DEF Acquire
<1>7. CASE Build
  <2>1. op'.built /\ op'.aside = op.aside /\ UNCHANGED <<data, dataOld>>
        /\ pc' \in {"commit", "rollback"}
    BY <1>7 DEF Build, TypeOK, disk
  <2>. QED BY <1>2, <1>7, <2>1 DEF Build, DataInv, UserDataSurvives, UserData
<1>8. CASE Rollback
  <2>1. /\ op'.built = op.built /\ op'.aside = op.aside /\ op.stuck \subseteq op'.stuck
        /\ UNCHANGED <<data, dataOld>> /\ pc' = (IF op.built THEN "undo" ELSE "recover")
    BY <1>8 DEF Rollback, AfterRollback, TypeOK
  <2>. QED BY <1>2, <1>8, <2>1 DEF Rollback, DataInv, UserDataSurvives, UserData
<1>9. CASE Undo
  <2>1. pc' = "recover"
    BY <1>9 DEF Undo
  <2>2. CASE op.aside
    <3>1. RestoreData(n)
      BY <1>9, <2>2 DEF Undo
    <3>2. \/ data'[n] = dataOld[n]
          \/ "data" \in op'.stuck /\ dataOld' = dataOld
      BY <1>1, <3>1 DEF RestoreData, Outcomes, TypeOK
    <3>. QED BY <1>2, <1>9, <2>1, <2>2, <3>2 DEF Undo, DataInv, UserDataSurvives, UserData
  <2>3. CASE ~op.aside
    <3>1. op' = op /\ (UserData => UNCHANGED data)
      BY <1>9, <2>3 DEF Undo, DataInv, UserData
    <3>. QED BY <1>2, <1>9, <2>1, <2>3, <3>1 DEF Undo, DataInv, UserDataSurvives, UserData
  <2>. QED BY <2>2, <2>3
<1>. QED BY <1>3, <1>4, <1>5, <1>6, <1>7, <1>8, <1>9

\* Outside the steps of an install a user's data is not touched.
LEMMA DataKept ==
  ASSUME TypeOK, OpInv, DataInv, UNCHANGED <<dataOld, op>>,
         pc' \in {"boot", "idle"},
         (pc' = pc /\ answer' = answer) \/ answer' = "none" \/ pc = "recover",
         \A n \in Names : data[n] = "user" => data'[n] = "user"
  PROVE  DataInv'
<1>1. op.kind = "install" => op.name \in Names
  BY DEF OpInv
<1>2. UserDataSurvives'
  BY <1>1 DEF DataInv, UserDataSurvives
<1>3. UserData /\ pc' = "idle" /\ answer' = "err" =>
          "data" \in op.stuck \/ data'[op.name] = "user"
  <2>. SUFFICES ASSUME UserData, pc' = "idle", answer' = "err"
                PROVE  "data" \in op.stuck \/ data'[op.name] = "user"
    OBVIOUS
  <2>1. pc = "recover" \/ (pc = "idle" /\ answer = "err")
    OBVIOUS
  <2>2. "data" \in op.stuck \/ data[op.name] = "user"
    BY <2>1 DEF DataInv, UserData
  <2>. QED BY <1>1, <2>2 DEF UserData
<1>. QED BY <1>2, <1>3 DEF DataInv, UserData

LEMMA DataStep ==
  ASSUME TypeOK, OpInv, DataInv, [Next]_vars PROVE DataInv'
<1>1. CASE UNCHANGED vars \/ VolumeManagerDies
  BY <1>1 DEF VolumeManagerDies, vars, disk, DataInv, UserDataSurvives
<1>2. CASE Install
  <2>1. CASE Commit
    <3>1. op'.kind = "none" /\ pc' = "idle"
      BY <2>1, InstallAnswered DEF NoOp
    <3>. QED BY <3>1 DEF DataInv, UserDataSurvives
  <2>2. CASE Recover
    <3>1. /\ op' = op /\ dataOld' = dataOld /\ pc' = "idle" /\ pc = "recover"
          /\ op.name \in Names
      BY <2>2, InstallAnswered DEF Recover
    <3>2. \A n \in Names : data[n] = "user" => data'[n] = "user"
      <4>1. CASE UNCHANGED data
        BY <4>1
      <4>2. CASE op.orig # NoEntry /\ TryRecover(op.name, op.orig.path)
        BY <3>1, <4>2, AcquireType DEF TryRecover
      <4>. QED BY <2>2, <4>1, <4>2 DEF Recover
    <3>. QED BY <3>1, <3>2, DataKept
  <2>. QED BY <1>2, <2>1, <2>2, DataInstallRequest, DataInstallMoves DEF Install
<1>3. CASE RemoveRequest \/ RemoveBroken
  <2>1. op'.kind = "remove" /\ pc' \in {"purge", "file", "idle"}
    BY <1>3 DEF RemoveRequest, RemoveBroken, NoOp
  <2>. QED BY <2>1 DEF DataInv, UserDataSurvives
<1>4. CASE Purge \/ RemoveFile \/ RestoreBundled
  <2>1. op' \in {op, NoOp} /\ op.kind = "remove"
        /\ pc' \in {"file", "recover", "restore", "idle"}
    BY <1>4 DEF Purge, RemoveFile, RestoreBundled, OpInv, Goto, Reply
  <2>2. op'.kind # "install"
    BY <2>1 DEF NoOp
  <2>. QED BY <2>1, <2>2 DEF DataInv, UserDataSurvives
<1>5. CASE Reload \/ Crash \/ TeardownAll
  <2>1. UNCHANGED <<dataOld, op>> /\ pc' \in {"boot", "idle"} /\ answer' = "none"
    BY <1>5 DEF Reload, Crash, TeardownAll, Goto, OpInv, disk
  <2>2. \A n \in Names : data[n] = "user" => data'[n] = "user"
    BY <1>5 DEF Reload, Crash, TeardownAll, disk
  <2>. QED BY <2>1, <2>2, DataKept
<1>6. CASE UserWrites
  <2>1. UNCHANGED <<dataOld, op, pc, answer>>
    BY <1>6 DEF UserWrites
  <2>2. \A n \in Names : data[n] = "user" => data'[n] = "user"
    BY <1>6 DEF UserWrites, TypeOK
  <2>3. op.kind = "install" => op.name \in Names
    BY DEF OpInv
  <2>. QED BY <2>1, <2>2, <2>3 DEF DataInv, UserDataSurvives
<1>. QED BY <1>1, <1>2, <1>3, <1>4, <1>5, <1>6 DEF Next, Remove

-----------------------------------------------------------------------------
(* The theorems *)

LEMMA InstallInvariant == Spec => []IInv
<1>1. Init => IInv
  BY IInvInit
<1>2. IInv /\ [Next]_vars => IInv'
  BY TypeStep, OpStep, FileStep, BrokenStep, StoreStep, DataStep DEF IInv
<1>. QED BY <1>1, <1>2, PTL DEF Spec

\* The disk, the store, the volumes and the request keep their types through every
\* install, removal and restart.
THEOREM InstallTypeCorrect == Spec => []TypeOK
<1>1. IInv => TypeOK
  BY DEF IInv
<1>. QED BY <1>1, InstallInvariant, PTL

\* Whenever the manager is between two requests, each package of its store is the
\* one the file it was built from holds (handle_install_package, remove_package,
\* try_recover, reload_packages), whatever failed before.
THEOREM StoreIsOnDisk == Spec => []StoreMatchesDisk
<1>1. IInv => StoreMatchesDisk
  BY DEF IInv, StoreInv, InStoreAsOnDisk, StoreMatchesDisk, Serving
<1>. QED BY <1>1, InstallInvariant, PTL

\* The file an upgrade replaces is under its own name or its backup's until the
\* commit (backup_file, rollback_file_ops), also if the daemon dies on the way.
THEOREM InstalledFileIsKept == Spec => []InstalledFileSurvives
<1>1. IInv => InstalledFileSurvives
  BY DEF IInv, FileInv
<1>. QED BY <1>1, InstallInvariant, PTL

\* The user's data is in the data directory or its backup until the commit
\* (backup_data_dir, rollback_data_dir), also if the daemon dies on the way.
THEOREM UserDataIsKept == Spec => []UserDataSurvives
<1>1. IInv => UserDataSurvives
  BY DEF IInv, DataInv
<1>. QED BY <1>1, InstallInvariant, PTL

\* An upgrade answered with an error left the package and its data as they were,
\* but for what a failed step of the rollback itself names.
THEOREM FailedUpgradeUndone == Spec => []FailedUpgradeIsUndone
<1>1. IInv => FailedUpgradeIsUndone
  BY DEF IInv, StoreInv, DataInv, FailedUpgradeIsUndone
<1>. QED BY <1>1, InstallInvariant, PTL

=============================================================================
