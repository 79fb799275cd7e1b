------------------------- MODULE VolumeQuotaProofs -------------------------
(***************************************************************************)
(* What holds of VolumeQuota for any packages, versions, bounds and faults.*)
(***************************************************************************)
EXTENDS VolumeQuota, WellFoundedInduction, TLAPS

-----------------------------------------------------------------------------
(* The inductive invariant, one part per mechanism *)

\* What is on a directory that was never made, and what a daemon that runs
\* without quota, or not at all, has in its volume table.
DirShape    == \A n \in Names : ~dir[n].made => dir[n] = NoDir
OldShape    == \A n \in Names : ~old[n].made => old[n] = NoDir
VolumeShape == \A n \in Names : volumes[n].kind # "data" \/ ~quota => volumes[n].id = 0
BootShape   == pc = "boot" => /\ ~quota /\ store = {} /\ todo = {}
                              /\ \A n \in Names : volumes[n] = NoVolume

ShapeInv == DirShape /\ OldShape /\ VolumeShape /\ BootShape

\* What a request has in op at each of its places.
OpInv ==
    /\ pc \in {"aside", "acquire", "build", "undo", "restore", "recover", "purge",
               "file"} => op.name \in Names
    /\ pc \in {"aside", "acquire", "build", "undo"} =>
           op.new.there /\ file[op.name] = op.new
    /\ pc \in {"aside", "acquire", "build"} /\ ~op.new.builds => "build" \in faults
    /\ pc \in {"undo", "restore"} => "build" \in faults
    /\ op.aside => op.removeData
    /\ pc = "aside" => op.removeData
    /\ pc = "restore" => op.aside
    /\ op.removeData => op.orig.there
    /\ pc \in {"recover", "purge"} => op.orig.there
    /\ pc \in {"restore", "recover", "purge"} => file[op.name] = op.orig
    /\ pc \in {"aside", "acquire", "build", "undo"} /\ ~op.orig.there =>
           op.name \notin store
    /\ pc \in {"purge", "file"} => op.name \notin store

\* The store holds packages that have a file; a start has one for each to load.
StoreInv ==
    /\ \A n \in store : file[n].there
    /\ \A n \in todo : file[n].there
    /\ todo # {} => pc = "load"

\* A volume with a data directory holds the entry of the project the directory
\* has, but while the directory is set aside.
VolumeInv ==
    \A n \in Names : quota /\ volumes[n].kind = "data" =>
        /\ volumes[n].id = ids[n] /\ ids[n] # 0
        /\ \/ pc = "acquire" /\ op.name = n /\ dir[n] = NoDir
           \/ dir[n].made /\ dir[n].inherit /\ dir[n].top = ids[n]
        /\ ~(pc = "restore" /\ op.name = n)

\* A start has read the project of each directory it is to load.
LoadInv ==
    "scan" \notin faults /\ pc = "load" /\ quota =>
        \A n \in todo : ids[n] = ActiveId(dir[n])

\* On the disk a directory that passes no project on has none, and no project is on
\* the directories of two packages; one that is set aside for a request counts.
Aside(n) == pc \in {"acquire", "build", "undo", "restore"} /\ op.aside /\ op.name = n

MarkInv  == \A n \in Names : ~dir[n].inherit => dir[n].top = 0
OwnInv   == \A m, n \in Names : m # n /\ ActiveId(dir[n]) # 0 =>
                ActiveId(dir[m]) # ActiveId(dir[n])
AsideInv == \A n \in Names : Aside(n) =>
                /\ ~old[n].inherit => old[n].top = 0
                /\ ActiveId(old[n]) # 0 => \A m \in Names \ {n} :
                       ActiveId(dir[m]) # ActiveId(old[n])

DiskInv == MarkInv /\ OwnInv /\ AsideInv

\* The daemon knows the project of every directory, but of one that it has just
\* renamed back.
Known(n) == \/ ids[n] = ActiveId(dir[n])
            \/ pc = "recover" /\ op.name = n /\ "build" \in faults

TrackInv ==
    quota /\ pc # "boot" =>
        /\ \A m, n \in Names : m # n /\ ids[n] # 0 => ids[m] # ids[n]
        /\ \A n \in Names : ActiveId(dir[n]) # 0 => Known(n)

\* The limit on the disk is the volume's, and the volume's is the file's of the
\* version in the store or that is being installed.
Current(n) == \/ n \in store /\ (pc \in {"idle", "load"} \/ op.name # n)
              \/ pc = "build" /\ op.name = n

LimitInv ==
    quota => \A n \in Names : volumes[n].kind = "data" =>
        /\ limits[ids[n]] = volumes[n].limit
        /\ Current(n) => volumes[n].limit = file[n].limit

\* What is stored was stored in the project the directory has.
ChargeInv ==
    /\ pc # "boot" => quota
    /\ \A n \in Names : dir[n].charged # {} =>
           /\ dir[n].inherit /\ dir[n].top # 0
           /\ dir[n].charged = {dir[n].top}

\* What fails leaves no data in a project that is gone.
Undisturbed == faults \cap {"build", "remove", "quota", "scan", "cut"} = {}

Shape == ShapeInv /\ OpInv /\ StoreInv /\ VolumeInv /\ LoadInv

IInv ==
    /\ TypeOK
    /\ Shape
    /\ KeepsTrack => DiskInv /\ TrackInv /\ LimitInv
    /\ Undisturbed => ChargeInv

-----------------------------------------------------------------------------
(* The project ids *)

\* A finite range of numbers has a greatest one in each set of it.
LEMMA GreatestIsThere ==
  ASSUME NEW N \in Nat, NEW S \in SUBSET (0..N), S # {}
  PROVE  \E i \in S : \A j \in S : j <= i
<1>. DEFINE T == {k \in 0..N : N - k \in S}
<1>1. T # {} /\ T \in SUBSET Nat
  <2>1. PICK s \in S : TRUE
    OBVIOUS
  <2>2. N - s \in T
    BY <2>1
  <2>. QED BY <2>2
<1>2. \E least \in T : \A k \in T : ~(<<k, least>> \in OpToRel(<, Nat))
  BY <1>1, WFMin, NatLessThanWellFounded, Zenon
<1>3. \A k, n \in T : k < n => <<k, n>> \in OpToRel(<, Nat)
  BY <1>1, Zenon DEF OpToRel
<1>4. PICK least \in T : \A k \in T : ~(k < least)
  BY <1>2, <1>3, Zenon
<1>5. \A j \in S : N - j \in T
  OBVIOUS
<1>6. N - least \in S /\ \A j \in S : j <= N - least
  BY <1>4, <1>5
<1>. QED BY <1>6

\* next_id: an id that no directory has, nor is reserved for a backup.
LEMMA NextIdIsFresh ==
  ASSUME TypeOK
  PROVE  /\ NextId \in Nat \ {0}
         /\ \A n \in Names : ids[n] # NextId
         /\ NextId \notin oldIds
<1>0. ids \in [Names -> Ids] /\ oldIds \subseteq Ids
  BY DEF TypeOK
<1>1. InUse \in SUBSET (0..MaxId) /\ 0 \in InUse
  <2>1. \A i \in InUse : i \in Ids
    <3>1. 0 \in Ids /\ \A n \in Names : ids[n] \in Ids
      BY <1>0, QuotaConstantsOK DEF Ids
    <3>. QED BY <1>0, <3>1 DEF InUse
  <2>2. 0 \in InUse
    BY DEF InUse
  <2>. QED BY <2>1, <2>2 DEF Ids
<1>2. \E i \in InUse : \A j \in InUse : j <= i
  BY <1>1, GreatestIsThere, QuotaConstantsOK
<1>. DEFINE greatest == CHOOSE i \in InUse : \A j \in InUse : j <= i
<1>3. greatest \in InUse /\ \A j \in InUse : j <= greatest
  BY <1>2
<1>4. NextId = greatest + 1
  BY DEF NextId
<1>5. \A j \in InUse : j \in Nat
  BY <1>1
<1>. HIDE DEF greatest
<1>6. greatest + 1 \in Nat \ {0} /\ \A j \in InUse : j # greatest + 1
  BY <1>3, <1>5
<1>. QED BY <1>4, <1>6 DEF InUse

\* get_project_id: the id that a path gets, within the bound, is its own.
LEMMA ProjectIdIsOwn ==
  ASSUME TypeOK, NEW n \in Names, Bounded(ProjectId(n))
  PROVE  /\ ProjectId(n) \in Ids \ {0}
         /\ ids[n] # 0 => ProjectId(n) = ids[n]
         /\ ids[n] = 0 => \A m \in Names : ids[m] # ProjectId(n)
<1>1. ProjectId(n) \in Nat \ {0}
  BY NextIdIsFresh DEF ProjectId, TypeOK, Ids
<1>2. ProjectId(n) <= MaxId
  BY <1>1, QuotaConstantsOK DEF Bounded
<1>. QED BY <1>1, <1>2, NextIdIsFresh, QuotaConstantsOK DEF ProjectId, Ids

-----------------------------------------------------------------------------
(* The calls on the disk *)

LEMMA DirTypes ==
  /\ NoDir \in Dirs
  /\ NoDir.made = FALSE /\ NoDir.inherit = FALSE
  /\ NoDir.top = 0 /\ NoDir.charged = {}
<1>1. 0 \in Ids /\ {} \in SUBSET Ids
  BY QuotaConstantsOK DEF Ids
<1>. QED BY <1>1 DEF NoDir, Directory, Dirs

\* create_data_directory on a directory d, cut off anywhere, leaves g: the project
\* is as it was before the call that sets it, and is the one of the quota after it.
Leaves(d, id, steps, g) ==
    /\ ~g.made => g = NoDir
    /\ g.top = d.top \/ (quota /\ g.top = id)
    /\ d.inherit => g.inherit
    /\ ~g.inherit => g.top = d.top
    /\ steps < 3 => g.top = d.top
    /\ ~quota => g.top = d.top /\ g.inherit = d.inherit
    /\ steps = 5 => g.made
    /\ steps >= 3 /\ quota => g.made /\ g.inherit /\ g.top = id
    /\ d.charged # {} => g.charged = d.charged
    /\ d.charged = {} =>
           \/ g.charged = {}
           \/ steps = 5 /\ g.charged = {IF g.inherit THEN g.top ELSE 0}

LEMMA GrantedEffect ==
  ASSUME NEW d \in Dirs, ~d.made => d = NoDir,
         NEW id \in Ids, NEW steps \in 0..5, quota \in BOOLEAN
  PROVE  /\ Granted(d, id, steps) \in Dirs
         /\ Leaves(d, id, steps, Granted(d, id, steps))
<1>. DEFINE made     == Made(d)
            flagged  == IF quota /\ steps >= 2 THEN [made EXCEPT !.inherit = TRUE] ELSE made
            assigned == IF quota /\ steps >= 3 THEN [flagged EXCEPT !.top = id] ELSE flagged
            project  == IF assigned.inherit THEN assigned.top ELSE 0
<1>0. d.inherit \in BOOLEAN
  BY DEF Dirs
<1>1. /\ made \in Dirs /\ made.made /\ made.top = d.top /\ made.inherit = d.inherit
      /\ made.charged = d.charged
  <2>1. Directory(0, FALSE, {}).made /\ Directory(0, FALSE, {}) \in Dirs
    BY DirTypes DEF Directory, Dirs, NoDir
  <2>2. CASE d.made
    BY <2>2 DEF Made
  <2>3. CASE ~d.made
    <3>1. made = Directory(0, FALSE, {})
      BY <2>3 DEF Made
    <3>2. made.top = 0 /\ made.inherit = FALSE /\ made.charged = {}
      BY <3>1 DEF Directory
    <3>. QED BY <2>1, <2>3, <3>1, <3>2, DirTypes
  <2>. QED BY <2>2, <2>3
<1>. HIDE DEF made
<1>2. /\ flagged \in Dirs /\ flagged.made /\ flagged.top = d.top
      /\ flagged.inherit = (d.inherit \/ (quota /\ steps >= 2))
      /\ flagged.charged = d.charged
  BY <1>1 DEF Dirs
<1>. HIDE DEF flagged
<1>3. /\ assigned \in Dirs /\ assigned.made
      /\ assigned.top = IF quota /\ steps >= 3 THEN id ELSE d.top
      /\ assigned.inherit = (d.inherit \/ (quota /\ steps >= 2))
      /\ assigned.charged = d.charged
  BY <1>2 DEF Dirs
<1>. HIDE DEF assigned
<1>4. Granted(d, id, steps) =
        IF steps = 0 THEN d
        ELSE IF steps >= 5 /\ d.charged = {}
             THEN [assigned EXCEPT !.charged = {project}]
        ELSE assigned
  BY DEF Granted, made, flagged, assigned
<1>5. CASE steps = 0
  <2>1. Granted(d, id, steps) = d
    BY <1>4, <1>5
  <2>. QED BY <1>5, <2>1, DirTypes DEF Leaves
<1>6. CASE steps = 5 /\ d.charged = {}
  <2>1. project \in Ids
    BY <1>3, QuotaConstantsOK DEF Dirs, Ids
  <2>. DEFINE g == [assigned EXCEPT !.charged = {project}]
  <2>2. /\ g \in Dirs /\ g.made /\ g.top = assigned.top /\ g.inherit = assigned.inherit
        /\ g.charged = {project}
    BY <1>3, <2>1 DEF Dirs
  <2>3. Granted(d, id, steps) = g
    BY <1>4, <1>6
  <2>. HIDE DEF g
  <2>. QED BY <1>0, <1>3, <1>6, <2>2, <2>3 DEF Leaves
<1>7. CASE steps # 0 /\ ~(steps = 5 /\ d.charged = {})
  <2>1. Granted(d, id, steps) = assigned
    BY <1>4, <1>7
  <2>. QED BY <1>0, <1>3, <1>7, <2>1 DEF Leaves
<1>. QED BY <1>5, <1>6, <1>7

\* The id is the one a directory has, or no other has it.
OwnId(n, id) ==
    /\ id # 0
    /\ ids[n] # 0 => id = ids[n]
    /\ ids[n] = 0 => \A m \in Names : ids[m] # id

\* What a grant may leave on the disk, whole or cut off.
GrantStep(n, limit, id, steps) ==
    /\ id \in Ids /\ steps \in 0..5
    /\ steps = 5 \/ "grant" \in faults \/ pc' = "boot"
    /\ quota => OwnId(n, id)
    /\ Grant(n, limit, id, steps)

\* handle_acquire_volume in these terms.
LEMMA AcquireEffect ==
  ASSUME TypeOK, NEW n \in Names, NEW limit \in Limits, AcquireVolume(n, limit)
  PROVE  \E id \in Ids, steps \in 0..5 :
           /\ GrantStep(n, limit, id, steps)
           /\ steps = 5 \/ "grant" \in faults
           /\ ~quota => id = 0
           /\ ids' = IF quota THEN [ids EXCEPT ![n] = id] ELSE ids
           /\ volumes' = [volumes EXCEPT ![n] =
                  IF steps = 5 THEN Volume("data", id, IF quota THEN limit ELSE 0)
                               ELSE Volume("bare", 0, 0)]
           /\ UNCHANGED <<quota, oldIds>>
<1>. DEFINE id == IF quota THEN ProjectId(n) ELSE 0
<1>1. Bounded(id)
  BY DEF AcquireVolume
<1>2. id \in Ids /\ (quota => OwnId(n, id)) /\ (~quota => id = 0)
  BY <1>1, ProjectIdIsOwn, QuotaConstantsOK DEF OwnId, Ids
<1>3. PICK steps \in Progress("grant", 5) :
        /\ Grant(n, limit, id, steps)
        /\ volumes' = [volumes EXCEPT ![n] =
               IF steps = 5 THEN Volume("data", id, IF quota THEN limit ELSE 0)
                            ELSE Volume("bare", 0, 0)]
  BY DEF AcquireVolume
<1>4. /\ ids' = IF quota THEN [ids EXCEPT ![n] = id] ELSE ids
      /\ UNCHANGED <<quota, oldIds>>
  BY DEF AcquireVolume
<1>. HIDE DEF id
<1>5. steps \in 0..5 /\ (steps = 5 \/ "grant" \in faults)
  BY DEF Progress
<1>. QED BY <1>2, <1>3, <1>4, <1>5 DEF GrantStep

\* The directory and the limits after a grant, of the package and of the others.
LEMMA GrantEffect ==
  ASSUME TypeOK, ShapeInv, NEW n \in Names, NEW limit \in Limits,
         NEW id, NEW steps, GrantStep(n, limit, id, steps)
  PROVE  /\ dir' \in [Names -> Dirs] /\ limits' \in [Ids -> Limits]
         /\ \A m \in Names \ {n} : dir'[m] = dir[m]
         /\ Leaves(dir[n], id, steps, dir'[n])
         /\ \A i \in Ids : i # id => limits'[i] = limits[i]
         /\ steps >= 4 /\ quota => limits'[id] = limit
<1>1. dir \in [Names -> Dirs] /\ limits \in [Ids -> Limits] /\ quota \in BOOLEAN
  BY DEF TypeOK
<1>2. dir[n] \in Dirs /\ (~dir[n].made => dir[n] = NoDir) /\ id \in Ids /\ steps \in 0..5
  BY <1>1 DEF ShapeInv, DirShape, GrantStep
<1>3. dir' = [dir EXCEPT ![n] = Granted(dir[n], id, steps)]
  BY DEF GrantStep, Grant
<1>4. limits' = IF quota /\ steps >= 4 THEN [limits EXCEPT ![id] = limit] ELSE limits
  BY DEF GrantStep, Grant
<1>5. dir'[n] = Granted(dir[n], id, steps)
  BY <1>1, <1>3
<1>6. /\ limits' \in [Ids -> Limits]
      /\ \A i \in Ids : i # id => limits'[i] = limits[i]
      /\ steps >= 4 /\ quota => limits'[id] = limit
  BY <1>1, <1>2, <1>4
<1>7. Granted(dir[n], id, steps) \in Dirs /\ Leaves(dir[n], id, steps, Granted(dir[n], id, steps))
  BY <1>1, <1>2, GrantedEffect
<1>8. dir' \in [Names -> Dirs] /\ \A m \in Names \ {n} : dir'[m] = dir[m]
  BY <1>1, <1>3, <1>7
<1>. QED BY ONLY <1>5, <1>6, <1>7, <1>8

\* The calls of set_block_limit(false): a directory that was not made is not opened.
LEMMA RevokedEffect ==
  ASSUME NEW d \in Dirs, NEW steps \in 0..3
  PROVE  LET r == Revoked(d, steps)
         IN  /\ r \in Dirs
             /\ r.made = d.made /\ r.charged = d.charged
             /\ steps = 0 => r = d
             /\ steps >= 1 => r.inherit = FALSE
             /\ steps >= 2 => r.top = 0
             /\ r.top = d.top \/ r.top = 0
             /\ r.inherit => d.inherit
<1>1. 0 \in Ids
  BY QuotaConstantsOK DEF Ids
<1>. DEFINE r == Revoked(d, steps)
<1>2. r = [d EXCEPT !.inherit = IF steps >= 1 THEN FALSE ELSE d.inherit,
                    !.top     = IF steps >= 2 THEN 0 ELSE d.top]
  BY DEF Revoked
<1>3. d = [made |-> d.made, top |-> d.top, inherit |-> d.inherit, charged |-> d.charged]
      /\ d.made \in BOOLEAN /\ d.top \in Ids /\ d.inherit \in BOOLEAN
      /\ d.charged \in SUBSET Ids
  BY DEF Dirs
<1>4. r = [made |-> d.made, top |-> IF steps >= 2 THEN 0 ELSE d.top,
           inherit |-> IF steps >= 1 THEN FALSE ELSE d.inherit, charged |-> d.charged]
  BY <1>2, <1>3
<1>. HIDE DEF r
<1>5. r \in Dirs
  BY <1>1, <1>3, <1>4 DEF Dirs
<1>6. /\ r.made = d.made /\ r.charged = d.charged
      /\ r.top = IF steps >= 2 THEN 0 ELSE d.top
      /\ r.inherit = IF steps >= 1 THEN FALSE ELSE d.inherit
  BY <1>4
<1>7. steps = 0 => r = d
  BY <1>3, <1>4
<1>. QED BY <1>3, <1>5, <1>6, <1>7 DEF r

\* What handle_purge_volume leaves of a volume, its directory and its id.
LEMMA PurgeEffect ==
  ASSUME TypeOK, ShapeInv, VolumeInv, pc # "acquire",
         NEW n \in Names, NEW ok \in BOOLEAN, PurgeVolume(n, ok)
  PROVE  /\ volumes' = [volumes EXCEPT ![n] = NoVolume]
         /\ UNCHANGED <<quota, oldIds>>
         /\ dir' \in [Names -> Dirs] /\ limits' \in [Ids -> Limits]
         /\ \A m \in Names \ {n} : dir'[m] = dir[m]
         /\ dir'[n] = NoDir \/ dir'[n].made
         /\ dir'[n].charged # {} => dir'[n].charged = dir[n].charged
         /\ \/ UNCHANGED <<ids, limits, dir>> /\ volumes[n].kind # "data"
            \/ /\ ids' = [ids EXCEPT ![n] = 0] /\ volumes[n].kind = "data"
               /\ \A i \in Ids : i # volumes[n].id => limits'[i] = limits[i]
               /\ \/ dir'[n] = NoDir
                  \/ "remove" \in faults
               /\ "clear" \notin faults =>
                      \/ dir'[n].inherit = FALSE /\ dir'[n].top = 0
                      \/ dir'[n] = dir[n] /\ ~quota
<1>1. CASE volumes[n].kind # "data"
  <2>1. /\ volumes' = [volumes EXCEPT ![n] = NoVolume]
        /\ UNCHANGED <<ids, limits, dir, quota, oldIds>>
    BY <1>1 DEF PurgeVolume
  <2>2. dir \in [Names -> Dirs] /\ limits \in [Ids -> Limits]
        /\ (dir[n].made \/ dir[n] = NoDir)
    BY DEF TypeOK, ShapeInv, DirShape
  <2>. QED BY <1>1, <2>1, <2>2
<1>2. CASE volumes[n].kind = "data"
  <2>1. /\ ok => dir[n].made
        /\ ~ok => ~dir[n].made \/ "remove" \in faults
        /\ ids' = [ids EXCEPT ![n] = 0]
        /\ volumes' = [volumes EXCEPT ![n] = NoVolume]
        /\ UNCHANGED <<quota, oldIds>>
    BY <1>2 DEF PurgeVolume
  <2>2. PICK steps \in IF Revocable(n) THEN Progress("clear", 3) ELSE {0} :
          /\ limits' = LimitsWithout(volumes[n].id, steps)
          /\ dir' = [dir EXCEPT ![n] = IF ok THEN NoDir ELSE Revoked(dir[n], steps)]
    BY <1>2 DEF PurgeVolume
  <2>3. /\ dir \in [Names -> Dirs] /\ limits \in [Ids -> Limits]
        /\ volumes[n].id \in Ids /\ 0 \in Limits
    BY QuotaConstantsOK DEF TypeOK, Volumes
  <2>4. steps \in 0..3 /\ (~Revocable(n) => steps = 0)
    BY <2>2 DEF Progress
  <2>5. /\ limits' \in [Ids -> Limits]
        /\ \A i \in Ids : i # volumes[n].id => limits'[i] = limits[i]
    BY <2>2, <2>3 DEF LimitsWithout
  <2>6. Revoked(dir[n], steps) \in Dirs /\ dir' \in [Names -> Dirs]
    BY <2>2, <2>3, <2>4, RevokedEffect, DirTypes
  <2>7. /\ \A m \in Names \ {n} : dir'[m] = dir[m]
        /\ dir'[n] = IF ok THEN NoDir ELSE Revoked(dir[n], steps)
    BY <2>2, <2>3, <2>6
  <2>r. LET r == Revoked(dir[n], steps)
        IN  /\ r.made = dir[n].made /\ r.charged = dir[n].charged
            /\ steps = 0 => r = dir[n]
            /\ steps >= 1 => r.inherit = FALSE
            /\ steps >= 2 => r.top = 0
    <3>1. dir[n] \in Dirs
      BY <2>3
    <3>. QED BY <2>4, <3>1, RevokedEffect
  <2>8. CASE ok
    BY <1>2, <2>1, <2>5, <2>6, <2>7, <2>8, DirTypes DEF ActiveId
  <2>9. CASE ~ok /\ ~dir[n].made
    <3>1. dir[n] = NoDir /\ steps = 0
      BY <2>4, <2>9 DEF Revocable, ShapeInv, DirShape
    <3>2. dir'[n] = NoDir
      BY <2>7, <2>9, <2>r, <3>1
    <3>. QED BY <1>2, <2>1, <2>5, <2>6, <2>7, <3>2, DirTypes
  <2>10. CASE ~ok /\ dir[n].made
    <3>1. dir'[n].made /\ dir'[n].charged = dir[n].charged
      BY <2>7, <2>10, <2>r
    <3>2. "clear" \notin faults /\ quota => steps = 3
      BY <1>2, <2>2, <2>10 DEF VolumeInv, Revocable, Progress
    <3>3. ~quota => steps = 0
      BY <2>4 DEF Revocable, ShapeInv, VolumeShape
    <3>4. "clear" \notin faults =>
              \/ dir'[n].inherit = FALSE /\ dir'[n].top = 0
              \/ dir'[n] = dir[n] /\ ~quota
      <4>1. dir'[n] = Revoked(dir[n], steps)
        BY <2>7, <2>10
      <4>2. CASE quota
        BY <2>r, <3>2, <4>1, <4>2
      <4>3. CASE ~quota
        BY <2>r, <3>3, <4>1, <4>3
      <4>. QED BY <4>2, <4>3
    <3>. QED BY <1>2, <2>1, <2>5, <2>6, <2>7, <2>10, <3>1, <3>4
  <2>. QED BY <2>8, <2>9, <2>10
<1>. QED BY <1>1, <1>2

-----------------------------------------------------------------------------
(* Types *)

\* The parameters of a request.
Ops == [name : Names \cup {"none"}, new : Files, orig : Files,
        removeData : BOOLEAN, aside : BOOLEAN]

LEMMA OpTypes ==
  /\ NoFile \in Files /\ NoOp \in Ops /\ ~NoFile.there
  /\ \A limit \in Limits, b \in BOOLEAN : File(limit, b) \in Files
  /\ \A n \in Names, f \in Files : [NoOp EXCEPT !.name = n, !.orig = f] \in Ops
  /\ \A o \in Ops, b \in BOOLEAN : [o EXCEPT !.aside = b] \in Ops
  /\ NoVolume \in Volumes /\ Volume("bare", 0, 0) \in Volumes
  /\ \A id \in Ids, limit \in Limits : Volume("data", id, limit) \in Volumes
<1>1. 0 \in Limits /\ 0 \in Ids
  BY QuotaConstantsOK DEF Ids
<1>2. NoFile \in Files /\ ~NoFile.there
  BY <1>1 DEF NoFile, File, Files
<1>3. \A limit \in Limits, b \in BOOLEAN : File(limit, b) \in Files
  BY DEF File, Files
<1>4. NoOp \in Ops
  BY <1>2 DEF NoOp, Ops
<1>5. \A n \in Names, f \in Files : [NoOp EXCEPT !.name = n, !.orig = f] \in Ops
  BY <1>2 DEF NoOp, Ops
<1>6. \A o \in Ops, b \in BOOLEAN : [o EXCEPT !.aside = b] \in Ops
  BY DEF Ops
<1>7. /\ NoVolume \in Volumes /\ Volume("bare", 0, 0) \in Volumes
      /\ \A id \in Ids, limit \in Limits : Volume("data", id, limit) \in Volumes
  BY <1>1 DEF NoVolume, Volume, Volumes
<1>. QED BY <1>2, <1>3, <1>4, <1>5, <1>6, <1>7

\* The types in parts, as the steps below need them.
DiskType == /\ dir \in [Names -> Dirs] /\ old \in [Names -> Dirs]
            /\ limits \in [Ids -> Limits] /\ file \in [Names -> Files]
MemoryType == /\ quota \in BOOLEAN
              /\ ids \in [Names -> Ids] /\ oldIds \subseteq Ids \ {0}
              /\ volumes \in [Names -> Volumes]
RequestType ==
    /\ store \subseteq Names /\ todo \subseteq Names
    /\ pc \in {"boot", "load", "idle", "aside", "acquire", "build", "undo",
               "restore", "recover", "purge", "file"}
    /\ op \in Ops

LEMMA TypeParts ==
  /\ TypeOK <=> DiskType /\ MemoryType /\ RequestType /\ faults \in FaultSets
  /\ TypeOK' <=> DiskType' /\ MemoryType' /\ RequestType' /\ faults' \in FaultSets
BY DEF TypeOK, DiskType, MemoryType, RequestType, Ops

\* An acquired volume has the types of its tables.
LEMMA AcquireType ==
  ASSUME TypeOK, ShapeInv, NEW n \in Names, NEW limit \in Limits, AcquireVolume(n, limit)
  PROVE  /\ MemoryType'
         /\ dir' \in [Names -> Dirs] /\ limits' \in [Ids -> Limits]
<1>1. PICK id \in Ids, steps \in 0..5 :
        /\ GrantStep(n, limit, id, steps)
        /\ ids' = IF quota THEN [ids EXCEPT ![n] = id] ELSE ids
        /\ volumes' = [volumes EXCEPT ![n] =
               IF steps = 5 THEN Volume("data", id, IF quota THEN limit ELSE 0)
                            ELSE Volume("bare", 0, 0)]
        /\ UNCHANGED <<quota, oldIds>>
  BY AcquireEffect
<1>2. MemoryType /\ 0 \in Limits
  BY QuotaConstantsOK, TypeParts
<1>3. volumes' \in [Names -> Volumes]
  BY <1>1, <1>2, OpTypes DEF MemoryType
<1>4. ids' \in [Names -> Ids]
  BY <1>1, <1>2 DEF MemoryType
<1>5. MemoryType'
  BY <1>1, <1>2, <1>3, <1>4 DEF MemoryType
<1>. QED BY <1>1, <1>5, GrantEffect

\* So has a purged one.
LEMMA PurgeType ==
  ASSUME TypeOK, ShapeInv, VolumeInv, pc # "acquire",
         NEW n \in Names, NEW ok \in BOOLEAN, PurgeVolume(n, ok)
  PROVE  /\ MemoryType'
         /\ dir' \in [Names -> Dirs] /\ limits' \in [Ids -> Limits]
<1>1. /\ volumes' = [volumes EXCEPT ![n] = NoVolume]
      /\ UNCHANGED <<quota, oldIds>>
      /\ ids' = ids \/ ids' = [ids EXCEPT ![n] = 0]
      /\ dir' \in [Names -> Dirs] /\ limits' \in [Ids -> Limits]
  BY PurgeEffect
<1>2. MemoryType /\ 0 \in Ids
  BY QuotaConstantsOK, TypeParts DEF Ids
<1>. QED BY <1>1, <1>2, OpTypes DEF MemoryType

\* The first calls of a grant that a death of the daemon cuts off are a grant's.
LEMMA CrashInGrantEffect ==
  ASSUME TypeOK, CrashInGrant
  PROVE  \E n \in Names, limit \in Limits, id \in Ids, steps \in 1..5 :
           /\ \/ pc = "load" /\ n \in todo
              \/ pc \in {"acquire", "recover"} /\ n = op.name
           /\ GrantStep(n, limit, id, steps)
<1>1. PICK n \in Names, limit \in Limits, steps \in 1..5 :
        /\ \/ pc = "load" /\ n \in todo
           \/ pc \in {"acquire", "recover"} /\ n = op.name
        /\ Bounded(ProjectId(n))
        /\ Grant(n, limit, IF quota THEN ProjectId(n) ELSE 0, steps)
  BY DEF CrashInGrant
<1>. DEFINE id == IF quota THEN ProjectId(n) ELSE 0
<1>2. id \in Ids /\ (quota => OwnId(n, id))
  BY <1>1, ProjectIdIsOwn, QuotaConstantsOK DEF OwnId, Ids
<1>3. pc' = "boot"
  BY DEF CrashInGrant, Dies
<1>4. Grant(n, limit, id, steps)
  BY <1>1
<1>. HIDE DEF id
<1>5. GrantStep(n, limit, id, steps)
  BY <1>2, <1>3, <1>4 DEF GrantStep
<1>. QED BY <1>1, <1>2, <1>5

\* What a daemon that is gone has in memory.
LEMMA DiesEffect ==
  ASSUME TypeOK, Dies
  PROVE  /\ quota' = FALSE /\ store' = {} /\ todo' = {} /\ pc' = "boot" /\ op' = NoOp
         /\ \A n \in Names : volumes'[n] = NoVolume
         /\ UNCHANGED faults
         /\ MemoryType' /\ RequestType'
<1>1. 0 \in Ids
  BY QuotaConstantsOK DEF Ids
<1>. QED BY <1>1, OpTypes DEF Dies, MemoryType, RequestType

LEMMA DaemonType ==
  ASSUME TypeOK, ShapeInv, OpInv, VolumeInv, Daemon PROVE TypeOK'
<1>0. DiskType /\ MemoryType /\ RequestType /\ faults \in FaultSets
  BY TypeParts
<1>1. CASE Start
  <2>1. \A n \in Names : ActiveId(dir[n]) \in Ids /\ ActiveId(old[n]) \in Ids
    BY <1>0, QuotaConstantsOK DEF DiskType, Dirs, ActiveId, Ids
  <2>2. PICK on \in BOOLEAN, read, readOld \in [Names -> BOOLEAN] :
          /\ quota' = on
          /\ ids' = [n \in Names |-> IF on /\ read[n] THEN ActiveId(dir[n]) ELSE 0]
          /\ oldIds' = {ActiveId(old[n]) : n \in {m \in Names : on /\ readOld[m]}} \ {0}
    <3>1. Outcomes("quota") \subseteq BOOLEAN /\ Outcomes("scan") \subseteq BOOLEAN
      BY DEF Outcomes
    <3>2. [Names -> Outcomes("scan")] \subseteq [Names -> BOOLEAN]
      BY <3>1
    <3>. QED BY <1>1, <3>1, <3>2 DEF Start
  <2>3. 0 \in Ids
    BY QuotaConstantsOK DEF Ids
  <2>4. MemoryType'
    BY <1>0, <1>1, <2>1, <2>2, <2>3 DEF Start, MemoryType
  <2>5. RequestType'
    BY <1>0, <1>1 DEF Start, RequestType
  <2>6. DiskType' /\ faults' \in FaultSets
    BY <1>0, <1>1 DEF Start, DiskType, disk
  <2>. QED BY <2>4, <2>5, <2>6, TypeParts
<1>2. CASE Load
  <2>1. PICK n \in todo :
          /\ AcquireVolume(n, file[n].limit)
          /\ store' = IF file[n].builds THEN store \cup {n} ELSE store
          /\ todo' = todo \ {n}
    BY <1>2 DEF Load
  <2>2. n \in Names /\ file[n].limit \in Limits
    BY <1>0 DEF RequestType, DiskType, Files
  <2>3. MemoryType' /\ dir' \in [Names -> Dirs] /\ limits' \in [Ids -> Limits]
    BY <2>1, <2>2, AcquireType
  <2>4. RequestType'
    BY <1>0, <1>2, <2>1, <2>2 DEF Load, RequestType
  <2>5. DiskType' /\ faults' \in FaultSets
    BY <1>0, <1>2, <2>3 DEF Load, DiskType
  <2>. QED BY <2>3, <2>4, <2>5, TypeParts
<1>3. CASE Crash
  <2>1. DiskType' /\ faults' \in FaultSets
    BY <1>0, <1>3, DiesEffect DEF Crash, DiskType, disk
  <2>. QED BY <1>3, <2>1, DiesEffect, TypeParts DEF Crash
<1>4. CASE CrashInGrant
  <2>1. dir' \in [Names -> Dirs] /\ limits' \in [Ids -> Limits]
    BY <1>4, CrashInGrantEffect, GrantEffect
  <2>2. Dies /\ UNCHANGED <<old, file>>
    BY <1>4 DEF CrashInGrant
  <2>3. DiskType' /\ faults' \in FaultSets
    BY <1>0, <2>1, <2>2, DiesEffect DEF DiskType
  <2>. QED BY <2>2, <2>3, DiesEffect, TypeParts
<1>5. CASE CrashInPurge
  <2>1. Dies /\ UNCHANGED old /\ op.name \in Names
    BY <1>5 DEF CrashInPurge, OpInv
  <2>2. PICK steps \in 1..3 :
          /\ dir' = [dir EXCEPT ![op.name] = Revoked(@, steps)]
          /\ limits' = LimitsWithout(volumes[op.name].id, steps)
    BY <1>5 DEF CrashInPurge
  <2>3. dir' \in [Names -> Dirs]
    <3>1. dir \in [Names -> Dirs] /\ dir[op.name] \in Dirs /\ steps \in 0..3
      BY <1>0, <2>1 DEF DiskType
    <3>2. Revoked(dir[op.name], steps) \in Dirs
      BY <3>1, RevokedEffect
    <3>. QED BY <2>2, <3>1, <3>2
  <2>4. limits' \in [Ids -> Limits]
    BY <1>0, <2>2, QuotaConstantsOK DEF LimitsWithout, DiskType
  <2>5. op.orig \in Files
    BY <1>0 DEF RequestType, Ops
  <2>6. file' \in [Names -> Files]
    BY <1>0, <1>5, <2>1, <2>5 DEF CrashInPurge, DiskType
  <2>7. DiskType' /\ faults' \in FaultSets
    BY <1>0, <2>1, <2>3, <2>4, <2>6, DiesEffect DEF DiskType
  <2>. QED BY <2>1, <2>7, DiesEffect, TypeParts
<1>6. CASE CrashInRestore
  <2>1. Dies /\ UNCHANGED <<old, limits, file>> /\ dir' = [dir EXCEPT ![op.name] = NoDir]
    BY <1>6 DEF CrashInRestore
  <2>2. DiskType' /\ faults' \in FaultSets
    BY <1>0, <2>1, DirTypes, DiesEffect DEF DiskType
  <2>. QED BY <2>1, <2>2, DiesEffect, TypeParts
<1>. QED BY <1>1, <1>2, <1>3, <1>4, <1>5, <1>6 DEF Daemon

\* A request under way has a package, and what it has of it is typed.
LEMMA RequestTypes ==
  ASSUME TypeOK, OpInv
  PROVE  /\ op \in Ops /\ op.new \in Files /\ op.orig \in Files
         /\ op.new.limit \in Limits /\ op.orig.limit \in Limits
         /\ op.new.builds \in BOOLEAN /\ op.aside \in BOOLEAN
         /\ pc \notin {"boot", "load", "idle"} => op.name \in Names
<1>1. RequestType
  BY TypeParts
<1>2. op \in Ops /\ op.new \in Files /\ op.orig \in Files
  BY <1>1 DEF RequestType, Ops
<1>3. op.aside \in BOOLEAN
  BY <1>2 DEF Ops
<1>4. /\ op.new.limit \in Limits /\ op.orig.limit \in Limits
      /\ op.new.builds \in BOOLEAN
  BY <1>2 DEF Files
<1>5. pc \notin {"boot", "load", "idle"} => op.name \in Names
  BY <1>1 DEF RequestType, OpInv
<1>. QED BY <1>2, <1>3, <1>4, <1>5

LEMMA InstallType ==
  ASSUME TypeOK, ShapeInv, OpInv, VolumeInv, Install PROVE TypeOK'
<1>0. DiskType /\ MemoryType /\ RequestType /\ faults \in FaultSets
  BY TypeParts
<1>r. /\ op \in Ops /\ op.new.limit \in Limits /\ op.orig.limit \in Limits
      /\ op.orig \in Files
      /\ pc \notin {"boot", "load", "idle"} => op.name \in Names
  BY RequestTypes
<1>1. CASE InstallRequest
  <2>1. PICK c \in Incoming, remove \in BOOLEAN :
          LET n    == c.name
              orig == IF n \in store THEN file[n] ELSE NoFile
              new  == File(c.limit, c.builds)
          IN  \/ /\ file' = [file EXCEPT ![n] = new]
                 /\ op' = [name |-> n, new |-> new, orig |-> orig,
                           removeData |-> remove /\ orig.there, aside |-> FALSE]
                 /\ pc' \in {"aside", "acquire"}
              \/ /\ file' = [file EXCEPT ![n] = orig]
                 /\ op' = [NoOp EXCEPT !.name = n, !.orig = orig]
                 /\ pc' \in {"recover", "idle"}
    BY <1>1 DEF InstallRequest
  <2>. DEFINE n    == c.name
              orig == IF n \in store THEN file[n] ELSE NoFile
              new  == File(c.limit, c.builds)
  <2>2. n \in Names /\ c.limit \in Limits /\ c.builds \in BOOLEAN
    BY QuotaConstantsOK
  <2>3. orig \in Files /\ new \in Files
    BY <1>0, <2>2, OpTypes DEF DiskType
  <2>4. orig.there \in BOOLEAN
    BY <2>3 DEF Files
  <2>5. op' \in Ops /\ file' \in [Names -> Files]
    <3>. HIDE DEF n, orig, new
    <3>1. [name |-> n, new |-> new, orig |-> orig,
           removeData |-> remove /\ orig.there, aside |-> FALSE] \in Ops
      BY <2>2, <2>3, <2>4 DEF Ops
    <3>2. [NoOp EXCEPT !.name = n, !.orig = orig] \in Ops
      BY <2>2, <2>3, OpTypes
    <3>3. /\ [file EXCEPT ![n] = new] \in [Names -> Files]
          /\ [file EXCEPT ![n] = orig] \in [Names -> Files]
      BY <1>0, <2>3 DEF DiskType
    <3>. QED BY <2>1, <3>1, <3>2, <3>3 DEF n, orig, new
  <2>6. pc' \in {"aside", "acquire", "recover", "idle"}
    BY <2>1
  <2>7. RequestType'
    BY <1>0, <1>1, <2>5, <2>6 DEF InstallRequest, RequestType
  <2>8. DiskType' /\ MemoryType' /\ faults' \in FaultSets
    BY <1>0, <1>1, <2>5 DEF InstallRequest, DiskType, MemoryType, memory
  <2>. QED BY <2>7, <2>8, TypeParts
<1>2. CASE SetDataAside
  <2>1. op.name \in Names
    BY <1>2, <1>r DEF SetDataAside
  <2>2. dir[op.name].made \in BOOLEAN
    BY <1>0, <2>1 DEF DiskType, Dirs
  <2>3. RequestType'
    BY <1>0, <1>2, <1>r, <2>2, OpTypes DEF SetDataAside, RequestType
  <2>4. DiskType' /\ MemoryType' /\ faults' \in FaultSets
    BY <1>0, <1>2, <2>1, DirTypes DEF SetDataAside, DiskType, MemoryType, memory
  <2>. QED BY <2>3, <2>4, TypeParts
<1>3. CASE Acquire
  <2>1. MemoryType' /\ dir' \in [Names -> Dirs] /\ limits' \in [Ids -> Limits]
    BY <1>3, <1>r, AcquireType DEF Acquire
  <2>2. RequestType'
    BY <1>0, <1>3 DEF Acquire, Goto, RequestType
  <2>3. DiskType' /\ faults' \in FaultSets
    BY <1>0, <1>3, <2>1 DEF Acquire, DiskType
  <2>. QED BY <2>1, <2>2, <2>3, TypeParts
<1>4. CASE Build
  <2>1. op.name \in Names
    BY <1>4, <1>r DEF Build
  <2>2. RequestType'
    BY <1>0, <1>4, <2>1, OpTypes DEF Build, Goto, Done, RequestType
  <2>3. old' = old \/ old' = [old EXCEPT ![op.name] = NoDir]
    BY <1>4 DEF Build
  <2>4. DiskType' /\ MemoryType' /\ faults' \in FaultSets
    BY <1>0, <1>4, <2>1, <2>3, DirTypes DEF Build, DiskType, MemoryType, memory
  <2>. QED BY <2>2, <2>4, TypeParts
<1>5. CASE Undo
  <2>1. op.name \in Names /\ pc = "undo"
    BY <1>5, <1>r DEF Undo
  <2>2. MemoryType' /\ dir' \in [Names -> Dirs] /\ limits' \in [Ids -> Limits]
    <3>1. CASE \E ok \in BOOLEAN : PurgeVolume(op.name, ok)
      BY <2>1, <3>1, PurgeType
    <3>2. CASE UNCHANGED <<dir, limits, memory>>
      BY <1>0, <3>2 DEF MemoryType, DiskType, memory
    <3>. QED BY <1>5, <3>1, <3>2 DEF Undo
  <2>3. RequestType'
    BY <1>0, <1>5 DEF Undo, Recovers, Goto, RequestType
  <2>4. DiskType' /\ faults' \in FaultSets
    BY <1>0, <1>5, <1>r, <2>1, <2>2 DEF Undo, DiskType
  <2>. QED BY <2>2, <2>3, <2>4, TypeParts
<1>6. CASE RestoreData
  <2>1. op.name \in Names
    BY <1>6, <1>r DEF RestoreData
  <2>2. \/ /\ dir' = [dir EXCEPT ![op.name] = old[op.name]]
           /\ old' = [old EXCEPT ![op.name] = NoDir]
        \/ dir' = dir /\ UNCHANGED old
        \/ dir' = [dir EXCEPT ![op.name] = NoDir] /\ UNCHANGED old
    BY <1>6 DEF RestoreData
  <2>3. dir' \in [Names -> Dirs] /\ old' \in [Names -> Dirs]
    BY <1>0, <2>1, <2>2, DirTypes DEF DiskType
  <2>4. RequestType'
    BY <1>0, <1>6 DEF RestoreData, Goto, RequestType
  <2>5. DiskType' /\ MemoryType' /\ faults' \in FaultSets
    BY <1>0, <1>6, <2>3 DEF RestoreData, DiskType, MemoryType, memory
  <2>. QED BY <2>4, <2>5, TypeParts
<1>7. CASE Recover
  <2>1. op.name \in Names
    BY <1>7, <1>r DEF Recover
  <2>2. MemoryType' /\ dir' \in [Names -> Dirs] /\ limits' \in [Ids -> Limits]
    BY <1>7, <1>r, <2>1, AcquireType DEF Recover
  <2>3. RequestType'
    BY <1>0, <1>7, <2>1, OpTypes DEF Recover, Done, RequestType
  <2>4. DiskType' /\ faults' \in FaultSets
    BY <1>0, <1>7, <2>2 DEF Recover, DiskType
  <2>. QED BY <2>2, <2>3, <2>4, TypeParts
<1>. QED BY <1>1, <1>2, <1>3, <1>4, <1>5, <1>6, <1>7 DEF Install

LEMMA RemoveType ==
  ASSUME TypeOK, ShapeInv, OpInv, VolumeInv, Remove PROVE TypeOK'
<1>0. DiskType /\ MemoryType /\ RequestType /\ faults \in FaultSets
  BY TypeParts
<1>r. op \in Ops /\ (pc \notin {"boot", "load", "idle"} => op.name \in Names)
  BY RequestTypes
<1>1. CASE RemoveRequest
  <2>1. PICK n \in store : /\ store' = store \ {n}
                           /\ op' = [NoOp EXCEPT !.name = n, !.orig = file[n]]
    BY <1>1 DEF RemoveRequest
  <2>2. n \in Names /\ file[n] \in Files
    BY <1>0, <2>1 DEF RequestType, DiskType
  <2>3. op' \in Ops
    BY <2>1, <2>2, OpTypes
  <2>4. RequestType'
    BY <1>0, <1>1, <2>1, <2>3 DEF RemoveRequest, RequestType
  <2>5. DiskType' /\ MemoryType' /\ faults' \in FaultSets
    BY <1>0, <1>1 DEF RemoveRequest, DiskType, MemoryType, disk, memory
  <2>. QED BY <2>4, <2>5, TypeParts
<1>2. CASE RemoveBroken
  <2>1. file' \in [Names -> Files]
    BY <1>0, <1>2, OpTypes DEF RemoveBroken, DiskType
  <2>2. DiskType' /\ MemoryType' /\ RequestType' /\ faults' \in FaultSets
    BY <1>0, <1>2, <2>1 DEF RemoveBroken, DiskType, MemoryType, RequestType, memory, request
  <2>. QED BY <2>2, TypeParts
<1>3. CASE Purge
  <2>1. op.name \in Names /\ pc = "purge"
    BY <1>3, <1>r DEF Purge
  <2>2. MemoryType' /\ dir' \in [Names -> Dirs] /\ limits' \in [Ids -> Limits]
    BY <1>3, <2>1, PurgeType DEF Purge
  <2>3. RequestType'
    BY <1>0, <1>3 DEF Purge, Goto, RequestType
  <2>4. DiskType' /\ faults' \in FaultSets
    BY <1>0, <1>3, <2>2 DEF Purge, DiskType
  <2>. QED BY <2>2, <2>3, <2>4, TypeParts
<1>4. CASE RemoveFile
  <2>1. file' \in [Names -> Files]
    BY <1>0, <1>4, OpTypes DEF RemoveFile, DiskType
  <2>2. RequestType'
    BY <1>0, <1>4, OpTypes DEF RemoveFile, Done, RequestType
  <2>3. DiskType' /\ MemoryType' /\ faults' \in FaultSets
    BY <1>0, <1>4, <2>1 DEF RemoveFile, DiskType, MemoryType, memory
  <2>. QED BY <2>2, <2>3, TypeParts
<1>. QED BY <1>1, <1>2, <1>3, <1>4 DEF Remove

LEMMA TypeStep ==
  ASSUME TypeOK, ShapeInv, OpInv, VolumeInv, [Next]_vars PROVE TypeOK'
<1>1. CASE UNCHANGED vars
  BY <1>1 DEF vars, disk, memory, request, TypeOK
<1>. QED BY <1>1, DaemonType, InstallType, RemoveType DEF Next

-----------------------------------------------------------------------------
(* What the requests do *)

\* An install request, and what it asks for.
LEMMA InstallRequestEffect ==
  ASSUME TypeOK, StoreInv, InstallRequest
  PROVE  /\ pc = "idle" /\ UNCHANGED <<dir, old, limits, quota, ids, volumes, store, todo, faults>>
         /\ op'.name \in Names /\ ~op'.aside
         /\ \A m \in Names \ {op'.name} : file'[m] = file[m]
         /\ op'.removeData => op'.orig.there
         /\ op'.orig.there <=> op'.name \in store
         /\ \/ /\ (pc' = "aside" /\ op'.removeData) \/ pc' = "acquire"
               /\ op'.new.there /\ file'[op'.name] = op'.new
               /\ op'.new.builds \/ "build" \in faults
            \/ /\ pc' = IF op'.orig.there THEN "recover" ELSE "idle"
               /\ file'[op'.name] = op'.orig
               /\ ~op'.removeData
<1>0. file \in [Names -> Files]
  BY DEF TypeOK
<1>1. PICK c \in Incoming, remove \in BOOLEAN :
        LET n    == c.name
            orig == IF n \in store THEN file[n] ELSE NoFile
            new  == File(c.limit, c.builds)
        IN  \/ /\ c.builds \/ "build" \in faults
               /\ file' = [file EXCEPT ![n] = new]
               /\ op' = [name |-> n, new |-> new, orig |-> orig,
                         removeData |-> remove /\ orig.there, aside |-> FALSE]
               /\ pc' = IF op'.removeData THEN "aside" ELSE "acquire"
            \/ /\ "copy" \in faults
               /\ file' = [file EXCEPT ![n] = orig]
               /\ op' = [NoOp EXCEPT !.name = n, !.orig = orig]
               /\ pc' = IF orig.there THEN "recover" ELSE "idle"
  BY DEF InstallRequest
<1>. DEFINE n    == c.name
            orig == IF n \in store THEN file[n] ELSE NoFile
            new  == File(c.limit, c.builds)
<1>2. n \in Names
  BY QuotaConstantsOK
<1>3. orig.there <=> n \in store
  BY OpTypes DEF StoreInv
<1>4. new.there /\ new.builds = c.builds
  BY DEF File
<1>5. pc = "idle" /\ UNCHANGED <<dir, old, limits, quota, ids, volumes, store, todo, faults>>
  BY DEF InstallRequest, memory
<1>. HIDE DEF n, orig, new
<1>6. CASE /\ c.builds \/ "build" \in faults
           /\ file' = [file EXCEPT ![n] = new]
           /\ op' = [name |-> n, new |-> new, orig |-> orig,
                     removeData |-> remove /\ orig.there, aside |-> FALSE]
           /\ pc' = IF op'.removeData THEN "aside" ELSE "acquire"
  <2>1. /\ op'.name = n /\ op'.new = new /\ op'.orig = orig /\ ~op'.aside
        /\ op'.removeData = (remove /\ orig.there)
    BY <1>6
  <2>2. file'[n] = new /\ \A m \in Names \ {n} : file'[m] = file[m]
    BY <1>0, <1>2, <1>6
  <2>3. op'.new.builds \/ "build" \in faults
    BY <1>4, <1>6, <2>1
  <2>. QED BY <1>2, <1>3, <1>4, <1>5, <1>6, <2>1, <2>2, <2>3
<1>7. CASE /\ file' = [file EXCEPT ![n] = orig]
           /\ op' = [NoOp EXCEPT !.name = n, !.orig = orig]
           /\ pc' = IF orig.there THEN "recover" ELSE "idle"
  <2>1. /\ op'.name = n /\ op'.orig = orig /\ ~op'.aside /\ ~op'.removeData
    BY <1>7 DEF NoOp
  <2>2. file'[n] = orig /\ \A m \in Names \ {n} : file'[m] = file[m]
    BY <1>0, <1>2, <1>7
  <2>. QED BY <1>2, <1>3, <1>5, <1>7, <2>1, <2>2
<1>8. \/ /\ c.builds \/ "build" \in faults
         /\ file' = [file EXCEPT ![n] = new]
         /\ op' = [name |-> n, new |-> new, orig |-> orig,
                   removeData |-> remove /\ orig.there, aside |-> FALSE]
         /\ pc' = IF op'.removeData THEN "aside" ELSE "acquire"
      \/ /\ file' = [file EXCEPT ![n] = orig]
         /\ op' = [NoOp EXCEPT !.name = n, !.orig = orig]
         /\ pc' = IF orig.there THEN "recover" ELSE "idle"
  BY <1>1, Zenon DEF n, orig, new
<1>. QED BY ONLY <1>6, <1>7, <1>8

\* A request that ends, or a daemon that dies, leaves no parameters.
LEMMA NoOpIsEmpty == ~NoOp.aside /\ ~NoOp.removeData /\ NoOp.name = "none"
BY DEF NoOp

LEMMA OpStep ==
  ASSUME TypeOK, OpInv, StoreInv, Next PROVE OpInv'
<1>0. file \in [Names -> Files]
  BY DEF TypeOK
<1>1. CASE Start \/ Load
  <2>1. pc' \in {"idle", "load"} /\ op' = op
    BY <1>1 DEF Start, Load
  <2>. QED BY <2>1 DEF OpInv
<1>2. CASE Crash \/ CrashInGrant \/ CrashInPurge \/ CrashInRestore
  <2>1. pc' = "boot" /\ op' = NoOp
    BY <1>2 DEF Crash, CrashInGrant, CrashInPurge, CrashInRestore, Dies
  <2>. QED BY <2>1, NoOpIsEmpty DEF OpInv
<1>3. CASE InstallRequest
  <2>. QED BY <1>3, InstallRequestEffect DEF OpInv
<1>4. CASE SetDataAside
  <2>1. /\ pc = "aside" /\ pc' = "acquire" /\ UNCHANGED <<file, store, faults>>
        /\ op' = [op EXCEPT !.aside = dir[op.name].made]
    BY <1>4 DEF SetDataAside
  <2>2. op \in Ops
    BY TypeParts DEF RequestType
  <2>3. /\ op'.name = op.name /\ op'.new = op.new /\ op'.orig = op.orig
        /\ op'.removeData = op.removeData
    BY <2>1, <2>2 DEF Ops
  <2>. QED BY <2>1, <2>3 DEF OpInv
<1>5. CASE Acquire
  BY <1>5 DEF Acquire, Goto, OpInv
<1>6. CASE Build
  <2>1. CASE op.new.builds
    <3>1. pc' = "idle" /\ op' = NoOp
      BY <1>6, <2>1 DEF Build, Done
    <3>. QED BY <3>1, NoOpIsEmpty DEF OpInv
  <2>2. CASE ~op.new.builds
    <3>1. pc = "build" /\ pc' = "undo" /\ UNCHANGED <<op, file, store, faults>>
      BY <1>6, <2>2 DEF Build, Goto
    <3>. QED BY <2>2, <3>1 DEF OpInv
  <2>. QED BY <2>1, <2>2
<1>7. CASE Undo
  <2>1. /\ pc = "undo" /\ UNCHANGED <<op, store, faults>>
        /\ file' = [file EXCEPT ![op.name] = op.orig]
        /\ pc' = IF op.aside THEN "restore" ELSE IF op.orig.there THEN "recover" ELSE "idle"
    BY <1>7 DEF Undo, Recovers, Goto
  <2>2. op.name \in Names /\ "build" \in faults
    BY <2>1 DEF OpInv
  <2>3. file'[op.name] = op.orig
    BY <1>0, <2>1, <2>2
  <2>. QED BY <2>1, <2>2, <2>3 DEF OpInv
<1>8. CASE RestoreData
  <2>1. pc = "restore" /\ pc' = "recover" /\ UNCHANGED <<op, file, store, faults>>
    BY <1>8 DEF RestoreData, Goto
  <2>. QED BY <2>1 DEF OpInv
<1>9. CASE Recover
  <2>1. pc' = "idle" /\ op' = NoOp
    BY <1>9 DEF Recover, Done
  <2>. QED BY <2>1, NoOpIsEmpty DEF OpInv
<1>10. CASE RemoveRequest
  <2>1. PICK n \in store : /\ store' = store \ {n}
                           /\ op' = [NoOp EXCEPT !.name = n, !.orig = file[n]]
    BY <1>10 DEF RemoveRequest
  <2>2. op'.name = n /\ op'.orig = file[n] /\ ~op'.aside /\ ~op'.removeData
    BY <2>1 DEF NoOp
  <2>3. pc' = "purge" /\ UNCHANGED file /\ n \in Names /\ file[n].there
    BY <1>10, <2>1 DEF RemoveRequest, StoreInv, TypeOK, disk
  <2>. QED BY <2>1, <2>2, <2>3 DEF OpInv
<1>11. CASE RemoveBroken
  <2>1. pc = "idle" /\ pc' = "idle" /\ op' = op
    BY <1>11 DEF RemoveBroken, request
  <2>. QED BY <2>1 DEF OpInv
<1>12. CASE Purge
  <2>1. pc = "purge" /\ pc' \in {"file", "recover"} /\ UNCHANGED <<op, file, store, faults>>
    BY <1>12 DEF Purge, Goto
  <2>. QED BY <2>1 DEF OpInv
<1>13. CASE RemoveFile
  <2>1. pc' = "idle" /\ op' = NoOp
    BY <1>13 DEF RemoveFile, Done
  <2>. QED BY <2>1, NoOpIsEmpty DEF OpInv
<1>. QED BY <1>1, <1>2, <1>3, <1>4, <1>5, <1>6, <1>7, <1>8, <1>9, <1>10, <1>11, <1>12,
            <1>13 DEF Next, Daemon, Install, Remove

-----------------------------------------------------------------------------
(* The shape of directories, volumes and the store *)

LEMMA VolumeFacts ==
  /\ NoVolume.kind = "none" /\ NoVolume.id = 0
  /\ Volume("bare", 0, 0).kind = "bare" /\ Volume("bare", 0, 0).id = 0
  /\ \A id, limit : /\ Volume("data", id, limit).kind = "data"
                    /\ Volume("data", id, limit).id = id
                    /\ Volume("data", id, limit).limit = limit
BY DEF NoVolume, Volume

LEMMA GrantShape ==
  ASSUME TypeOK, ShapeInv, NEW n \in Names, NEW limit \in Limits,
         NEW id, NEW steps, GrantStep(n, limit, id, steps)
  PROVE  DirShape'
<1>1. /\ \A m \in Names \ {n} : dir'[m] = dir[m]
      /\ ~dir'[n].made => dir'[n] = NoDir
  BY GrantEffect DEF Leaves
<1>. QED BY <1>1 DEF ShapeInv, DirShape

\* The volume that is acquired, as its table has it, and the others.
LEMMA AcquiredVolume ==
  ASSUME TypeOK, ShapeInv, NEW n \in Names, NEW limit \in Limits, AcquireVolume(n, limit)
  PROVE  /\ DirShape' /\ VolumeShape'
         /\ UNCHANGED quota
         /\ \A m \in Names \ {n} : /\ volumes'[m] = volumes[m]
                                   /\ ids'[m] = ids[m]
                                   /\ dir'[m] = dir[m]
<1>1. PICK id \in Ids, steps \in 0..5 :
        /\ GrantStep(n, limit, id, steps)
        /\ ~quota => id = 0
        /\ ids' = IF quota THEN [ids EXCEPT ![n] = id] ELSE ids
        /\ volumes' = [volumes EXCEPT ![n] =
               IF steps = 5 THEN Volume("data", id, IF quota THEN limit ELSE 0)
                            ELSE Volume("bare", 0, 0)]
        /\ UNCHANGED <<quota, oldIds>>
  BY AcquireEffect
<1>2. MemoryType
  BY TypeParts
<1>3. /\ \A m \in Names \ {n} : volumes'[m] = volumes[m] /\ ids'[m] = ids[m]
      /\ volumes'[n] = IF steps = 5 THEN Volume("data", id, IF quota THEN limit ELSE 0)
                                    ELSE Volume("bare", 0, 0)
  BY <1>1, <1>2 DEF MemoryType
<1>4. volumes'[n].kind # "data" \/ ~quota => volumes'[n].id = 0
  BY <1>1, <1>3, VolumeFacts
<1>5. VolumeShape'
  BY <1>1, <1>3, <1>4 DEF ShapeInv, VolumeShape
<1>6. DirShape' /\ \A m \in Names \ {n} : dir'[m] = dir[m]
  BY <1>1, GrantShape, GrantEffect
<1>. QED BY <1>1, <1>3, <1>5, <1>6

LEMMA PurgeShape ==
  ASSUME TypeOK, ShapeInv, VolumeInv, pc # "acquire",
         NEW n \in Names, NEW ok \in BOOLEAN, PurgeVolume(n, ok)
  PROVE  /\ DirShape' /\ VolumeShape'
         /\ UNCHANGED quota
         /\ volumes'[n].kind = "none"
         /\ \A m \in Names \ {n} : /\ volumes'[m] = volumes[m]
                                   /\ ids'[m] = ids[m]
                                   /\ dir'[m] = dir[m]
<1>1. /\ volumes' = [volumes EXCEPT ![n] = NoVolume]
      /\ UNCHANGED quota
      /\ \A m \in Names \ {n} : dir'[m] = dir[m]
      /\ dir'[n] = NoDir \/ dir'[n].made
      /\ ids' = ids \/ ids' = [ids EXCEPT ![n] = 0]
  BY PurgeEffect
<1>2. MemoryType
  BY TypeParts
<1>3. /\ \A m \in Names \ {n} : volumes'[m] = volumes[m] /\ ids'[m] = ids[m]
      /\ volumes'[n] = NoVolume
  BY <1>1, <1>2 DEF MemoryType
<1>4. VolumeShape'
  BY <1>1, <1>3, VolumeFacts DEF ShapeInv, VolumeShape
<1>5. DirShape'
  BY <1>1 DEF ShapeInv, DirShape
<1>. QED BY <1>1, <1>3, <1>4, <1>5, VolumeFacts

LEMMA ShapeStep ==
  ASSUME TypeOK, ShapeInv, OpInv, VolumeInv, Next PROVE ShapeInv'
<1>0. DiskType
  BY TypeParts
<1>r. op \in Ops /\ op.new.limit \in Limits /\ op.orig.limit \in Limits
      /\ (pc \notin {"boot", "load", "idle"} => op.name \in Names)
  BY RequestTypes
<1>1. CASE Start
  <2>1. /\ pc' # "boot" /\ UNCHANGED <<dir, old>> /\ UNCHANGED volumes
        /\ \A n \in Names : volumes[n] = NoVolume
    BY <1>1 DEF Start, ShapeInv, BootShape, disk
  <2>. QED BY <2>1, VolumeFacts DEF ShapeInv, DirShape, OldShape, VolumeShape, BootShape
<1>2. CASE Load
  <2>1. PICK n \in todo : AcquireVolume(n, file[n].limit)
    BY <1>2 DEF Load
  <2>2. n \in Names /\ file[n].limit \in Limits
    BY <1>0, TypeParts DEF RequestType, DiskType, Files
  <2>3. DirShape' /\ VolumeShape'
    BY <2>1, <2>2, AcquiredVolume
  <2>4. pc' # "boot" /\ UNCHANGED old
    BY <1>2 DEF Load
  <2>. QED BY <2>3, <2>4 DEF ShapeInv, OldShape, BootShape
<1>3. CASE Crash \/ CrashInGrant \/ CrashInPurge \/ CrashInRestore
  <2>1. Dies /\ UNCHANGED old
    BY <1>3 DEF Crash, CrashInGrant, CrashInPurge, CrashInRestore, disk
  <2>2. BootShape' /\ VolumeShape'
    BY <2>1, DiesEffect, VolumeFacts DEF BootShape, VolumeShape
  <2>3. DirShape'
    <3>1. CASE Crash
      BY <3>1 DEF Crash, disk, ShapeInv, DirShape
    <3>2. CASE CrashInGrant
      BY <3>2, CrashInGrantEffect, GrantShape
    <3>3. CASE CrashInPurge
      <4>1. PICK steps \in 1..3 : dir' = [dir EXCEPT ![op.name] = Revoked(@, steps)]
        BY <3>3 DEF CrashInPurge
      <4>2. dir[op.name].made /\ op.name \in Names
        BY <1>r, <3>3 DEF CrashInPurge, Revocable
      <4>3. dir'[op.name] = Revoked(dir[op.name], steps)
            /\ \A m \in Names \ {op.name} : dir'[m] = dir[m]
        BY <1>0, <4>1, <4>2 DEF DiskType
      <4>4. Revoked(dir[op.name], steps).made = dir[op.name].made
        <5>1. dir[op.name] \in Dirs /\ steps \in 0..3
          BY <1>0, <4>2 DEF DiskType
        <5>. QED BY <5>1, RevokedEffect
      <4>5. dir'[op.name].made
        BY <4>2, <4>3, <4>4
      <4>. QED BY <4>3, <4>5 DEF ShapeInv, DirShape
    <3>4. CASE CrashInRestore
      BY <1>0, <3>4 DEF CrashInRestore, ShapeInv, DirShape, DiskType
    <3>. QED BY <1>3, <3>1, <3>2, <3>3, <3>4
  <2>. QED BY <2>1, <2>2, <2>3 DEF ShapeInv, OldShape
<1>4. CASE InstallRequest
  <2>1. pc' # "boot" /\ UNCHANGED <<dir, old, quota, volumes>>
    BY <1>4 DEF InstallRequest, memory
  <2>. QED BY <2>1 DEF ShapeInv, DirShape, OldShape, VolumeShape, BootShape
<1>5. CASE SetDataAside
  <2>1. /\ pc' # "boot" /\ UNCHANGED <<quota, volumes>>
        /\ old' = [old EXCEPT ![op.name] = dir[op.name]]
        /\ dir' = [dir EXCEPT ![op.name] = NoDir]
    BY <1>5 DEF SetDataAside, memory
  <2>2. DirShape' /\ OldShape'
    BY <1>0, <2>1 DEF ShapeInv, DirShape, OldShape, DiskType
  <2>. QED BY <2>1, <2>2 DEF ShapeInv, VolumeShape, BootShape
<1>6. CASE Acquire
  <2>1. DirShape' /\ VolumeShape'
    BY <1>6, <1>r, AcquiredVolume DEF Acquire
  <2>2. pc' # "boot" /\ UNCHANGED old
    BY <1>6 DEF Acquire, Goto
  <2>. QED BY <2>1, <2>2 DEF ShapeInv, OldShape, BootShape
<1>7. CASE Build
  <2>1. /\ pc' # "boot" /\ UNCHANGED <<dir, quota, volumes>>
        /\ old' = old \/ old' = [old EXCEPT ![op.name] = NoDir]
    BY <1>7 DEF Build, Done, Goto, memory
  <2>2. OldShape'
    BY <1>0, <2>1 DEF ShapeInv, OldShape, DiskType
  <2>. QED BY <2>1, <2>2 DEF ShapeInv, DirShape, VolumeShape, BootShape
<1>8. CASE Undo
  <2>1. DirShape' /\ VolumeShape'
    <3>1. CASE \E ok \in BOOLEAN : PurgeVolume(op.name, ok)
      <4>1. pc # "acquire" /\ op.name \in Names
        BY <1>8, <1>r DEF Undo
      <4>. QED BY <3>1, <4>1, PurgeShape
    <3>2. CASE UNCHANGED <<dir, limits, memory>>
      BY <3>2 DEF ShapeInv, DirShape, VolumeShape, memory
    <3>. QED BY <1>8, <3>1, <3>2 DEF Undo
  <2>2. pc' # "boot" /\ UNCHANGED old
    BY <1>8 DEF Undo, Recovers, Goto
  <2>. QED BY <2>1, <2>2 DEF ShapeInv, OldShape, BootShape
<1>9. CASE RestoreData
  <2>1. op.name \in Names
    BY <1>9, <1>r DEF RestoreData
  <2>2. \/ /\ dir' = [dir EXCEPT ![op.name] = old[op.name]]
           /\ old' = [old EXCEPT ![op.name] = NoDir]
        \/ dir' = dir /\ UNCHANGED old
        \/ dir' = [dir EXCEPT ![op.name] = NoDir] /\ UNCHANGED old
    BY <1>9 DEF RestoreData
  <2>3. DirShape' /\ OldShape'
    BY <1>0, <2>1, <2>2 DEF ShapeInv, DirShape, OldShape, DiskType
  <2>4. pc' # "boot" /\ UNCHANGED <<quota, volumes>>
    BY <1>9 DEF RestoreData, Goto, memory
  <2>. QED BY <2>3, <2>4 DEF ShapeInv, VolumeShape, BootShape
<1>10. CASE Recover
  <2>1. DirShape' /\ VolumeShape'
    BY <1>10, <1>r, AcquiredVolume DEF Recover
  <2>2. pc' # "boot" /\ UNCHANGED old
    BY <1>10 DEF Recover, Done
  <2>. QED BY <2>1, <2>2 DEF ShapeInv, OldShape, BootShape
<1>11. CASE Purge
  <2>1. DirShape' /\ VolumeShape'
    BY <1>11, <1>r, PurgeShape DEF Purge
  <2>2. pc' # "boot" /\ UNCHANGED old
    BY <1>11 DEF Purge, Goto
  <2>. QED BY <2>1, <2>2 DEF ShapeInv, OldShape, BootShape
<1>12. CASE RemoveRequest \/ RemoveBroken \/ RemoveFile
  <2>1. pc' # "boot" /\ UNCHANGED <<dir, old, quota, volumes>>
    BY <1>12 DEF RemoveRequest, RemoveBroken, RemoveFile, Done, disk, memory, request
  <2>. QED BY <2>1 DEF ShapeInv, DirShape, OldShape, VolumeShape, BootShape
<1>. QED BY <1>1, <1>2, <1>3, <1>4, <1>5, <1>6, <1>7, <1>8, <1>9, <1>10, <1>11, <1>12
     DEF Next, Daemon, Install, Remove

LEMMA StoreStep ==
  ASSUME TypeOK, ShapeInv, OpInv, StoreInv, Next PROVE StoreInv'
<1>0. file \in [Names -> Files] /\ store \subseteq Names /\ todo \subseteq Names
  BY DEF TypeOK
<1>r. pc \notin {"boot", "load", "idle"} => op.name \in Names
  BY RequestTypes
<1>1. CASE Start
  <2>1. /\ store = {} /\ UNCHANGED <<store, file>>
        /\ todo' = {n \in Names : file[n].there}
        /\ todo' # {} => pc' = "load"
    BY <1>1 DEF Start, disk, ShapeInv, BootShape
  <2>. QED BY <2>1 DEF StoreInv
<1>2. CASE Load
  <2>1. PICK n \in todo : /\ store' = IF file[n].builds THEN store \cup {n} ELSE store
                          /\ todo' = todo \ {n}
    BY <1>2 DEF Load
  <2>2. UNCHANGED file /\ (todo' # {} => pc' = "load")
    BY <1>2 DEF Load
  <2>. QED BY <2>1, <2>2 DEF StoreInv
<1>3. CASE Crash \/ CrashInGrant \/ CrashInPurge \/ CrashInRestore
  <2>1. store' = {} /\ todo' = {}
    BY <1>3 DEF Crash, CrashInGrant, CrashInPurge, CrashInRestore, Dies
  <2>. QED BY <2>1 DEF StoreInv
<1>4. CASE InstallRequest
  <2>1. /\ pc = "idle" /\ UNCHANGED <<store, todo>>
        /\ \A m \in Names \ {op'.name} : file'[m] = file[m]
        /\ op'.name \in store => op'.orig.there
        /\ file'[op'.name].there \/ file'[op'.name] = op'.orig
    BY <1>4, InstallRequestEffect
  <2>2. todo' = {}
    BY <2>1 DEF StoreInv
  <2>3. \A m \in store' : file'[m].there
    BY <1>0, <2>1 DEF StoreInv
  <2>. QED BY <2>2, <2>3 DEF StoreInv
<1>5. CASE SetDataAside \/ Acquire \/ RestoreData \/ Purge
  <2>1. UNCHANGED <<store, todo, file>> /\ pc # "load"
    BY <1>5 DEF SetDataAside, Acquire, RestoreData, Purge, Goto
  <2>. QED BY <2>1 DEF StoreInv
<1>6. CASE Build \/ Recover
  <2>1. /\ pc \in {"build", "recover"} /\ UNCHANGED <<todo, file>>
        /\ store' \subseteq store \cup {op.name}
    BY <1>6 DEF Build, Recover, Goto, Done
  <2>2. file[op.name].there
    BY <2>1 DEF OpInv
  <2>. QED BY <2>1, <2>2 DEF StoreInv
<1>7. CASE Undo
  <2>1. /\ pc = "undo" /\ UNCHANGED <<store, todo>>
        /\ file' = [file EXCEPT ![op.name] = op.orig]
    BY <1>7 DEF Undo, Recovers, Goto
  <2>2. op.name \in Names /\ (op.name \in store => op.orig.there)
    BY <2>1 DEF OpInv
  <2>3. file'[op.name] = op.orig /\ \A m \in Names \ {op.name} : file'[m] = file[m]
    BY <1>0, <2>1, <2>2
  <2>4. \A m \in store' : file'[m].there
    BY <1>0, <2>1, <2>2, <2>3 DEF StoreInv
  <2>. QED BY <2>1, <2>4 DEF StoreInv
<1>8. CASE RemoveRequest
  <2>1. pc = "idle" /\ store' \subseteq store /\ UNCHANGED <<todo, file>>
    BY <1>8 DEF RemoveRequest, disk
  <2>. QED BY <2>1 DEF StoreInv
<1>9. CASE RemoveBroken
  <2>1. PICK n \in Names \ store : file' = [file EXCEPT ![n] = NoFile]
    BY <1>9 DEF RemoveBroken
  <2>2. pc = "idle" /\ UNCHANGED <<store, todo>>
    BY <1>9 DEF RemoveBroken, request
  <2>3. \A m \in store : file'[m] = file[m]
    BY <1>0, <2>1
  <2>. QED BY <2>2, <2>3 DEF StoreInv
<1>10. CASE RemoveFile
  <2>1. /\ pc = "file" /\ UNCHANGED <<store, todo>>
        /\ file' = [file EXCEPT ![op.name] = NoFile]
    BY <1>10 DEF RemoveFile, Done
  <2>2. op.name \notin store
    BY <2>1 DEF OpInv
  <2>3. \A m \in store : file'[m] = file[m]
    BY <1>0, <2>1, <2>2
  <2>. QED BY <2>1, <2>3 DEF StoreInv
<1>. QED BY <1>1, <1>2, <1>3, <1>4, <1>5, <1>6, <1>7, <1>8, <1>9, <1>10
     DEF Next, Daemon, Install, Remove

\* The volume that is acquired under quota has the directory and the id it is for.
LEMMA AcquiredEntry ==
  ASSUME TypeOK, ShapeInv, NEW n \in Names, NEW limit \in Limits,
         AcquireVolume(n, limit), quota, volumes'[n].kind = "data"
  PROVE  /\ volumes'[n].id = ids'[n] /\ ids'[n] # 0
         /\ volumes'[n].limit = limit /\ limits'[ids'[n]] = limit
         /\ dir'[n].made /\ dir'[n].inherit /\ dir'[n].top = ids'[n]
<1>1. PICK id \in Ids, steps \in 0..5 :
        /\ GrantStep(n, limit, id, steps)
        /\ steps = 5 \/ "grant" \in faults
        /\ ~quota => id = 0
        /\ ids' = IF quota THEN [ids EXCEPT ![n] = id] ELSE ids
        /\ volumes' = [volumes EXCEPT ![n] =
               IF steps = 5 THEN Volume("data", id, IF quota THEN limit ELSE 0)
                            ELSE Volume("bare", 0, 0)]
        /\ UNCHANGED <<quota, oldIds>>
  BY AcquireEffect
<1>2. MemoryType
  BY TypeParts
<1>3. /\ volumes'[n] = IF steps = 5 THEN Volume("data", id, IF quota THEN limit ELSE 0)
                                    ELSE Volume("bare", 0, 0)
      /\ ids'[n] = id
  BY <1>1, <1>2 DEF MemoryType
<1>4. steps = 5
  BY <1>3, VolumeFacts
<1>5. volumes'[n].id = id /\ volumes'[n].limit = limit
  BY <1>3, <1>4, VolumeFacts
<1>6. Leaves(dir[n], id, steps, dir'[n]) /\ limits'[id] = limit
  BY <1>1, <1>4, GrantEffect
<1>7. id # 0
  BY <1>1 DEF GrantStep, OwnId
<1>. QED BY <1>3, <1>4, <1>5, <1>6, <1>7 DEF Leaves

LEMMA AcquireStep ==
  ASSUME TypeOK, ShapeInv, VolumeInv, NEW n \in Names, NEW limit \in Limits,
         AcquireVolume(n, limit), pc \in {"acquire", "recover"} => op.name = n,
         pc \in {"load", "acquire", "recover"}, pc' \notin {"acquire", "restore"}
  PROVE  VolumeInv'
<1>. SUFFICES ASSUME NEW m \in Names, quota', volumes'[m].kind = "data"
              PROVE  /\ volumes'[m].id = ids'[m] /\ ids'[m] # 0
                     /\ dir'[m].made /\ dir'[m].inherit /\ dir'[m].top = ids'[m]
  BY DEF VolumeInv
<1>1. quota
  BY AcquiredVolume
<1>2. CASE m = n
  BY <1>1, <1>2, AcquiredEntry
<1>3. CASE m # n
  <2>1. volumes'[m] = volumes[m] /\ ids'[m] = ids[m] /\ dir'[m] = dir[m]
    BY <1>3, AcquiredVolume
  <2>. QED BY <1>1, <1>3, <2>1 DEF VolumeInv
<1>. QED BY <1>2, <1>3

LEMMA VolumeStep ==
  ASSUME TypeOK, ShapeInv, OpInv, StoreInv, VolumeInv, Next PROVE VolumeInv'
<1>0. DiskType
  BY TypeParts
<1>r. op \in Ops /\ op.new.limit \in Limits /\ op.orig.limit \in Limits
      /\ (pc \notin {"boot", "load", "idle"} => op.name \in Names)
  BY RequestTypes
<1>1. CASE Start
  <2>1. UNCHANGED volumes /\ \A n \in Names : volumes[n] = NoVolume
    BY <1>1 DEF Start, ShapeInv, BootShape
  <2>. QED BY <2>1, VolumeFacts DEF VolumeInv
<1>2. CASE Load
  <2>1. PICK n \in todo : AcquireVolume(n, file[n].limit)
    BY <1>2 DEF Load
  <2>2. n \in Names /\ file[n].limit \in Limits
    BY <1>0, TypeParts DEF RequestType, DiskType, Files
  <2>3. pc = "load" /\ pc' \notin {"acquire", "restore"}
    BY <1>2 DEF Load
  <2>. QED BY <2>1, <2>2, <2>3, AcquireStep
<1>3. CASE Crash \/ CrashInGrant \/ CrashInPurge \/ CrashInRestore
  <2>1. quota' = FALSE
    BY <1>3 DEF Crash, CrashInGrant, CrashInPurge, CrashInRestore, Dies
  <2>. QED BY <2>1 DEF VolumeInv
<1>4. CASE InstallRequest
  <2>1. pc = "idle" /\ pc' # "restore" /\ UNCHANGED <<quota, volumes, ids, dir>>
    BY <1>4, InstallRequestEffect
  <2>. QED BY <2>1 DEF VolumeInv
<1>5. CASE SetDataAside
  <2>1. /\ pc = "aside" /\ pc' = "acquire" /\ UNCHANGED <<quota, volumes, ids>>
        /\ dir' = [dir EXCEPT ![op.name] = NoDir]
        /\ op' = [op EXCEPT !.aside = dir[op.name].made]
    BY <1>5 DEF SetDataAside, memory
  <2>2. op.name \in Names /\ op'.name = op.name
    BY <1>r, <2>1 DEF Ops
  <2>3. dir'[op.name] = NoDir /\ \A m \in Names \ {op.name} : dir'[m] = dir[m]
    BY <1>0, <2>1, <2>2 DEF DiskType
  <2>. QED BY <2>1, <2>2, <2>3 DEF VolumeInv
<1>6. CASE Acquire
  <2>1. pc = "acquire" /\ pc' = "build" /\ AcquireVolume(op.name, op.new.limit)
    BY <1>6 DEF Acquire, Goto
  <2>. QED BY <1>r, <2>1, AcquireStep
<1>7. CASE Build
  <2>1. pc = "build" /\ pc' \notin {"acquire", "restore"} /\ UNCHANGED <<quota, volumes, ids, dir>>
    BY <1>7 DEF Build, Done, Goto, memory
  <2>. QED BY <2>1 DEF VolumeInv
<1>8. CASE Undo
  <2>1. /\ pc = "undo" /\ op' = op
        /\ pc' = "restore" => op.aside
        /\ pc' # "acquire"
    BY <1>8 DEF Undo, Recovers, Goto
  <2>2. CASE \E ok \in BOOLEAN : PurgeVolume(op.name, ok)
    <3>1. /\ UNCHANGED quota
          /\ volumes'[op.name].kind = "none"
          /\ \A m \in Names \ {op.name} : /\ volumes'[m] = volumes[m]
                                          /\ ids'[m] = ids[m]
                                          /\ dir'[m] = dir[m]
      BY <1>r, <2>1, <2>2, PurgeShape
    <3>. QED BY <2>1, <3>1 DEF VolumeInv
  <2>3. CASE ~op.aside /\ UNCHANGED <<dir, limits, memory>>
    BY <2>1, <2>3 DEF VolumeInv, memory
  <2>. QED BY <1>8, <2>2, <2>3 DEF Undo
<1>9. CASE RestoreData
  <2>1. /\ pc = "restore" /\ pc' = "recover" /\ UNCHANGED <<quota, volumes, ids>>
    BY <1>9 DEF RestoreData, Goto, memory
  <2>2. \/ dir' = [dir EXCEPT ![op.name] = old[op.name]]
        \/ dir' = dir
        \/ dir' = [dir EXCEPT ![op.name] = NoDir]
    BY <1>9 DEF RestoreData
  <2>3. \A m \in Names \ {op.name} : dir'[m] = dir[m]
    BY <1>0, <2>2 DEF DiskType
  <2>4. quota => \A m \in Names : volumes[m].kind = "data" => op.name # m
    BY <2>1 DEF VolumeInv
  <2>. QED BY <2>1, <2>3, <2>4 DEF VolumeInv
<1>10. CASE Recover
  <2>1. pc = "recover" /\ pc' = "idle" /\ AcquireVolume(op.name, op.orig.limit)
    BY <1>10 DEF Recover, Done
  <2>. QED BY <1>r, <2>1, AcquireStep
<1>11. CASE Purge
  <2>1. /\ pc = "purge" /\ pc' \notin {"acquire", "restore"}
        /\ \E ok \in BOOLEAN : PurgeVolume(op.name, ok)
    BY <1>11 DEF Purge, Goto
  <2>2. /\ UNCHANGED quota
        /\ volumes'[op.name].kind = "none"
        /\ \A m \in Names \ {op.name} : /\ volumes'[m] = volumes[m]
                                        /\ ids'[m] = ids[m]
                                        /\ dir'[m] = dir[m]
    BY <1>r, <2>1, PurgeShape
  <2>. QED BY <2>1, <2>2 DEF VolumeInv
<1>12. CASE RemoveRequest \/ RemoveBroken \/ RemoveFile
  <2>1. /\ pc \in {"idle", "file"} /\ pc' \notin {"acquire", "restore"}
        /\ UNCHANGED <<quota, volumes, ids, dir>>
    BY <1>12 DEF RemoveRequest, RemoveBroken, RemoveFile, Done, disk, memory, request
  <2>. QED BY <2>1 DEF VolumeInv
<1>. QED BY <1>1, <1>2, <1>3, <1>4, <1>5, <1>6, <1>7, <1>8, <1>9, <1>10, <1>11, <1>12
     DEF Next, Daemon, Install, Remove

LEMMA LoadStep ==
  ASSUME TypeOK, ShapeInv, OpInv, LoadInv, Next PROVE LoadInv'
<1>0. DiskType /\ RequestType
  BY TypeParts
<1>. SUFFICES ASSUME "scan" \notin faults', pc' = "load", quota'
              PROVE  \A n \in todo' : ids'[n] = ActiveId(dir'[n])
  BY DEF LoadInv
<1>1. CASE Start
  <2>1. UNCHANGED <<dir, faults>> /\ todo' \subseteq Names
    BY <1>1 DEF Start, disk
  <2>2. Outcomes("scan") = {TRUE}
    BY <2>1 DEF Outcomes
  <2>3. PICK on \in Outcomes("quota") :
          /\ quota' = on
          /\ \E read \in [Names -> Outcomes("scan")] :
                ids' = [n \in Names |-> IF on /\ read[n] THEN ActiveId(dir[n]) ELSE 0]
    BY <1>1 DEF Start
  <2>4. PICK read \in [Names -> Outcomes("scan")] :
          ids' = [n \in Names |-> IF on /\ read[n] THEN ActiveId(dir[n]) ELSE 0]
    BY <2>3
  <2>5. \A n \in Names : read[n]
    BY <2>2
  <2>. QED BY <2>1, <2>3, <2>4, <2>5 DEF ActiveId
<1>2. CASE Load
  <2>1. PICK n \in todo : AcquireVolume(n, file[n].limit) /\ todo' = todo \ {n}
    BY <1>2 DEF Load
  <2>2. n \in Names /\ file[n].limit \in Limits /\ todo \subseteq Names
    BY <1>0 DEF RequestType, DiskType, Files
  <2>3. /\ UNCHANGED quota
        /\ \A m \in Names \ {n} : ids'[m] = ids[m] /\ dir'[m] = dir[m]
    BY <2>1, <2>2, AcquiredVolume
  <2>4. pc = "load" /\ UNCHANGED faults
    BY <1>2 DEF Load
  <2>. QED BY <2>1, <2>2, <2>3, <2>4 DEF LoadInv, ActiveId
<1>3. CASE Crash \/ CrashInGrant \/ CrashInPurge \/ CrashInRestore
  BY <1>3 DEF Crash, CrashInGrant, CrashInPurge, CrashInRestore, Dies
<1>4. CASE Install \/ Remove
  BY <1>4 DEF Install, Remove, InstallRequest, SetDataAside, Acquire, Build, Undo, Recovers,
              RestoreData, Recover, RemoveRequest, RemoveBroken, Purge, RemoveFile,
              Goto, Done, request
<1>. QED BY <1>1, <1>2, <1>3, <1>4 DEF Next, Daemon

-----------------------------------------------------------------------------
(* Projects *)

LEMMA FaultsStay == ASSUME Next PROVE UNCHANGED faults
BY DEF Next, Daemon, Install, Remove, Start, Load, Crash, CrashInGrant, CrashInPurge,
       CrashInRestore, Dies, InstallRequest, SetDataAside, Acquire, Build, Undo, RestoreData,
       Recover, RemoveRequest, RemoveBroken, Purge, RemoveFile

LEMMA NoProject == ActiveId(NoDir) = 0 /\ NoDir.top = 0
BY DirTypes DEF ActiveId

\* A directory has after a grant, cut off or not, the project it had or the one
\* granted, which no other has.
LEMMA GrantKeepsOwn ==
  ASSUME TypeOK, ShapeInv, MarkInv, OwnInv, TrackInv,
         pc \in {"load", "acquire", "recover"},
         NEW n \in Names, pc \in {"acquire", "recover"} => op.name = n,
         NEW limit \in Limits, NEW id, NEW steps, GrantStep(n, limit, id, steps)
  PROVE  /\ MarkInv' /\ OwnInv'
         /\ \A m \in Names \ {n} : dir'[m] = dir[m]
         /\ ActiveId(dir'[n]) \in {0, ActiveId(dir[n])} \/ (quota /\ steps >= 3 /\ ActiveId(dir'[n]) = id)
<1>1. /\ Leaves(dir[n], id, steps, dir'[n])
      /\ \A m \in Names \ {n} : dir'[m] = dir[m]
      /\ id \in Ids /\ steps \in 0..5
      /\ quota => OwnId(n, id)
  BY GrantEffect DEF GrantStep
<1>2. dir[n].top # 0 => dir[n].made /\ dir[n].inherit
  BY NoProject DEF MarkInv, ShapeInv, DirShape
<1>3. ActiveId(dir'[n]) \in {0, ActiveId(dir[n])} \/ (quota /\ steps >= 3 /\ ActiveId(dir'[n]) = id)
  <2>1. CASE dir'[n].top = dir[n].top
    BY <1>2, <2>1 DEF ActiveId
  <2>2. CASE dir'[n].top # dir[n].top
    BY <1>1, <2>2 DEF ActiveId, Leaves
  <2>. QED BY <2>1, <2>2
<1>4. quota => \A m \in Names \ {n} : ActiveId(dir[m]) # 0 => ActiveId(dir[m]) # id
  <2>. SUFFICES ASSUME quota, NEW m \in Names \ {n}, ActiveId(dir[m]) # 0
                PROVE  ActiveId(dir[m]) # id
    OBVIOUS
  <2>1. ids[m] = ActiveId(dir[m])
    BY DEF TrackInv, Known
  <2>2. ids[m] # id
    BY <1>1, <2>1 DEF TrackInv, OwnId
  <2>. QED BY <2>1, <2>2
<1>5. OwnInv'
  <2>. SUFFICES ASSUME NEW j \in Names, NEW k \in Names, j # k,
                       ActiveId(dir'[k]) # 0, ActiveId(dir'[j]) = ActiveId(dir'[k])
                PROVE  FALSE
    BY DEF OwnInv, ActiveId
  <2>1. CASE j # n /\ k # n
    BY <1>1, <2>1 DEF OwnInv
  <2>2. CASE j = n
    BY <1>1, <1>3, <1>4, <2>2 DEF OwnInv
  <2>3. CASE k = n
    BY <1>1, <1>3, <1>4, <2>3 DEF OwnInv
  <2>. QED BY <2>1, <2>2, <2>3
<1>6. MarkInv'
  BY <1>1 DEF MarkInv, Leaves
<1>. QED BY <1>1, <1>3, <1>5, <1>6

\* An acquired volume keeps what the daemon knows of the directories.
LEMMA AcquireKeepsTrack ==
  ASSUME TypeOK, ShapeInv, KeepsTrack, MarkInv, OwnInv, TrackInv,
         pc \in {"load", "acquire", "recover"}, pc' # "recover",
         NEW n \in Names, pc \in {"acquire", "recover"} => op.name = n,
         NEW limit \in Limits, AcquireVolume(n, limit)
  PROVE  /\ MarkInv' /\ OwnInv' /\ TrackInv'
         /\ \A m \in Names \ {n} : dir'[m] = dir[m]
<1>1. PICK id \in Ids, steps \in 0..5 :
        /\ GrantStep(n, limit, id, steps)
        /\ steps = 5 \/ "grant" \in faults
        /\ ~quota => id = 0
        /\ ids' = IF quota THEN [ids EXCEPT ![n] = id] ELSE ids
        /\ volumes' = [volumes EXCEPT ![n] =
               IF steps = 5 THEN Volume("data", id, IF quota THEN limit ELSE 0)
                            ELSE Volume("bare", 0, 0)]
        /\ UNCHANGED <<quota, oldIds>>
  BY AcquireEffect
<1>2. /\ MarkInv' /\ OwnInv'
      /\ \A m \in Names \ {n} : dir'[m] = dir[m]
      /\ ActiveId(dir'[n]) \in {0, ActiveId(dir[n])} \/ (quota /\ steps >= 3 /\ ActiveId(dir'[n]) = id)
  BY <1>1, GrantKeepsOwn
<1>3. TrackInv'
  <2>. SUFFICES ASSUME quota
                PROVE  /\ \A j, k \in Names : j # k /\ ids'[k] # 0 => ids'[j] # ids'[k]
                       /\ \A k \in Names : ActiveId(dir'[k]) # 0 => ids'[k] = ActiveId(dir'[k])
    BY <1>1 DEF TrackInv, Known, ActiveId
  <2>1. ids'[n] = id /\ \A m \in Names \ {n} : ids'[m] = ids[m]
    BY <1>1, TypeParts DEF MemoryType
  <2>2. OwnId(n, id)
    BY <1>1 DEF GrantStep
  <2>3. \A j, k \in Names : j # k /\ ids'[k] # 0 => ids'[j] # ids'[k]
    BY <2>1, <2>2 DEF TrackInv, OwnId
  <2>4. \A m \in Names \ {n} : ActiveId(dir'[m]) # 0 => ids'[m] = ActiveId(dir'[m])
    BY <1>2, <2>1 DEF TrackInv, Known
  <2>5. ActiveId(dir'[n]) # 0 => ids'[n] = ActiveId(dir'[n])
    <3>1. CASE steps >= 3
      <4>1. Leaves(dir[n], id, steps, dir'[n])
        BY <1>1, GrantEffect
      <4>. QED BY <2>1, <3>1, <4>1 DEF Leaves, ActiveId
    <3>2. CASE ~(steps >= 3)
      <4>1. "grant" \in faults
        BY <1>1, <3>2
      <4>2. "build" \notin faults
        BY <4>1 DEF KeepsTrack
      <4>3. ActiveId(dir[n]) # 0 => ids[n] = ActiveId(dir[n])
        BY <4>2 DEF TrackInv, Known
      <4>4. ActiveId(dir'[n]) \in {0, ActiveId(dir[n])}
        BY <1>2, <3>2
      <4>. QED BY <2>1, <2>2, <4>3, <4>4 DEF OwnId
    <3>. QED BY <3>1, <3>2
  <2>. QED BY <2>3, <2>4, <2>5
<1>. QED BY <1>2, <1>3

\* A purged volume takes the id with the project of its directory.
LEMMA PurgeKeepsTrack ==
  ASSUME TypeOK, ShapeInv, VolumeInv, KeepsTrack, MarkInv, OwnInv, TrackInv,
         pc \in {"undo", "purge"}, NEW n \in Names, NEW ok \in BOOLEAN, PurgeVolume(n, ok)
  PROVE  /\ MarkInv' /\ OwnInv' /\ TrackInv'
         /\ \A m \in Names \ {n} : dir'[m] = dir[m]
<1>1. /\ UNCHANGED quota
      /\ \A m \in Names \ {n} : dir'[m] = dir[m]
      /\ \/ UNCHANGED <<ids, dir>>
         \/ /\ ids' = [ids EXCEPT ![n] = 0]
            /\ dir'[n] = NoDir \/ "remove" \in faults
            /\ "clear" \notin faults =>
                   \/ dir'[n].inherit = FALSE /\ dir'[n].top = 0
                   \/ dir'[n] = dir[n] /\ ~quota
  BY PurgeEffect
<1>2. "remove" \in faults => "clear" \notin faults
  BY DEF KeepsTrack
<1>3. CASE UNCHANGED <<ids, dir>>
  BY <1>1, <1>3 DEF MarkInv, OwnInv, TrackInv, Known
<1>4. CASE /\ ids' = [ids EXCEPT ![n] = 0]
           /\ \/ dir'[n] = NoDir
              \/ dir'[n].inherit = FALSE /\ dir'[n].top = 0
              \/ dir'[n] = dir[n] /\ ~quota
  <2>1. ids'[n] = 0 /\ \A m \in Names \ {n} : ids'[m] = ids[m]
    BY <1>4, QuotaConstantsOK, TypeParts DEF MemoryType, Ids
  <2>2. /\ ActiveId(dir'[n]) = 0 \/ (dir'[n] = dir[n] /\ ~quota)
        /\ dir'[n].top = 0 \/ dir'[n] = dir[n]
    BY <1>4, NoProject DEF ActiveId
  <2>3. MarkInv'
    BY <1>1, <2>2 DEF MarkInv
  <2>4. ActiveId(dir'[n]) \in {0, ActiveId(dir[n])}
    BY <2>2
  <2>5. OwnInv'
    <3>. SUFFICES ASSUME NEW j \in Names, NEW k \in Names, j # k,
                         ActiveId(dir'[k]) # 0, ActiveId(dir'[j]) = ActiveId(dir'[k])
                  PROVE  FALSE
      BY DEF OwnInv, ActiveId
    <3>. QED BY <1>1, <2>4 DEF OwnInv
  <2>6. TrackInv'
    <3>. SUFFICES ASSUME quota
                  PROVE  /\ \A j, k \in Names : j # k /\ ids'[k] # 0 => ids'[j] # ids'[k]
                         /\ \A k \in Names : ActiveId(dir'[k]) # 0 => ids'[k] = ActiveId(dir'[k])
      BY <1>1 DEF TrackInv, Known, ActiveId
    <3>1. \A j, k \in Names : j # k /\ ids'[k] # 0 => ids'[j] # ids'[k]
      BY <2>1 DEF TrackInv
    <3>2. \A k \in Names : ActiveId(dir'[k]) # 0 => ids'[k] = ActiveId(dir'[k])
      BY <1>1, <2>1, <2>2 DEF TrackInv, Known
    <3>. QED BY <3>1, <3>2
  <2>. QED BY <1>1, <2>3, <2>5, <2>6
<1>. QED BY <1>1, <1>2, <1>3, <1>4

\* What the daemon knows of the directories, and what is on them, at each step.
LEMMA TrackStep ==
  ASSUME TypeOK, ShapeInv, OpInv, StoreInv, VolumeInv, KeepsTrack, DiskInv, TrackInv, Next
  PROVE  DiskInv' /\ TrackInv'
<1>0. DiskType
  BY TypeParts
<1>r. op \in Ops /\ op.new.limit \in Limits /\ op.orig.limit \in Limits
      /\ (pc \notin {"boot", "load", "idle"} => op.name \in Names)
  BY RequestTypes
<1>f. UNCHANGED faults
  BY FaultsStay
<1>1. CASE Start
  <2>1. UNCHANGED <<dir, old, op>> /\ pc' \in {"idle", "load"}
    BY <1>1 DEF Start, disk
  <2>2. DiskInv'
    BY <2>1 DEF DiskInv, MarkInv, OwnInv, AsideInv, Aside
  <2>3. Outcomes("scan") = {TRUE}
    BY DEF Outcomes, KeepsTrack
  <2>4. PICK on \in Outcomes("quota") :
          /\ quota' = on
          /\ \E read \in [Names -> Outcomes("scan")] :
                ids' = [n \in Names |-> IF on /\ read[n] THEN ActiveId(dir[n]) ELSE 0]
    BY <1>1 DEF Start
  <2>5. quota' => \A n \in Names : ids'[n] = ActiveId(dir'[n])
    BY <2>1, <2>3, <2>4 DEF ActiveId
  <2>6. OwnInv'
    BY <2>2 DEF DiskInv
  <2>7. TrackInv'
    BY <2>5, <2>6 DEF TrackInv, OwnInv, Known, ActiveId
  <2>. QED BY <2>2, <2>7
<1>2. CASE Load
  <2>1. PICK n \in todo : AcquireVolume(n, file[n].limit)
    BY <1>2 DEF Load
  <2>2. n \in Names /\ file[n].limit \in Limits
    BY <1>0, TypeParts DEF RequestType, DiskType, Files
  <2>3. pc = "load" /\ pc' \in {"load", "idle"}
    BY <1>2 DEF Load
  <2>4. MarkInv' /\ OwnInv' /\ TrackInv'
    BY <2>1, <2>2, <2>3, AcquireKeepsTrack DEF DiskInv
  <2>5. AsideInv'
    BY <2>3 DEF AsideInv, Aside
  <2>. QED BY <2>4, <2>5 DEF DiskInv
<1>3. CASE Crash \/ CrashInGrant \/ CrashInPurge \/ CrashInRestore
  <2>1. pc' = "boot"
    BY <1>3 DEF Crash, CrashInGrant, CrashInPurge, CrashInRestore, Dies
  <2>2. MarkInv' /\ OwnInv'
    <3>1. CASE Crash
      BY <3>1 DEF Crash, disk, DiskInv, MarkInv, OwnInv
    <3>2. CASE CrashInGrant
      <4>1. PICK n \in Names, limit \in Limits, id \in Ids, steps \in 1..5 :
              /\ \/ pc = "load" /\ n \in todo
                 \/ pc \in {"acquire", "recover"} /\ n = op.name
              /\ GrantStep(n, limit, id, steps)
        BY <3>2, CrashInGrantEffect
      <4>. QED BY <4>1, GrantKeepsOwn DEF DiskInv
    <3>3. CASE CrashInPurge
      BY <3>3 DEF CrashInPurge, KeepsTrack
    <3>4. CASE CrashInRestore
      <4>1. dir' = [dir EXCEPT ![op.name] = NoDir] /\ op.name \in Names
        BY <1>r, <3>4 DEF CrashInRestore
      <4>2. dir'[op.name] = NoDir /\ \A m \in Names \ {op.name} : dir'[m] = dir[m]
        BY <1>0, <4>1 DEF DiskType
      <4>. QED BY <4>2, NoProject DEF DiskInv, MarkInv, OwnInv
    <3>. QED BY <1>3, <3>1, <3>2, <3>3, <3>4
  <2>3. AsideInv' /\ TrackInv'
    BY <2>1 DEF AsideInv, Aside, TrackInv
  <2>. QED BY <2>2, <2>3 DEF DiskInv
<1>4. CASE InstallRequest
  <2>1. pc = "idle" /\ ~op'.aside /\ UNCHANGED <<dir, old, quota, ids>>
    BY <1>4, InstallRequestEffect
  <2>2. DiskInv'
    BY <2>1 DEF DiskInv, MarkInv, OwnInv, AsideInv, Aside
  <2>3. TrackInv'
    BY <2>1 DEF TrackInv, Known
  <2>. QED BY <2>2, <2>3
<1>5. CASE SetDataAside
  <2>1. /\ pc = "aside" /\ pc' = "acquire" /\ UNCHANGED <<quota, ids>>
        /\ old' = [old EXCEPT ![op.name] = dir[op.name]]
        /\ dir' = [dir EXCEPT ![op.name] = NoDir]
        /\ op' = [op EXCEPT !.aside = dir[op.name].made]
        /\ op.name \in Names
    BY <1>5, <1>r DEF SetDataAside, memory
  <2>2. op'.name = op.name
    BY <1>r, <2>1 DEF Ops
  <2>3. /\ dir'[op.name] = NoDir /\ \A m \in Names \ {op.name} : dir'[m] = dir[m]
        /\ old'[op.name] = dir[op.name]
    BY <1>0, <2>1 DEF DiskType
  <2>4. MarkInv' /\ OwnInv'
    BY <2>3, NoProject DEF DiskInv, MarkInv, OwnInv
  <2>5. AsideInv'
    BY <2>2, <2>3 DEF DiskInv, MarkInv, OwnInv, AsideInv, Aside
  <2>6. TrackInv'
    BY <2>1, <2>3, NoProject DEF TrackInv, Known
  <2>. QED BY <2>4, <2>5, <2>6 DEF DiskInv
<1>6. CASE Acquire
  <2>1. /\ pc = "acquire" /\ pc' = "build" /\ AcquireVolume(op.name, op.new.limit)
        /\ UNCHANGED <<old, op>>
    BY <1>6 DEF Acquire, Goto
  <2>2. /\ MarkInv' /\ OwnInv' /\ TrackInv'
        /\ \A m \in Names \ {op.name} : dir'[m] = dir[m]
    BY <1>r, <2>1, AcquireKeepsTrack DEF DiskInv
  <2>3. AsideInv'
    BY <2>1, <2>2 DEF DiskInv, AsideInv, Aside
  <2>. QED BY <2>2, <2>3 DEF DiskInv
<1>7. CASE Build
  <2>1. /\ pc = "build" /\ UNCHANGED <<dir, quota, ids>>
        /\ pc' = "idle" \/ (pc' = "undo" /\ UNCHANGED <<op, old>>)
    BY <1>7 DEF Build, Done, Goto, memory
  <2>2. DiskInv'
    BY <2>1 DEF DiskInv, MarkInv, OwnInv, AsideInv, Aside
  <2>3. TrackInv'
    BY <2>1 DEF TrackInv, Known
  <2>. QED BY <2>2, <2>3
<1>8. CASE Undo
  <2>1. /\ pc = "undo" /\ UNCHANGED <<op, old>> /\ pc' \in {"restore", "recover", "idle"}
    BY <1>8 DEF Undo, Recovers, Goto
  <2>2. /\ MarkInv' /\ OwnInv' /\ TrackInv'
        /\ \A m \in Names \ {op.name} : dir'[m] = dir[m]
    <3>1. CASE \E ok \in BOOLEAN : PurgeVolume(op.name, ok)
      BY <1>r, <2>1, <3>1, PurgeKeepsTrack DEF DiskInv
    <3>2. CASE UNCHANGED <<dir, limits, memory>>
      BY <2>1, <3>2 DEF DiskInv, MarkInv, OwnInv, TrackInv, Known, memory
    <3>. QED BY <1>8, <3>1, <3>2 DEF Undo
  <2>3. AsideInv'
    BY <2>1, <2>2 DEF DiskInv, AsideInv, Aside
  <2>. QED BY <2>2, <2>3 DEF DiskInv
<1>9. CASE RestoreData
  <2>1. /\ pc = "restore" /\ pc' = "recover" /\ UNCHANGED <<quota, ids, op>>
        /\ op.name \in Names /\ op.aside /\ "build" \in faults
    BY <1>9, <1>r DEF RestoreData, Goto, memory, OpInv
  <2>2. /\ \A m \in Names \ {op.name} : dir'[m] = dir[m]
        /\ dir'[op.name] \in {old[op.name], dir[op.name], NoDir}
    BY <1>0, <1>9, <2>1 DEF RestoreData, DiskType
  <2>3. Aside(op.name)
    BY <2>1 DEF Aside
  <2>4. MarkInv'
    BY <2>2, <2>3, NoProject DEF DiskInv, MarkInv, AsideInv
  <2>5. OwnInv'
    BY <2>2, <2>3, NoProject DEF DiskInv, OwnInv, AsideInv
  <2>6. AsideInv'
    BY <2>1 DEF AsideInv, Aside
  <2>7. TrackInv'
    BY <1>f, <2>1, <2>2 DEF TrackInv, Known
  <2>. QED BY <2>4, <2>5, <2>6, <2>7 DEF DiskInv
<1>10. CASE Recover
  <2>1. pc = "recover" /\ pc' = "idle" /\ AcquireVolume(op.name, op.orig.limit)
    BY <1>10 DEF Recover, Done
  <2>2. MarkInv' /\ OwnInv' /\ TrackInv'
    BY <1>r, <2>1, AcquireKeepsTrack DEF DiskInv
  <2>3. AsideInv'
    BY <2>1 DEF AsideInv, Aside
  <2>. QED BY <2>2, <2>3 DEF DiskInv
<1>11. CASE Purge
  <2>1. /\ pc = "purge" /\ pc' \in {"file", "recover"}
        /\ \E ok \in BOOLEAN : PurgeVolume(op.name, ok)
    BY <1>11 DEF Purge, Goto
  <2>2. MarkInv' /\ OwnInv' /\ TrackInv'
    BY <1>r, <2>1, PurgeKeepsTrack DEF DiskInv
  <2>3. AsideInv'
    BY <2>1 DEF AsideInv, Aside
  <2>. QED BY <2>2, <2>3 DEF DiskInv
<1>12. CASE RemoveRequest \/ RemoveBroken \/ RemoveFile
  <2>1. /\ pc \in {"idle", "file"} /\ pc' \in {"idle", "purge"}
        /\ UNCHANGED <<dir, quota, ids>>
    BY <1>12 DEF RemoveRequest, RemoveBroken, RemoveFile, Done, disk, memory, request
  <2>2. DiskInv'
    BY <2>1 DEF DiskInv, MarkInv, OwnInv, AsideInv, Aside
  <2>3. TrackInv'
    BY <2>1 DEF TrackInv, Known
  <2>. QED BY <2>2, <2>3
<1>. QED BY <1>1, <1>2, <1>3, <1>4, <1>5, <1>6, <1>7, <1>8, <1>9, <1>10, <1>11, <1>12
     DEF Next, Daemon, Install, Remove

-----------------------------------------------------------------------------
(* Limits *)

\* The limit of each volume is on its project, as LimitInv says.
OnDisk == \A n \in Names : volumes[n].kind = "data" => limits[ids[n]] = volumes[n].limit

LEMMA AcquireLimits ==
  ASSUME TypeOK, ShapeInv, VolumeInv, KeepsTrack, DiskInv, TrackInv, LimitInv,
         pc \in {"load", "acquire", "recover"}, pc' # "recover", pc' # "boot", quota,
         NEW n \in Names, pc \in {"acquire", "recover"} => op.name = n,
         NEW limit \in Limits, AcquireVolume(n, limit)
  PROVE  /\ OnDisk'
         /\ volumes'[n].kind = "data" => volumes'[n].limit = limit
         /\ \A m \in Names \ {n} : volumes'[m] = volumes[m]
<1>1. PICK id \in Ids, steps \in 0..5 :
        /\ GrantStep(n, limit, id, steps)
        /\ steps = 5 \/ "grant" \in faults
        /\ ~quota => id = 0
        /\ ids' = IF quota THEN [ids EXCEPT ![n] = id] ELSE ids
        /\ volumes' = [volumes EXCEPT ![n] =
               IF steps = 5 THEN Volume("data", id, IF quota THEN limit ELSE 0)
                            ELSE Volume("bare", 0, 0)]
        /\ UNCHANGED <<quota, oldIds>>
  BY AcquireEffect
<1>2. \A m \in Names \ {n} : volumes'[m] = volumes[m] /\ ids'[m] = ids[m]
  BY AcquiredVolume
<1>3. ids'[n] = id /\ ids \in [Names -> Ids]
  BY <1>1, TypeParts DEF MemoryType
<1>4. TrackInv' /\ quota'
  BY <1>1, AcquireKeepsTrack DEF DiskInv
<1>5. \A i \in Ids : i # id => limits'[i] = limits[i]
  BY <1>1, GrantEffect
<1>6. volumes'[n].kind = "data" =>
        volumes'[n].limit = limit /\ limits'[ids'[n]] = volumes'[n].limit
  BY AcquiredEntry
<1>7. \A m \in Names \ {n} : volumes[m].kind = "data" => limits'[ids'[m]] = volumes'[m].limit
  <2>. SUFFICES ASSUME NEW m \in Names \ {n}, volumes[m].kind = "data"
                PROVE  limits'[ids'[m]] = volumes'[m].limit
    OBVIOUS
  <2>1. ids[m] # 0 /\ limits[ids[m]] = volumes[m].limit
    BY DEF VolumeInv, LimitInv
  <2>2. ids[m] # id
    BY <1>2, <1>3, <1>4, <2>1 DEF TrackInv
  <2>. QED BY <1>2, <1>3, <1>5, <2>1, <2>2
<1>. QED BY <1>2, <1>6, <1>7 DEF OnDisk

LEMMA PurgeLimits ==
  ASSUME TypeOK, ShapeInv, VolumeInv, TrackInv, LimitInv, quota,
         pc \in {"undo", "purge"}, NEW n \in Names, NEW ok \in BOOLEAN, PurgeVolume(n, ok)
  PROVE  OnDisk' /\ \A m \in Names \ {n} : volumes'[m] = volumes[m]
<1>1. /\ volumes'[n].kind = "none"
      /\ \A m \in Names \ {n} : volumes'[m] = volumes[m] /\ ids'[m] = ids[m]
  BY PurgeShape
<1>2. \/ UNCHANGED limits
      \/ /\ volumes[n].kind = "data"
         /\ \A i \in Ids : i # volumes[n].id => limits'[i] = limits[i]
  BY PurgeEffect
<1>3. ids \in [Names -> Ids]
  BY TypeParts DEF MemoryType
<1>4. \A m \in Names \ {n} : volumes[m].kind = "data" => limits'[ids'[m]] = volumes'[m].limit
  <2>. SUFFICES ASSUME NEW m \in Names \ {n}, volumes[m].kind = "data"
                PROVE  limits'[ids'[m]] = volumes'[m].limit
    OBVIOUS
  <2>1. ids[m] # 0 /\ limits[ids[m]] = volumes[m].limit
    BY DEF VolumeInv, LimitInv
  <2>2. volumes[n].kind = "data" => ids[m] # volumes[n].id
    BY <2>1 DEF VolumeInv, TrackInv
  <2>. QED BY <1>1, <1>2, <1>3, <2>1, <2>2
<1>. QED BY <1>1, <1>4 DEF OnDisk

LEMMA LimitStep ==
  ASSUME TypeOK, ShapeInv, OpInv, StoreInv, VolumeInv, KeepsTrack, DiskInv, TrackInv, LimitInv,
         Next
  PROVE  LimitInv'
<1>0. DiskType
  BY TypeParts
<1>r. op \in Ops /\ op.new.limit \in Limits /\ op.orig.limit \in Limits
      /\ (pc \notin {"boot", "load", "idle"} => op.name \in Names)
  BY RequestTypes
<1>1. CASE Start
  <2>1. \A n \in Names : volumes'[n] = NoVolume
    BY <1>1 DEF Start, ShapeInv, BootShape
  <2>. QED BY <2>1, VolumeFacts DEF LimitInv
<1>2. CASE Crash \/ CrashInGrant \/ CrashInPurge \/ CrashInRestore
  BY <1>2 DEF Crash, CrashInGrant, CrashInPurge, CrashInRestore, Dies, LimitInv
<1>. SUFFICES ASSUME quota, quota', Load \/ Install \/ Remove
              PROVE  \A n \in Names : volumes'[n].kind = "data" =>
                         /\ limits'[ids'[n]] = volumes'[n].limit
                         /\ Current(n)' => volumes'[n].limit = file'[n].limit
  <2>1. Load \/ Install \/ Remove => UNCHANGED quota
    BY DEF Load, Install, Remove, InstallRequest, SetDataAside, Acquire, Build, Undo,
           RestoreData, Recover, RemoveRequest, RemoveBroken, Purge, RemoveFile,
           AcquireVolume, PurgeVolume, memory
  <2>. QED BY <1>1, <1>2, <2>1 DEF LimitInv, Next, Daemon
<1>3. CASE Load
  <2>1. PICK n \in todo : AcquireVolume(n, file[n].limit)
            /\ store' = IF file[n].builds THEN store \cup {n} ELSE store
    BY <1>3 DEF Load
  <2>2. n \in Names /\ file[n].limit \in Limits
    BY <1>0, TypeParts DEF RequestType, DiskType, Files
  <2>3. pc = "load" /\ pc' \in {"load", "idle"} /\ UNCHANGED file
    BY <1>3 DEF Load
  <2>4. /\ OnDisk'
        /\ volumes'[n].kind = "data" => volumes'[n].limit = file[n].limit
        /\ \A m \in Names \ {n} : volumes'[m] = volumes[m]
    BY <2>1, <2>2, <2>3, AcquireLimits
  <2>. QED BY <2>1, <2>3, <2>4 DEF OnDisk, LimitInv, Current
<1>4. CASE InstallRequest
  <2>1. /\ pc = "idle" /\ UNCHANGED <<limits, ids, volumes, store>>
        /\ \A m \in Names \ {op'.name} : file'[m] = file[m]
        /\ pc' \in {"aside", "acquire", "recover"} \/ (pc' = "idle" /\ op'.name \notin store)
    BY <1>4, InstallRequestEffect
  <2>. QED BY <2>1 DEF LimitInv, Current
<1>5. CASE SetDataAside
  <2>1. /\ pc = "aside" /\ pc' = "acquire" /\ UNCHANGED <<limits, ids, volumes, store, file>>
        /\ op' = [op EXCEPT !.aside = dir[op.name].made]
    BY <1>5 DEF SetDataAside, memory
  <2>2. op'.name = op.name
    BY <1>r, <2>1 DEF Ops
  <2>. QED BY <2>1, <2>2 DEF LimitInv, Current
<1>6. CASE Acquire
  <2>1. /\ pc = "acquire" /\ pc' = "build" /\ AcquireVolume(op.name, op.new.limit)
        /\ UNCHANGED <<op, store, file>>
    BY <1>6 DEF Acquire, Goto
  <2>2. file[op.name].limit = op.new.limit
    BY <2>1 DEF OpInv
  <2>3. /\ OnDisk'
        /\ volumes'[op.name].kind = "data" => volumes'[op.name].limit = op.new.limit
        /\ \A m \in Names \ {op.name} : volumes'[m] = volumes[m]
    BY <1>r, <2>1, AcquireLimits
  <2>. QED BY <2>1, <2>2, <2>3 DEF OnDisk, LimitInv, Current
<1>7. CASE Build
  <2>1. /\ pc = "build" /\ UNCHANGED <<limits, ids, volumes, file>>
        /\ \/ pc' = "idle" /\ store' = store \cup {op.name}
           \/ pc' = "undo" /\ UNCHANGED <<store, op>>
    BY <1>7 DEF Build, Done, Goto, memory
  <2>. QED BY <2>1 DEF LimitInv, Current
<1>8. CASE Undo
  <2>1. /\ pc = "undo" /\ UNCHANGED <<op, store>>
        /\ pc' \in {"restore", "recover"} \/ (pc' = "idle" /\ ~op.orig.there /\ ~op.aside)
        /\ file' = [file EXCEPT ![op.name] = op.orig]
    BY <1>8 DEF Undo, Recovers, Goto
  <2>2. \A m \in Names \ {op.name} : file'[m] = file[m]
    BY <1>0, <2>1 DEF DiskType
  <2>3. OnDisk' /\ \A m \in Names \ {op.name} : volumes'[m] = volumes[m]
    <3>1. CASE \E ok \in BOOLEAN : PurgeVolume(op.name, ok)
      BY <1>r, <2>1, <3>1, PurgeLimits
    <3>2. CASE UNCHANGED <<dir, limits, memory>>
      BY <3>2 DEF OnDisk, LimitInv, memory
    <3>. QED BY <1>8, <3>1, <3>2 DEF Undo
  <2>4. ~Current(op.name)'
    BY <2>1 DEF Current, OpInv
  <2>. QED BY <2>1, <2>2, <2>3, <2>4 DEF OnDisk, LimitInv, Current
<1>9. CASE RestoreData
  <2>1. /\ pc = "restore" /\ pc' = "recover"
        /\ UNCHANGED <<limits, ids, volumes, store, file, op>>
    BY <1>9 DEF RestoreData, Goto, memory
  <2>. QED BY <2>1 DEF LimitInv, Current
<1>10. CASE Recover
  <2>1. /\ pc = "recover" /\ pc' = "idle" /\ AcquireVolume(op.name, op.orig.limit)
        /\ store' = store \cup {op.name} /\ UNCHANGED file
    BY <1>10 DEF Recover, Done
  <2>2. file[op.name].limit = op.orig.limit
    BY <2>1 DEF OpInv
  <2>3. /\ OnDisk'
        /\ volumes'[op.name].kind = "data" => volumes'[op.name].limit = op.orig.limit
        /\ \A m \in Names \ {op.name} : volumes'[m] = volumes[m]
    BY <1>r, <2>1, AcquireLimits
  <2>. QED BY <2>1, <2>2, <2>3 DEF OnDisk, LimitInv, Current
<1>11. CASE RemoveRequest
  <2>1. PICK n \in store : /\ store' = store \ {n}
                           /\ op' = [NoOp EXCEPT !.name = n, !.orig = file[n]]
    BY <1>11 DEF RemoveRequest
  <2>2. pc = "idle" /\ pc' = "purge" /\ UNCHANGED <<limits, ids, volumes, file>>
    BY <1>11 DEF RemoveRequest, disk, memory
  <2>. QED BY <2>1, <2>2 DEF LimitInv, Current
<1>12. CASE RemoveBroken
  <2>1. PICK n \in Names \ store : file' = [file EXCEPT ![n] = NoFile]
    BY <1>12 DEF RemoveBroken
  <2>2. pc = "idle" /\ pc' = "idle" /\ UNCHANGED <<limits, ids, volumes, store, op>>
    BY <1>12 DEF RemoveBroken, memory, request
  <2>3. \A m \in store : file'[m] = file[m]
    BY <1>0, <2>1, TypeParts DEF DiskType, RequestType
  <2>. QED BY <2>2, <2>3 DEF LimitInv, Current
<1>13. CASE Purge
  <2>1. /\ pc = "purge" /\ pc' \in {"file", "recover"} /\ UNCHANGED <<op, store, file>>
        /\ \E ok \in BOOLEAN : PurgeVolume(op.name, ok)
    BY <1>13 DEF Purge, Goto
  <2>2. OnDisk' /\ \A m \in Names \ {op.name} : volumes'[m] = volumes[m]
    BY <1>r, <2>1, PurgeLimits
  <2>. QED BY <2>1, <2>2 DEF OnDisk, LimitInv, Current
<1>14. CASE RemoveFile
  <2>1. /\ pc = "file" /\ pc' = "idle" /\ UNCHANGED <<limits, ids, volumes, store>>
        /\ file' = [file EXCEPT ![op.name] = NoFile]
    BY <1>14 DEF RemoveFile, Done, memory
  <2>2. op.name \notin store /\ \A m \in Names \ {op.name} : file'[m] = file[m]
    BY <1>0, <2>1 DEF OpInv, DiskType
  <2>. QED BY <2>1, <2>2 DEF LimitInv, Current
<1>. QED BY <1>3, <1>4, <1>5, <1>6, <1>7, <1>8, <1>9, <1>10, <1>11, <1>12, <1>13, <1>14
     DEF Install, Remove

-----------------------------------------------------------------------------
(* Charges *)

\* ChargeInv, of one directory.
ChargedOf(d) == d.charged # {} => d.inherit /\ d.top # 0 /\ d.charged = {d.top}

\* A grant keeps the project of a directory that has data.
LEMMA GrantCharges ==
  ASSUME TypeOK, ShapeInv, Undisturbed, ChargeInv, TrackInv, pc # "boot",
         NEW n \in Names, NEW limit \in Limits, NEW id, NEW steps,
         GrantStep(n, limit, id, steps)
  PROVE  \A m \in Names : ChargedOf(dir'[m])
<1>1. /\ Leaves(dir[n], id, steps, dir'[n])
      /\ \A m \in Names \ {n} : dir'[m] = dir[m]
      /\ OwnId(n, id) /\ quota
  BY GrantEffect DEF GrantStep, ChargeInv
<1>2. CASE dir[n].charged # {}
  <2>1. dir[n].inherit /\ dir[n].top # 0 /\ dir[n].charged = {dir[n].top}
    BY <1>2 DEF ChargeInv
  <2>2. dir[n].made
    BY <1>2, DirTypes DEF ShapeInv, DirShape
  <2>3. ids[n] = dir[n].top
    BY <1>1, <2>1, <2>2 DEF TrackInv, Known, ActiveId, Undisturbed
  <2>4. id = dir[n].top
    BY <1>1, <2>1, <2>3 DEF OwnId
  <2>5. dir'[n].inherit /\ dir'[n].top = dir[n].top /\ dir'[n].charged = dir[n].charged
    BY <1>1, <1>2, <2>1, <2>4 DEF Leaves
  <2>. QED BY <1>1, <2>1, <2>5 DEF ChargeInv, ChargedOf
<1>3. CASE dir[n].charged = {}
  <2>1. CASE steps = 5
    <3>1. dir'[n].inherit /\ dir'[n].top = id
      BY <1>1, <2>1 DEF Leaves
    <3>2. dir'[n].charged \in {{}, {id}}
      BY <1>1, <1>3, <3>1 DEF Leaves
    <3>. QED BY <1>1, <3>1, <3>2 DEF ChargeInv, ChargedOf, OwnId
  <2>2. CASE steps # 5
    <3>1. dir'[n].charged = {}
      BY <1>1, <1>3, <2>2 DEF Leaves
    <3>. QED BY <1>1, <3>1 DEF ChargeInv, ChargedOf
  <2>. QED BY <2>1, <2>2
<1>. QED BY <1>2, <1>3

LEMMA ChargeStep ==
  ASSUME TypeOK, ShapeInv, OpInv, VolumeInv, Undisturbed, ChargeInv, TrackInv, Next
  PROVE  ChargeInv'
<1>0. DiskType
  BY TypeParts
<1>r. op \in Ops /\ op.new.limit \in Limits /\ op.orig.limit \in Limits
      /\ (pc \notin {"boot", "load", "idle"} => op.name \in Names)
  BY RequestTypes
<1>1. pc' # "boot" => quota'
  <2>1. CASE Start
    <3>1. Outcomes("quota") = {TRUE}
      BY DEF Outcomes, Undisturbed
    <3>2. PICK on \in Outcomes("quota") : quota' = on
      BY <2>1 DEF Start
    <3>. QED BY <3>1, <3>2
  <2>2. CASE Crash \/ CrashInGrant \/ CrashInPurge \/ CrashInRestore
    BY <2>2 DEF Crash, CrashInGrant, CrashInPurge, CrashInRestore, Dies
  <2>3. CASE Load \/ Install \/ Remove
    <3>1. UNCHANGED quota /\ pc # "boot"
      BY <2>3 DEF Load, Install, Remove, InstallRequest, SetDataAside, Acquire, Build, Undo,
             RestoreData, Recover, RemoveRequest, RemoveBroken, Purge, RemoveFile,
             AcquireVolume, PurgeVolume, memory
    <3>. QED BY <3>1 DEF ChargeInv
  <2>. QED BY <2>1, <2>2, <2>3 DEF Next, Daemon
<1>. SUFFICES \A m \in Names : ChargedOf(dir'[m])
  BY <1>1 DEF ChargeInv, ChargedOf
<1>2. \A m \in Names : ChargedOf(dir[m])
  BY DEF ChargeInv, ChargedOf
<1>3. ChargedOf(NoDir)
  BY DirTypes DEF ChargedOf
<1>4. pc \notin {"undo", "restore"}
  BY DEF OpInv, Undisturbed
<1>5. CASE Load
  <2>1. PICK n \in todo : AcquireVolume(n, file[n].limit)
    BY <1>5 DEF Load
  <2>2. n \in Names /\ file[n].limit \in Limits /\ pc # "boot"
    BY <1>0, <1>5, TypeParts DEF RequestType, DiskType, Files, Load
  <2>. QED BY <2>1, <2>2, AcquireEffect, GrantCharges
<1>6. CASE CrashInGrant
  <2>1. pc # "boot"
    BY <1>6 DEF CrashInGrant, Dies
  <2>. QED BY <1>6, <2>1, CrashInGrantEffect, GrantCharges
<1>7. CASE Acquire
  <2>1. pc = "acquire" /\ AcquireVolume(op.name, op.new.limit)
    BY <1>7 DEF Acquire
  <2>. QED BY <1>r, <2>1, AcquireEffect, GrantCharges
<1>8. CASE Recover
  <2>1. pc = "recover" /\ AcquireVolume(op.name, op.orig.limit)
    BY <1>8 DEF Recover
  <2>. QED BY <1>r, <2>1, AcquireEffect, GrantCharges
<1>9. CASE Purge
  <2>1. PICK ok \in BOOLEAN : PurgeVolume(op.name, ok)
    BY <1>9 DEF Purge
  <2>2. op.name \in Names /\ pc = "purge"
    BY <1>9, <1>r DEF Purge
  <2>3. /\ \A m \in Names \ {op.name} : dir'[m] = dir[m]
        /\ dir' = dir \/ dir'[op.name] = NoDir
    BY <2>1, <2>2, PurgeEffect DEF Undisturbed
  <2>. QED BY <1>2, <1>3, <2>3
<1>10. CASE SetDataAside
  <2>1. dir' = [dir EXCEPT ![op.name] = NoDir]
    BY <1>10 DEF SetDataAside
  <2>. QED BY <1>0, <1>2, <1>3, <2>1 DEF DiskType
<1>11. CASE Undo \/ RestoreData \/ CrashInRestore
  BY <1>4, <1>11 DEF Undo, RestoreData, CrashInRestore
<1>12. CASE CrashInPurge
  BY <1>12 DEF CrashInPurge, Undisturbed
<1>13. CASE Start \/ Crash \/ InstallRequest \/ Build \/ RemoveRequest \/ RemoveBroken \/ RemoveFile
  <2>1. UNCHANGED dir
    BY <1>13 DEF Start, Crash, InstallRequest, Build, RemoveRequest, RemoveBroken, RemoveFile, disk
  <2>. QED BY <1>2, <2>1
<1>. QED BY <1>5, <1>6, <1>7, <1>8, <1>9, <1>10, <1>11, <1>12, <1>13
     DEF Next, Daemon, Install, Remove

-----------------------------------------------------------------------------
(* The theorems *)

LEMMA InitInv == Init => IInv
<1>. SUFFICES ASSUME Init PROVE IInv
  OBVIOUS
<1>1. 0 \in Ids /\ 0 \in Limits
  BY QuotaConstantsOK DEF Ids
<1>2. DiskType /\ MemoryType /\ RequestType /\ faults \in FaultSets
  BY <1>1, DirTypes, OpTypes DEF Init, DiskType, MemoryType, RequestType
<1>3. Shape
  BY VolumeFacts, NoOpIsEmpty, OpTypes
  DEF Init, Shape, ShapeInv, DirShape, OldShape, VolumeShape, BootShape, OpInv, StoreInv,
      VolumeInv, LoadInv
<1>4. DiskInv /\ TrackInv /\ LimitInv
  BY NoProject DEF Init, DiskInv, MarkInv, OwnInv, AsideInv, Aside, TrackInv, LimitInv
<1>5. ChargeInv
  BY DirTypes DEF Init, ChargeInv
<1>. QED BY <1>2, <1>3, <1>4, <1>5, TypeParts DEF IInv

LEMMA StutterInv == ASSUME IInv, UNCHANGED vars PROVE IInv'
<1>1. Shape'
  BY DEF IInv, vars, disk, memory, request, Shape, ShapeInv, DirShape, OldShape, VolumeShape,
         BootShape, OpInv, StoreInv, VolumeInv, LoadInv, ActiveId
<1>2. KeepsTrack' => DiskInv' /\ TrackInv' /\ LimitInv'
  BY DEF IInv, vars, disk, memory, request, KeepsTrack, DiskInv, MarkInv, OwnInv, AsideInv,
         Aside, TrackInv, Known, LimitInv, Current, ActiveId
<1>3. Undisturbed' => ChargeInv'
  BY DEF IInv, vars, disk, memory, request, Undisturbed, ChargeInv
<1>4. TypeOK'
  BY DEF IInv, vars, disk, memory, request, TypeOK
<1>. QED BY <1>1, <1>2, <1>3, <1>4 DEF IInv

LEMMA StepInv == ASSUME IInv, [Next]_vars PROVE IInv'
<1>1. CASE UNCHANGED vars
  BY <1>1, StutterInv
<1>2. CASE Next
  <2>0. TypeOK /\ ShapeInv /\ OpInv /\ StoreInv /\ VolumeInv /\ LoadInv /\ UNCHANGED faults
    BY <1>2, FaultsStay DEF IInv, Shape
  <2>1. TypeOK'
    BY <2>0, TypeStep
  <2>2. Shape'
    BY <1>2, <2>0, ShapeStep, OpStep, StoreStep, VolumeStep, LoadStep DEF Shape
  <2>3. KeepsTrack' => DiskInv' /\ TrackInv' /\ LimitInv'
    <3>. SUFFICES ASSUME KeepsTrack PROVE DiskInv' /\ TrackInv' /\ LimitInv'
      BY <2>0 DEF KeepsTrack
    <3>. QED BY <1>2, <2>0, TrackStep, LimitStep DEF IInv
  <2>4. Undisturbed' => ChargeInv'
    <3>. SUFFICES ASSUME Undisturbed PROVE ChargeInv'
      BY <2>0 DEF Undisturbed
    <3>1. KeepsTrack
      BY DEF Undisturbed, KeepsTrack
    <3>. QED BY <1>2, <2>0, <3>1, ChargeStep DEF IInv
  <2>. QED BY <2>1, <2>2, <2>3, <2>4 DEF IInv
<1>. QED BY <1>1, <1>2

LEMMA InductiveInv == Spec => []IInv
BY InitInv, StepInv, PTL DEF Spec

\* The tables of the volume manager, what is on the disk and the request under way
\* have the types the code gives them.
THEOREM VolumeTypeCorrect == Spec => []TypeOK
<1>1. IInv => TypeOK
  BY DEF IInv
<1>. QED BY <1>1, InductiveInv, PTL

\* A volume of Limited is under quota, with its entry's directory.
LEMMA LimitedVolume ==
  ASSUME IInv, NEW n \in Limited
  PROVE  /\ n \in Names /\ quota /\ pc = "idle" /\ volumes[n].kind = "data"
         /\ volumes[n].id = ids[n] /\ ids[n] # 0
         /\ dir[n].made /\ dir[n].inherit /\ dir[n].top = ids[n]
<1>1. n \in Names /\ volumes[n].kind = "data" /\ volumes[n].id # 0 /\ pc = "idle"
  BY DEF Limited
<1>2. quota
  BY <1>1 DEF IInv, Shape, ShapeInv, VolumeShape
<1>. QED BY <1>1, <1>2 DEF IInv, Shape, VolumeInv

\* Two packages never share a project, for next_id gives no id that is on a
\* directory: whatever the faults that KeepsTrack admits, wherever the daemon dies.
THEOREM ProjectsAreOwn == Spec => []OwnProject
<1>1. IInv => OwnProject
  <2>. SUFFICES ASSUME IInv, KeepsTrack, NEW m \in Limited, NEW n \in Limited, m # n
                PROVE  dir[m].top # dir[n].top
    BY DEF OwnProject
  <2>1. ActiveId(dir[m]) = dir[m].top /\ ActiveId(dir[n]) = dir[n].top /\ dir[n].top # 0
        /\ m \in Names /\ n \in Names
    BY LimitedVolume DEF ActiveId
  <2>. QED BY <2>1 DEF IInv, DiskInv, OwnInv
<1>. QED BY <1>1, InductiveInv, PTL

\* Between two requests the limit of the version that is installed is the one that
\* the file system enforces and the daemon reports.
THEOREM LimitIsInForce == Spec => []LimitInForce
<1>1. IInv => LimitInForce
  <2>. SUFFICES ASSUME IInv, KeepsTrack, NEW n \in Limited \cap store
                PROVE  /\ dir[n].top = volumes[n].id
                       /\ limits[dir[n].top] = file[n].limit
                       /\ volumes[n].limit = file[n].limit
    BY DEF LimitInForce
  <2>1. /\ n \in Names /\ quota /\ pc = "idle" /\ volumes[n].kind = "data"
        /\ volumes[n].id = ids[n] /\ dir[n].top = ids[n]
    BY LimitedVolume
  <2>2. limits[ids[n]] = volumes[n].limit /\ volumes[n].limit = file[n].limit
    BY <2>1 DEF IInv, LimitInv, Current
  <2>. QED BY <2>1, <2>2
<1>. QED BY <1>1, InductiveInv, PTL

\* What a package stores is charged to the project its limit is on, when every
\* version builds, every removal goes through and the quota is always there.
THEOREM DataLimited == Spec => []DataIsLimitedOtherwise
<1>1. IInv => DataIsLimitedOtherwise
  <2>. SUFFICES ASSUME IInv, Undisturbed, NEW n \in Limited
                PROVE  dir[n].charged \subseteq {dir[n].top}
    BY DEF DataIsLimitedOtherwise, DataIsLimited, Undisturbed
  <2>1. n \in Names
    BY DEF Limited
  <2>. QED BY <2>1 DEF IInv, ChargeInv
<1>. QED BY <1>1, InductiveInv, PTL

\* The grant of a directory whose data is charged to its project keeps the project.
LEMMA KeptByGrant ==
  ASSUME IInv, NEW n \in Names, dir[n].inherit, dir[n].top # 0,
         \/ "scan" \notin faults /\ pc = "load" /\ n \in todo
         \/ pc \in {"acquire", "recover"} /\ volumes[n].kind = "data",
         NEW limit \in Limits, NEW id, NEW steps, GrantStep(n, limit, id, steps)
  PROVE  dir'[n].top = dir[n].top
<1>1. /\ TypeOK /\ ShapeInv /\ VolumeInv /\ LoadInv
      /\ Leaves(dir[n], id, steps, dir'[n])
      /\ quota => OwnId(n, id)
  BY GrantEffect DEF IInv, Shape, GrantStep
<1>2. CASE ~quota
  BY <1>1, <1>2 DEF Leaves
<1>3. CASE quota
  <2>1. ids[n] = dir[n].top
    <3>1. CASE "scan" \notin faults /\ pc = "load" /\ n \in todo
      <4>1. dir[n].made
        BY <1>1, DirTypes DEF ShapeInv, DirShape
      <4>. QED BY <1>1, <1>3, <3>1, <4>1 DEF LoadInv, ActiveId
    <3>2. CASE pc \in {"acquire", "recover"} /\ volumes[n].kind = "data"
      BY <1>1, <1>3, <3>2, DirTypes DEF VolumeInv
    <3>. QED BY <3>1, <3>2
  <2>2. id = dir[n].top
    BY <1>1, <1>3, <2>1 DEF OwnId
  <2>. QED BY <1>1, <2>2 DEF Leaves
<1>. QED BY <1>2, <1>3

LEMMA KeptByStep ==
  ASSUME IInv, Next, NEW n \in Names, "scan" \notin faults,
         pc = "load" \/ (pc \in {"acquire", "recover"} /\ volumes[n].kind = "data"),
         dir[n].inherit, dir[n].top \in dir[n].charged \ {0}
  PROVE  dir'[n].top = dir[n].top
<1>0. TypeOK /\ ShapeInv /\ OpInv /\ DiskType /\ RequestType
  BY TypeParts DEF IInv, Shape
<1>r. op \in Ops /\ op.new.limit \in Limits /\ op.orig.limit \in Limits
      /\ (pc \notin {"boot", "load", "idle"} => op.name \in Names)
  BY <1>0, RequestTypes
<1>1. CASE UNCHANGED dir
  BY <1>1
<1>2. ASSUME NEW m \in Names, NEW limit \in Limits, NEW id, NEW steps,
             GrantStep(m, limit, id, steps), pc = "load" => m \in todo
      PROVE  dir'[n].top = dir[n].top
  <2>1. CASE m = n
    BY <1>2, <2>1, KeptByGrant
  <2>2. CASE m # n
    BY <1>0, <1>2, <2>2, GrantEffect
  <2>. QED BY <2>1, <2>2
<1>3. CASE Load
  <2>1. PICK m \in todo : AcquireVolume(m, file[m].limit)
    BY <1>3 DEF Load
  <2>2. m \in Names /\ file[m].limit \in Limits
    BY <1>0 DEF RequestType, DiskType, Files
  <2>. QED BY <1>0, <1>2, <2>1, <2>2, AcquireEffect
<1>4. CASE CrashInGrant
  BY <1>0, <1>2, <1>4, CrashInGrantEffect
<1>5. CASE Acquire
  <2>1. pc = "acquire" /\ AcquireVolume(op.name, op.new.limit)
    BY <1>5 DEF Acquire
  <2>. QED BY <1>0, <1>2, <1>r, <2>1, AcquireEffect
<1>6. CASE Recover
  <2>1. pc = "recover" /\ AcquireVolume(op.name, op.orig.limit)
    BY <1>6 DEF Recover
  <2>. QED BY <1>0, <1>2, <1>r, <2>1, AcquireEffect
<1>7. UNCHANGED dir \/ Load \/ CrashInGrant \/ Acquire \/ Recover
  BY DEF Next, Daemon, Install, Remove, Start, Crash, CrashInPurge, CrashInRestore,
         InstallRequest, SetDataAside, Build, Undo, RestoreData, RemoveRequest,
         RemoveBroken, Purge, RemoveFile, disk
<1>. QED BY <1>1, <1>3, <1>4, <1>5, <1>6, <1>7

\* A restart and an upgrade that keeps the data leave the project of a directory as
\* it is (get_active_projid at the start, get_project_id at an acquisition), also if
\* the daemon dies in the grant.
THEOREM ProjectKept == Spec => ProjectIsKept
<1>1. ASSUME IInv, [Next]_vars
      PROVE  [\A n \in Names :
                 /\ "scan" \notin faults
                 /\ \/ pc = "load"
                    \/ pc \in {"acquire", "recover"} /\ volumes[n].kind = "data"
                 /\ dir[n].inherit /\ dir[n].top \in dir[n].charged \ {0}
                 => dir'[n].top = dir[n].top]_vars
  BY <1>1, KeptByStep
<1>. QED BY <1>1, InductiveInv, PTL DEF Spec, ProjectIsKept
=============================================================================
