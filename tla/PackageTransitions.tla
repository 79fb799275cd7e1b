------------------------- MODULE PackageTransitions -------------------------
(***************************************************************************)
(* The status of a package and the transition table of the daemon.         *)
(*                                                                         *)
(* PackageStatus::Running(state) carries the ActiveState of the package's  *)
(* systemd unit as a string.  A running status is represented by that      *)
(* string itself, so "active" stands for Running("active").  Error(reason) *)
(* and Broken(reason) are kept without their reason.                       *)
(***************************************************************************)

\* UnitActiveState, without Reloading: no code path reloads a unit.
RunStates  == {"activating", "active", "deactivating", "failed"}
UnitStates == RunStates \cup {"inactive"}

Statuses == RunStates \cup
    {"Verified", "SettingUp", "Ready", "StartRequested", "StopRequested",
     "CleaningUp", "Cleaned", "Upgrading", "Error", "Broken"}

\* Statuses a handler sets on entry and leaves before it returns.
Transient == {"SettingUp", "StartRequested", "StopRequested", "CleaningUp"}

\* Statuses of a package that is set up.
Live == RunStates \cup {"Ready"}

\* Bug: an inactive unit is Running("inactive").
AlwaysRunning(unit) == unit

\* From<UnitActiveState> for ExecutionStatus, then into PackageStatus: only an
\* inactive unit is Inactive, and Inactive is Ready.
StatusOf(unit) == IF unit = "inactive" THEN "Ready" ELSE unit

\* TransitionStore::find_transition: the statuses a target may be reached from.
\* No handler is registered for the target Verified.
From(target) ==
    CASE target = "SettingUp"      -> {"Verified", "Cleaned"}
      [] target = "StartRequested" -> {"Ready"} \cup RunStates
      [] target = "CleaningUp"     -> {"Ready"}
      [] target = "StopRequested"  -> {"StartRequested", "Ready"} \cup RunStates
      [] target = "Ready"          -> {"SettingUp", "StopRequested"} \cup RunStates
      [] target \in RunStates      -> {"Ready", "StartRequested", "StopRequested"}
                                          \cup RunStates
      [] target = "Cleaned"        -> {"CleaningUp"}
      [] target = "Upgrading"      -> {"Verified", "Ready", "StartRequested"}
                                          \cup RunStates
      [] target \in {"Error", "Broken"} -> Statuses
      [] OTHER -> {}

Applicable(current, target) == current \in From(target)

\* TransitionHandler::ignore_without_error: the request is answered Ok and the
\* status stays what it is.
Ignored(current, target) ==
    \/ target = "StartRequested" /\ current \in RunStates \ {"failed"}
    \/ target = "StopRequested"  /\ current = "Ready"

\* map_job_result followed by From<ExecutionResult>: the status a start or a
\* stop ends in, from the job's result and the unit's state read afterwards.
\* "err" is a D-Bus call that failed.
MapJobResult(result, unit) ==
    IF \/ result = "err"
       \/ result \in {"failed", "timeout"} /\ unit = "inactive"
    THEN "Error"
    ELSE StatusOf(unit)

\* Statuses a request that is worked on may end in, when its package is in
\* status s.  A teardown sets none.
EndsIn(r, s) ==
    CASE r = "SettingUp"                          -> {"Ready", "Error"}
      [] r \in {"StartRequested", "StopRequested"} -> Live \cup {"Error"}
      [] r = "CleaningUp"                         -> {"Cleaned", "Error"}
      [] r = "Upgrading"                          -> {"Upgrading", "Error"}
      [] r = "Teardown"                           -> {s}

\* Whether something may, or may not, be mounted when it has ended in s.
EndsMounted(r, s) ==
    CASE r = "SettingUp" /\ s = "Ready"       -> {TRUE}
      [] r = "CleaningUp" /\ s = "Cleaned"    -> {FALSE}
      [] r = "Upgrading" /\ s = "Upgrading"   -> {FALSE}
      [] OTHER                                -> BOOLEAN
=============================================================================
