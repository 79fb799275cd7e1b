----------------------------- MODULE MCRequests -----------------------------
(***************************************************************************)
(* PackageLifecycle with a history variable: whether the unit has been     *)
(* gone ever since a stop of the package manager ended with the package    *)
(* Ready.                                                                  *)
(***************************************************************************)
EXTENDS PackageLifecycle

VARIABLE stopped

HistoryVars == <<vars, stopped>>

\* The handler of a stop has its job's result, and the unit is gone.
StopEnds ==
    /\ pc = "job" /\ status = "StopRequested" /\ status' = "Ready"
    /\ unit = "inactive"

HInit == Init /\ stopped = FALSE

HNext ==
    /\ Next
    /\ stopped' = (unit' = "inactive" /\ (stopped \/ StopEnds))

HSpec == HInit /\ [][HNext]_HistoryVars

\* The step in which the package manager's start is answered Ok.
StartAnsweredOk ==
    /\ msg["pm"] = "StartRequested" /\ msg'["pm"] = "none"
    /\ reply'["pm"] = "ok"

\* A start of a package that was stopped brings its unit up again before it is
\* answered Ok: "Only a gone unit (Inactive) gets a fresh start", and it does
\* get one (executor/systemd.rs, TransientUnitExecutor::start).
StoppedIsRestarted == [][StartAnsweredOk => ~stopped']_HistoryVars
=============================================================================
