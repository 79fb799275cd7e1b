-------------------------- MODULE PackageLifecycle --------------------------
(***************************************************************************)
(* One package of ssamd: the transition actor that owns its status, the    *)
(* tasks that send it requests, and what the requests act on.              *)
(*                                                                         *)
(*   - three senders: the initialize() task, the status receiver, and the  *)
(*     package manager actor (which waits for each answer, so it has one   *)
(*     request outstanding at a time);                                     *)
(*   - the actor serves its mailbox one message at a time; a message stays *)
(*     at the head of mailbox until its handler returns, and pc says where *)
(*     between two awaits the handler is;                                  *)
(*   - the systemd manager actor serves mgrQ the same way;                 *)
(*   - systemd itself (unit, job) moves on its own;                        *)
(*   - the ActiveState monitor forwards unit changes to the receiver       *)
(*     through a bounded channel.                                          *)
(***************************************************************************)
EXTENDS Integers, Sequences, PackageTransitions, MountStack

CONSTANTS
    Autostart,      \* package.autostart
    Bridge,         \* the container runs in bridge network mode
    Overlay,        \* packages_overlayfs_root is configured
    Faults,         \* the calls the environment may fail, of FaultKinds
    PMOps,          \* the operations the package manager may call
    EventCap,       \* capacity of the status channel (mpsc::channel(8))
    InitialUnits,   \* unit states a previous daemon may have left
    InitialLayers   \* mount layers a previous daemon may have left

FaultKinds == {"exec", "mount", "unmount", "prepare", "net", "dbus",
               "monitor", "external"}

Operations == {"SettingUp", "CleaningUp", "StartRequested", "StopRequested",
               "Upgrading", "Teardown"}

ASSUME ConstantsOK ==
    /\ Autostart \in BOOLEAN /\ Bridge \in BOOLEAN /\ Overlay \in BOOLEAN
    /\ Faults \subseteq FaultKinds
    /\ PMOps \subseteq Operations
    /\ EventCap \in Nat \ {0}
    /\ InitialUnits \subseteq UnitStates
    /\ InitialLayers \subseteq Layers

Clients  == {"init", "recv", "pm"}
Messages == Statuses \cup {"none", "Teardown", "GetStatus"}
Replies  == {"none", "ok", "err"} \cup Statuses
Tasks    == {"exec", "mount", "prepare", "net"}
ManagerOps == {"reset", "start", "stop"}

VARIABLES
    status,     \* TransitionManagerActor.status
    pc,         \* where the handler of Head(mailbox) is; "idle" between messages
    task,       \* the four tasks of setup(): "off", "run", "ok" or "err"
    mailbox,    \* the actor's mailbox: the senders, in order
    msg,        \* msg[c]: the message of sender c in the mailbox
    reply,      \* reply[c]: the answer to it that c has not looked at yet
    initPc,     \* the task spawned by initialize()
    recvPc,     \* run_status_receiver
    pmPc,       \* the package manager actor's calls on this package
    held,       \* the package manager still has the Package in its store
    cell,       \* LazyExecutor: "unset", "set", or "failed" (args consumed)
    monitor,    \* run_active_state_monitor: "off", "on" or "dead"
    dirty,      \* an ActiveState change the monitor has not forwarded
    events,     \* the status channel
    unit,       \* ActiveState of <package>.service
    job,        \* systemd's job for the unit, or the result it ended with
    mgrQ,       \* SystemdManagerActor's mailbox
    called,     \* Head(mgrQ)'s D-Bus call is made, its job is waited for
    result,     \* the manager's answer to the handler
    layers,     \* layers at the mount point
    netns,      \* the network namespace exists
    attached,   \* the veth of the package is attached to its bridge
    torn        \* (ghost) a Teardown message has been served

actorVars   == <<status, pc, task>>
askVars     == <<mailbox, msg, reply>>
clientVars  == <<initPc, recvPc, pmPc, held>>
monitorVars == <<monitor, dirty, events>>
systemdVars == <<unit, job, mgrQ, called, result>>
netVars     == <<netns, attached>>
vars == <<actorVars, askVars, clientVars, cell, monitorVars, systemdVars,
          layers, netVars, torn>>

TypeOK ==
    /\ status \in Statuses
    /\ pc \in {"idle", "setup", "start", "stop", "reset", "job", "tdstop",
               "tdwait", "tdreset", "net", "unmount"}
    /\ task \in [Tasks -> {"off", "run", "ok", "err"}]
    /\ mailbox \in Seq(Clients)
    /\ msg \in [Clients -> Messages]
    /\ reply \in [Clients -> Replies]
    /\ initPc \in {"setup", "settingup", "start", "starting", "done"}
    /\ recvPc \in {"recv", "asking", "failing", "dead"}
    /\ pmPc \in {"idle", "querying", "waiting", "leaving"}
    /\ held \in BOOLEAN
    /\ cell \in {"unset", "set", "failed"}
    /\ monitor \in {"off", "on", "dead"}
    /\ dirty \in BOOLEAN
    /\ events \in Seq(UnitStates)
    /\ unit \in UnitStates
    /\ job \in {"none", "start", "stop", "done", "failed", "canceled"}
    /\ mgrQ \in Seq(ManagerOps)
    /\ called \in BOOLEAN
    /\ result \in {"none", "ok", "err", "done", "failed", "canceled", "timeout"}
    /\ layers \in Layers
    /\ netns \in BOOLEAN /\ attached \in BOOLEAN
    /\ torn \in BOOLEAN

Init ==
    /\ status = "Verified" /\ pc = "idle" /\ task = [t \in Tasks |-> "off"]
    /\ mailbox = <<>>
    /\ msg = [c \in Clients |-> "none"]
    /\ reply = [c \in Clients |-> "none"]
    /\ initPc = "setup" /\ recvPc = "recv" /\ pmPc = "idle"
    /\ held = TRUE
    /\ cell = "unset" /\ monitor = "off" /\ dirty = FALSE /\ events = <<>>
    /\ unit \in InitialUnits /\ job = "none"
    /\ mgrQ = <<>> /\ called = FALSE /\ result = "none"
    /\ layers \in InitialLayers /\ netns = FALSE /\ attached = FALSE
    /\ torn = FALSE

-----------------------------------------------------------------------------
(* Messages to the transition actor *)

\* transition_mgr.ask(m): the message is queued, its sender waits.
Ask(c, m) ==
    /\ mailbox' = Append(mailbox, c)
    /\ msg' = [msg EXCEPT ![c] = m]
    /\ reply' = [reply EXCEPT ![c] = "none"]

\* The sender c takes its answer.
Answered(c) ==
    /\ reply[c] # "none"
    /\ reply' = [reply EXCEPT ![c] = "none"]
    /\ UNCHANGED <<mailbox, msg>>

\* The message being served.
request == msg[Head(mailbox)]

\* The handler returns r to the sender and the actor takes its next message.
Answer(r) ==
    /\ mailbox' = Tail(mailbox)
    /\ reply' = [reply EXCEPT ![Head(mailbox)] = r]
    /\ msg' = [msg EXCEPT ![Head(mailbox)] = "none"]
    /\ pc' = "idle"

\* Bug: the error is returned early, before the status is set.
FinishEarly(s) ==
    /\ status' = IF s = "Error" THEN status ELSE s
    /\ Answer(IF s = "Error" THEN "err" ELSE "ok")

\* transition_to ends in status s: an error status is answered with an error.
Finish(s) ==
    /\ status' = s
    /\ Answer(IF s = "Error" THEN "err" ELSE "ok")

\* The SystemdManagerActor is asked for op; the handler waits at p.
AskManager(op, p) ==
    /\ mgrQ' = Append(mgrQ, op)
    /\ result' = "none"
    /\ pc' = p
    /\ UNCHANGED <<unit, job, called>>

-----------------------------------------------------------------------------
(* The transition actor *)

\* handle_get_status
GetStatus ==
    /\ request = "GetStatus"
    /\ Answer(status)
    /\ UNCHANGED <<status, task, torn>>

\* handle_teardown: the executor is stopped only if it was ever initialised.
Teardown ==
    /\ request = "Teardown"
    /\ torn' = TRUE
    /\ pc' = IF cell = "set" THEN "tdstop" ELSE "net"
    /\ UNCHANGED <<status, task, askVars>>

\* transition_to when it has nothing to run: the status is the target already
\* (an Error with another reason is a transition to itself), the transition is
\* invalid, or it is one to be ignored.
Refuse ==
    /\ request \in Statuses
    /\ \/ request = status /\ Answer("ok")
       \/ request = status /\ status = "Error" /\ Answer("err")
       \/ request # status /\ ~Applicable(status, request) /\ Answer("err")
       \/ /\ request # status /\ Applicable(status, request)
          /\ Ignored(status, request) /\ Answer("ok")
    /\ UNCHANGED <<status, task, torn>>

\* transition_to: the status is set first, then the handler runs.
Transition ==
    /\ request \in Statuses \ {status}
    /\ Applicable(status, request)
    /\ ~Ignored(status, request)
    /\ \/ /\ request = "SettingUp"
          /\ status' = request /\ pc' = "setup"
          /\ task' = [t \in Tasks |-> "run"]
          /\ UNCHANGED askVars
       \/ /\ request = "StartRequested"
          /\ status' = request /\ pc' = "start"
          /\ UNCHANGED <<task, askVars>>
       \/ /\ request = "StopRequested"
          /\ status' = request /\ pc' = "stop"
          /\ UNCHANGED <<task, askVars>>
       \/ /\ request = "CleaningUp"
          /\ status' = request /\ pc' = "net"
          /\ UNCHANGED <<task, askVars>>
       \/ /\ request = "Upgrading"
          /\ status' = request
          /\ IF status = "Verified"
             THEN Answer("ok")
             ELSE /\ pc' = IF cell = "set" THEN "tdstop" ELSE "net"
                  /\ UNCHANGED askVars
          /\ UNCHANGED task
       \/ /\ request \in Live \cup {"Cleaned", "Error", "Broken"}
          /\ Finish(request)
          /\ UNCHANGED task
    /\ UNCHANGED torn

\* The actor takes the message at the head of its mailbox.
Receive ==
    /\ pc = "idle" /\ mailbox # <<>>
    /\ GetStatus \/ Teardown \/ Refuse \/ Transition
    /\ UNCHANGED <<initPc, recvPc, pmPc, held, cell, monitorVars, systemdVars,
                   layers, netVars>>

-----------------------------------------------------------------------------
(* setup(): four parallel tasks, all of them joined *)

TaskEnds(t, ok) ==
    /\ pc = "setup" /\ task[t] = "run"
    /\ task' = [task EXCEPT ![t] = IF ok THEN "ok" ELSE "err"]
    /\ UNCHANGED <<status, pc, askVars, clientVars, systemdVars, torn>>

\* LazyExecutor::get().  The init arguments are taken by the first attempt; if
\* that fails every later one does, and the channel's only sender is dropped.
\* A successful one starts the monitor, which reports a unit already loaded.
InitExecutor ==
    /\ \/ /\ cell = "unset"
          /\ cell' = "set" /\ monitor' = "on" /\ dirty' = FALSE
          /\ events' = IF unit = "inactive" THEN events ELSE Append(events, unit)
          /\ TaskEnds("exec", TRUE)
       \/ /\ cell = "unset" /\ "exec" \in Faults
          /\ cell' = "failed" /\ monitor' = "dead"
          /\ TaskEnds("exec", FALSE)
          /\ UNCHANGED <<dirty, events>>
       \/ /\ cell # "unset"
          /\ TaskEnds("exec", cell = "set")
          /\ UNCHANGED <<cell, monitorVars>>
    /\ UNCHANGED <<layers, netVars>>

MountFs ==
    /\ \E r \in MountWithRetry(layers, Overlay, "mount" \in Faults,
                               "unmount" \in Faults) :
          /\ TaskEnds("mount", r.ok)
          /\ layers' = r.layers
    /\ UNCHANGED <<cell, monitorVars, netVars>>

PrepareBundle ==
    /\ \E ok \in {TRUE} \cup {"prepare" \notin Faults} : TaskEnds("prepare", ok)
    /\ UNCHANGED <<cell, monitorVars, layers, netVars>>

\* create_netns, then attach; an attach that fails leaves the namespace.
ConnectNetwork ==
    /\ \/ /\ ~Bridge
          /\ TaskEnds("net", TRUE)
          /\ UNCHANGED netVars
       \/ /\ Bridge
          /\ TaskEnds("net", TRUE)
          /\ netns' = TRUE /\ attached' = TRUE
       \/ /\ Bridge /\ "net" \in Faults
          /\ TaskEnds("net", FALSE)
          /\ netns' \in BOOLEAN
          /\ UNCHANGED attached
    /\ UNCHANGED <<cell, monitorVars, layers>>

\* Bug: only the first two results are looked at.
JoinSetupPartly ==
    /\ pc = "setup" /\ \A t \in Tasks : task[t] # "run"
    /\ task' = [t \in Tasks |-> "off"]
    /\ IF task["exec"] = "ok" /\ task["mount"] = "ok"
       THEN Finish("Ready")
       ELSE /\ pc' = "net"
            /\ UNCHANGED <<status, askVars>>
    /\ UNCHANGED <<clientVars, cell, monitorVars, systemdVars, layers, netVars,
                   torn>>

\* All tasks joined: Ready, or the compensating cleanup() and then Error.
JoinSetup ==
    /\ pc = "setup" /\ \A t \in Tasks : task[t] # "run"
    /\ task' = [t \in Tasks |-> "off"]
    /\ IF \A t \in Tasks : task[t] = "ok"
       THEN Finish("Ready")
       ELSE /\ pc' = "net"
            /\ UNCHANGED <<status, askVars>>
    /\ UNCHANGED <<clientVars, cell, monitorVars, systemdVars, layers, netVars,
                   torn>>

-----------------------------------------------------------------------------
(* cleanup(), and the end of teardown(): the network, then the mounts *)

\* detach and destroy_netns; their errors are logged and dropped.
ReleaseNetwork ==
    /\ pc = "net"
    /\ pc' = "unmount"
    /\ netns' \in {FALSE} \cup (IF "net" \in Faults THEN {netns} ELSE {})
    /\ attached' \in {FALSE} \cup (IF "net" \in Faults THEN {attached} ELSE {})
    /\ UNCHANGED <<status, task, askVars, clientVars, cell, monitorVars,
                   systemdVars, layers, torn>>

\* unmount(), whose result is what the request ends with.  A setup that got
\* here ends in Error whatever unmount says, and Teardown never sets a status.
UnmountFs ==
    /\ pc = "unmount"
    /\ \E r \in Unmount(layers, Overlay, "unmount" \in Faults) :
          /\ layers' = r.layers
          /\ \/ /\ request = "SettingUp" \/ (~r.ok /\ request # "Teardown")
                /\ Finish("Error")
             \/ request = "CleaningUp" /\ r.ok /\ Finish("Cleaned")
             \/ request = "Upgrading" /\ r.ok /\ Finish("Upgrading")
             \/ /\ request = "Teardown"
                /\ Answer(IF r.ok THEN "ok" ELSE "err")
                /\ UNCHANGED status
    /\ UNCHANGED <<task, clientVars, cell, monitorVars, systemdVars, netVars,
                   torn>>

-----------------------------------------------------------------------------
(* start() and stop() *)

outsideActor == <<task, clientVars, cell, monitorVars, layers, netVars, torn>>

\* A call of the executor fails: Failed to start/stop package, then Error.
ExecutorFails ==
    /\ pc \in {"start", "stop"}
    /\ cell # "set" \/ "dbus" \in Faults
    /\ Finish("Error")
    /\ UNCHANGED <<outsideActor, systemdVars>>

\* TransientUnitExecutor::start: a unit that is loaded is left as it is.
StartUnit ==
    /\ pc = "start" /\ cell = "set"
    /\ \/ unit = "inactive" /\ AskManager("start", "job")
          /\ UNCHANGED <<status, askVars>>
       \/ unit = "failed" /\ AskManager("reset", "reset")
          /\ UNCHANGED <<status, askVars>>
       \/ /\ unit \notin {"inactive", "failed"}
          /\ Finish(unit)
          /\ UNCHANGED systemdVars
    /\ UNCHANGED outsideActor

\* TransientUnitExecutor::stop: a failed unit is only reset.
StopUnit ==
    /\ pc = "stop" /\ cell = "set"
    /\ IF unit = "failed" THEN AskManager("reset", "reset")
                          ELSE AskManager("stop", "job")
    /\ UNCHANGED <<status, askVars, outsideActor>>

\* The reset before a start or instead of a stop is answered.
ResetDone ==
    /\ pc = "reset" /\ result # "none"
    /\ \/ /\ result = "ok" /\ request = "StartRequested"
          /\ AskManager("start", "job")
          /\ UNCHANGED <<status, askVars>>
       \/ /\ result = "ok" /\ request = "StopRequested"
          /\ Finish("Ready")
          /\ result' = "none"
          /\ UNCHANGED <<unit, job, mgrQ, called>>
       \/ /\ result = "err"
          /\ Finish("Error")
          /\ result' = "none"
          /\ UNCHANGED <<unit, job, mgrQ, called>>
    /\ UNCHANGED outsideActor

\* handle_job_result: the unit's state is read again and decides.
JobDone ==
    /\ pc = "job" /\ result # "none"
    /\ \/ Finish(MapJobResult(result, unit))
       \/ "dbus" \in Faults /\ Finish("Error")
    /\ result' = "none"
    /\ UNCHANGED <<unit, job, mgrQ, called, outsideActor>>

-----------------------------------------------------------------------------
(* TransientUnitExecutor::teardown: stop() for at most BLOCKING_TIMEOUT, then *)
(* reset_failed().  Neither result is used.                                   *)

TeardownStop ==
    /\ pc = "tdstop"
    /\ \/ unit = "failed" /\ AskManager("reset", "tdwait")
       \/ unit # "failed" /\ AskManager("stop", "tdwait")
       \/ "dbus" \in Faults /\ AskManager("reset", "tdreset")
    /\ UNCHANGED <<status, askVars, outsideActor>>

\* Bug: no reset_failed() after the stop.
TeardownNoReset ==
    /\ pc \in {"tdstop", "tdwait"}
    /\ pc' = "net"
    /\ UNCHANGED <<status, askVars, systemdVars, outsideActor>>

\* stop() returned, or the timeout dropped it: a StopUnit it had sent stays in
\* the manager's mailbox.
TeardownReset ==
    /\ pc \in {"tdstop", "tdwait"}
    /\ AskManager("reset", "tdreset")
    /\ UNCHANGED <<status, askVars, outsideActor>>

TeardownRelease ==
    /\ pc = "tdreset" /\ result # "none"
    /\ pc' = "net" /\ result' = "none"
    /\ UNCHANGED <<status, askVars, unit, job, mgrQ, called, outsideActor>>

-----------------------------------------------------------------------------
(* SystemdManagerActor: one request at a time, to its end *)

outsideManager == <<actorVars, askVars, clientVars, cell, layers, netVars, torn>>

\* The request at the head is answered.  Only the last one in the mailbox still
\* has somebody waiting for the answer.
ManagerAnswer(r) ==
    /\ mgrQ' = Tail(mgrQ)
    /\ called' = FALSE
    /\ result' = IF Len(mgrQ) = 1 THEN r ELSE result

\* A unit change is noticed by the monitor, if it is running.
UnitBecomes(u) ==
    /\ unit' = u
    /\ dirty' = (dirty \/ (monitor = "on" /\ u # unit))
    /\ UNCHANGED <<monitor, events>>

\* ResetFailedUnit: no effect on a unit that has not failed, and an error for
\* one that is not loaded.
CallReset ==
    /\ mgrQ # <<>> /\ Head(mgrQ) = "reset"
    /\ \/ /\ unit = "failed"
          /\ UnitBecomes("inactive")
          /\ ManagerAnswer("ok")
       \/ /\ unit # "failed"
          /\ ManagerAnswer("ok")
          /\ UNCHANGED <<unit, monitorVars>>
       \/ /\ unit = "inactive" \/ "dbus" \in Faults
          /\ ManagerAnswer("err")
          /\ UNCHANGED <<unit, monitorVars>>
    /\ UNCHANGED <<job, outsideManager>>

\* StartTransientUnit: an error for a unit that is still loaded.
CallStart ==
    /\ mgrQ # <<>> /\ Head(mgrQ) = "start" /\ ~called
    /\ \/ /\ unit = "inactive"
          /\ UnitBecomes("activating")
          /\ job' = "start" /\ called' = TRUE
          /\ UNCHANGED <<mgrQ, result>>
       \/ /\ unit # "inactive" \/ "dbus" \in Faults
          /\ ManagerAnswer("err")
          /\ UNCHANGED <<unit, job, monitorVars>>
    /\ UNCHANGED outsideManager

\* StopUnit: an error, or a job done at once, when there is nothing to stop.
CallStop ==
    /\ mgrQ # <<>> /\ Head(mgrQ) = "stop" /\ ~called
    /\ \/ /\ unit \notin {"inactive", "failed"}
          /\ UnitBecomes("deactivating")
          /\ job' = "stop" /\ called' = TRUE
          /\ UNCHANGED <<mgrQ, result>>
       \/ /\ unit \in {"inactive", "failed"} \/ "dbus" \in Faults
          /\ \E r \in {"err"} \cup (IF unit \in {"inactive", "failed"}
                                    THEN {"done"} ELSE {}) : ManagerAnswer(r)
          /\ UNCHANGED <<unit, job, monitorVars>>
    /\ UNCHANGED outsideManager

\* JobRemoved reaches the waiting manager.
JobRemoved ==
    /\ called /\ job \in {"done", "failed", "canceled"}
    /\ ManagerAnswer(job)
    /\ job' = "none"
    /\ UNCHANGED <<unit, monitorVars, outsideManager>>

\* Bug: the JobRemoved signal is waited for without a timeout.
NoJobTimeout == FALSE

\* JOB_WAIT_TIMEOUT, or the signal came before the watch: the manager gives up,
\* systemd does not.
JobTimeout ==
    /\ called
    /\ ManagerAnswer("timeout")
    /\ job' = IF job \in {"start", "stop"} THEN job ELSE "none"
    /\ UNCHANGED <<unit, monitorVars, outsideManager>>

-----------------------------------------------------------------------------
(* systemd: the unit and its job, which nothing in the daemon holds back *)

outsideSystemd == <<outsideManager, mgrQ, called, result>>

\* A job that ends leaves its result for a manager that waits for it.
JobEnds(r) == job' = IF called THEN r ELSE "none"

UnitActivated ==
    /\ unit = "activating"
    /\ UnitBecomes("active")
    /\ IF job = "start" THEN JobEnds("done") ELSE UNCHANGED job
    /\ UNCHANGED outsideSystemd

\* The start fails: for good, or to be tried again (Restart=on-failure).
UnitStartFails ==
    /\ unit = "activating"
    /\ UnitBecomes("failed") \/ UnitBecomes("activating")
    /\ IF job = "start" THEN JobEnds("failed") ELSE UNCHANGED job
    /\ UNCHANGED outsideSystemd

\* The main process ends by itself; ExecStopPost runs.
UnitExits ==
    /\ unit = "active"
    /\ UnitBecomes("deactivating")
    /\ UNCHANGED <<job, outsideSystemd>>

\* Gone, failed, or restarted after a failure nobody asked for.
UnitStopped ==
    /\ unit = "deactivating"
    /\ \/ UnitBecomes("inactive") \/ UnitBecomes("failed")
       \/ job # "stop" /\ UnitBecomes("activating")
    /\ IF job = "stop" THEN JobEnds("done") ELSE UNCHANGED job
    /\ UNCHANGED outsideSystemd

\* Somebody else stops the unit, which cancels a start that is under way.
ExternalStop ==
    /\ "external" \in Faults
    /\ unit \in {"activating", "active"}
    /\ UnitBecomes("deactivating")
    /\ IF job = "start" THEN JobEnds("canceled") ELSE UNCHANGED job
    /\ UNCHANGED outsideSystemd

-----------------------------------------------------------------------------
(* From the monitor to the status receiver *)

outsideEvents == <<actorVars, cell, systemdVars, layers, netVars, torn>>

\* Bug: a full channel is not waited for (try_send), the state is dropped.
TryForwardEvent ==
    /\ monitor = "on" /\ dirty
    /\ dirty' = FALSE
    /\ events' = IF recvPc # "dead" /\ Len(events) < EventCap
                 THEN Append(events, unit) ELSE events
    /\ UNCHANGED <<monitor, askVars, clientVars, outsideEvents>>

\* The monitor reads the state the unit has now, and waits while the channel is
\* full.  Nothing is delivered to a receiver that has returned.
ForwardEvent ==
    /\ monitor = "on" /\ dirty
    /\ Len(events) < EventCap \/ recvPc = "dead"
    /\ dirty' = FALSE
    /\ events' = IF recvPc = "dead" THEN events ELSE Append(events, unit)
    /\ UNCHANGED <<monitor, askVars, clientVars, outsideEvents>>

\* The D-Bus stream ends or a property cannot be read.
MonitorDies ==
    /\ monitor = "on" /\ "monitor" \in Faults
    /\ monitor' = "dead" /\ dirty' = FALSE
    /\ UNCHANGED <<events, askVars, clientVars, outsideEvents>>

ReceiveEvent ==
    /\ recvPc = "recv" /\ events # <<>>
    /\ Ask("recv", StatusOf(Head(events)))
    /\ events' = Tail(events)
    /\ recvPc' = "asking"
    /\ UNCHANGED <<monitor, dirty, initPc, pmPc, held, outsideEvents>>

EventTransited ==
    /\ recvPc = "asking" /\ reply["recv"] # "err"
    /\ Answered("recv")
    /\ recvPc' = "recv"
    /\ UNCHANGED <<monitorVars, initPc, pmPc, held, outsideEvents>>

\* Bug: the receiver returns without a word.
ReceiverGivesUp ==
    /\ recvPc = "asking" /\ reply["recv"] = "err"
    /\ Answered("recv")
    /\ recvPc' = "dead"
    /\ UNCHANGED <<monitorVars, initPc, pmPc, held, outsideEvents>>

\* A transition failed or the channel closed: the loop is left, and the last
\* thing the receiver does is to ask for Error.
ReceiverFails ==
    /\ \/ recvPc = "asking" /\ reply["recv"] = "err"
       \/ recvPc = "recv" /\ events = <<>> /\ monitor = "dead"
    /\ Ask("recv", "Error")
    /\ recvPc' = "failing"
    /\ UNCHANGED <<monitorVars, initPc, pmPc, held, outsideEvents>>

ReceiverReturns ==
    /\ recvPc = "failing" /\ Answered("recv")
    /\ recvPc' = "dead"
    /\ UNCHANGED <<monitorVars, initPc, pmPc, held, outsideEvents>>

-----------------------------------------------------------------------------
(* initialize() and the package manager *)

outsideCallers == <<actorVars, recvPc, cell, monitorVars, systemdVars, layers,
                    netVars, torn>>

\* The task asks for the setup, whatever comes of it then for the start.
Initialize ==
    /\ \/ /\ initPc = "setup"
          /\ Ask("init", "SettingUp")
          /\ initPc' = "settingup"
       \/ /\ initPc = "settingup" /\ Answered("init")
          /\ initPc' = IF Autostart THEN "start" ELSE "done"
       \/ /\ initPc = "start"
          /\ Ask("init", "StartRequested")
          /\ initPc' = "starting"
       \/ /\ initPc = "starting" /\ Answered("init")
          /\ initPc' = "done"
    /\ UNCHANGED <<pmPc, held, outsideCallers>>

\* request_start, request_stop, prepare_upgrade, setup, cleanup.
PMRequest ==
    /\ pmPc = "idle" /\ held
    /\ \E op \in PMOps \ {"Teardown"} :
          /\ Ask("pm", op)
          /\ pmPc' = IF op = "Upgrading" THEN "leaving" ELSE "waiting"
    /\ UNCHANGED <<initPc, held, outsideCallers>>

\* Package::teardown: the status first ...
PMTeardown ==
    /\ pmPc = "idle" /\ held /\ "Teardown" \in PMOps
    /\ Ask("pm", "GetStatus")
    /\ pmPc' = "querying"
    /\ UNCHANGED <<initPc, held, outsideCallers>>

SkipsTeardown == {"Verified", "Cleaned", "Upgrading"}

\* ... and the teardown only if that status may have something mounted.
PMStatusSeen ==
    /\ pmPc = "querying" /\ reply["pm"] # "none"
    /\ IF reply["pm"] \in SkipsTeardown
       THEN /\ Answered("pm")
            /\ pmPc' = "idle" /\ held' = FALSE
       ELSE /\ Ask("pm", "Teardown")
            /\ pmPc' = "leaving"
            /\ UNCHANGED held
    /\ UNCHANGED <<initPc, outsideCallers>>

\* A package that was torn down, or is to be replaced, leaves the store.
PMAnswered ==
    /\ pmPc \in {"waiting", "leaving"} /\ Answered("pm")
    /\ pmPc' = "idle"
    /\ held' = (pmPc = "waiting" \/ reply["pm"] = "err")
    /\ UNCHANGED <<initPc, outsideCallers>>

-----------------------------------------------------------------------------

Actor ==
    \/ Receive
    \/ InitExecutor \/ MountFs \/ PrepareBundle \/ ConnectNetwork \/ JoinSetup
    \/ ReleaseNetwork \/ UnmountFs
    \/ ExecutorFails \/ StartUnit \/ StopUnit \/ ResetDone \/ JobDone
    \/ TeardownStop \/ TeardownReset \/ TeardownRelease

Manager == CallReset \/ CallStart \/ CallStop \/ JobRemoved \/ JobTimeout

Systemd == UnitActivated \/ UnitStartFails \/ UnitExits \/ UnitStopped
               \/ ExternalStop

Receiver == ReceiveEvent \/ EventTransited \/ ReceiverFails \/ ReceiverReturns

PackageManager == PMRequest \/ PMTeardown \/ PMStatusSeen \/ PMAnswered

Next == Actor \/ Manager \/ Systemd \/ ForwardEvent \/ MonitorDies \/ Receiver
            \/ Initialize \/ PackageManager

Spec == Init /\ [][Next]_vars

\* systemd replies to the method call at the head of the manager's mailbox.
MethodReply == CallReset \/ CallStart \/ CallStop

\* The runtime polls every task that is ready: each actor and task goes on.
TasksGoOn ==
    /\ WF_vars(Actor) /\ WF_vars(Receiver)
    /\ WF_vars(ForwardEvent) /\ WF_vars(Initialize)
    /\ WF_vars(PMStatusSeen \/ PMAnswered)

\* The wait for a job ends, by its signal or by the timer.
JobWaitEnds == WF_vars(JobRemoved \/ JobTimeout)

\* What the code relies on: it awaits the reply to a method call without any
\* limit, so D-Bus has to deliver one, be it an error.  The same goes for the
\* calls inside a handler (the state reads of the executor, the mounts and the
\* network), which are steps of Actor.
RepliesCome == WF_vars(MethodReply)

\* Nothing is assumed of the units, of their jobs and of who calls the package.
Fairness == TasksGoOn /\ JobWaitEnds /\ RepliesCome

FairSpec == Spec /\ Fairness

-----------------------------------------------------------------------------
(* Safety *)

\* A transient status is never seen by a message: it is left before the handler
\* that set it returns.
TransientHidden == pc = "idle" => status \notin Transient

\* A package that answers Ready or Running has all that its container needs:
\* every layer, the executor with its monitor, and its network.  A Teardown that
\* failed half-way is the one exception: it does not change the status.
LiveHasResources ==
    pc = "idle" /\ status \in Live /\ ~torn =>
        /\ layers = FullStack(Overlay)
        /\ cell = "set"
        /\ Bridge => netns /\ attached

\* No request to the systemd manager outlives the handler that sent it: a stop
\* that teardown() stopped waiting for is over before the package is replaced,
\* and cannot stop the unit the new version starts under the same name.
NoAbandonedJob == pc = "idle" => mgrQ = <<>> /\ ~called

\* Once the status receiver has returned, nothing keeps the status current any
\* more, so the status is Error and no request can take it back to Live.
DeadReceiverMeansError == recvPc = "dead" => status = "Error"

\* With nothing in flight the status tells the state of the unit.
AtRest ==
    /\ pc = "idle" /\ mailbox = <<>> /\ events = <<>> /\ ~dirty
    /\ monitor = "on" /\ recvPc = "recv"

StatusTellsUnit == AtRest /\ status \in Live => status = StatusOf(unit)

\* Package::teardown relies on this when it skips the teardown: "Nothing to tear
\* down - these states have no mounted filesystem."
SkippedIsUnmounted == pc = "idle" /\ status \in SkipsTeardown => layers = 0

-----------------------------------------------------------------------------
(* Refinement *)

Service == INSTANCE PackageService
    WITH busy    <- IF pc = "idle" THEN "none" ELSE request,
         mounted <- layers > 0

\* The actor and its tasks do what a package promises: a handler that is between
\* two awaits has begun a request the table allows, and whatever fails in it, it
\* ends as that request may end; nothing else mounts or unmounts.
ImplementsService == Service!Spec

-----------------------------------------------------------------------------
(* Liveness *)

\* No sender waits for ever: whatever the calls of a handler return, and though
\* systemd may never end the job of a unit, the handler returns.  A method call
\* that is never replied to would hold the manager, and with it every package:
\* RepliesCome assumes that away.
AsksAnswered == \A c \in Clients : (msg[c] # "none") ~> (msg[c] = "none")

\* However many stale states are still in the channel when the unit settles, the
\* status of a live package settles on the state of the unit.
StatusConverges ==
    \A u \in UnitStates :
        <>[](unit = u) => <>[](status \in Live => status = StatusOf(u))
=============================================================================
