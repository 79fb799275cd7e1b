----------------------- MODULE PackageLifecycleProofs -----------------------
(***************************************************************************)
(* What holds of PackageLifecycle for every value of its constants.        *)
(***************************************************************************)
EXTENDS PackageLifecycle, TLAPS

-----------------------------------------------------------------------------
(* The inductive invariant, one part per mechanism *)

\* A sender has at most one message in the mailbox, and no answer before its
\* message has left it.
BoxInv ==
    /\ \A i \in 1..Len(mailbox) : msg[mailbox[i]] # "none"
    /\ \A i, j \in 1..Len(mailbox) : mailbox[i] = mailbox[j] => i = j
    /\ \A c \in Clients : reply[c] # "none" => msg[c] = "none"

MailboxInv ==
    /\ BoxInv
    /\ initPc \in {"setup", "start", "done"} => msg["init"] = "none"
    /\ recvPc \in {"recv", "dead"} => msg["recv"] = "none"
    /\ pmPc = "idle" => msg["pm"] = "none"
    /\ pc # "idle" => mailbox # <<>>

\* Where the handler may be for the request it serves, and the status meanwhile.
HandlerInv ==
    /\ pc = "setup" => request = "SettingUp"
    /\ pc = "start" => request = "StartRequested"
    /\ pc = "stop" => request = "StopRequested"
    /\ pc \in {"reset", "job"} => request \in {"StartRequested", "StopRequested"}
    /\ pc \in {"tdstop", "tdwait", "tdreset"} => request \in {"Upgrading", "Teardown"}
    /\ pc \in {"net", "unmount"} =>
           request \in {"SettingUp", "CleaningUp", "Upgrading", "Teardown"}
    /\ pc # "idle" /\ request # "Teardown" => status = request
    /\ pc # "idle" /\ request = "Teardown" => torn /\ status \notin Transient
    /\ TransientHidden

\* The systemd manager works only while the handler waits for its last answer.
ManagerInv ==
    /\ mgrQ # <<>> => /\ pc \in {"reset", "job", "tdwait", "tdreset"}
                      /\ result = "none"
    /\ called => mgrQ # <<>>

\* Who sends what, and that Error is what the receiver leaves behind.
ReceiverInv ==
    /\ msg["init"] \in {"none", "SettingUp", "StartRequested"}
    /\ msg["pm"] \in Operations \cup {"none", "GetStatus"}
    /\ msg["recv"] \in Live \cup {"none", "Error"}
    /\ recvPc = "failing" => msg["recv"] \in {"none", "Error"}
    /\ recvPc = "failing" /\ msg["recv"] = "none" => status = "Error"
    /\ DeadReceiverMeansError

\* What is mounted and attached, by status.
Provisioned ==
    /\ layers = FullStack(Overlay)
    /\ cell = "set"
    /\ Bridge => netns /\ attached

ResourceInv ==
    /\ layers <= FullStack(Overlay)
    /\ status \in Live \cup {"StartRequested", "StopRequested"} /\ ~torn => Provisioned
    /\ pc = "setup" =>
           /\ task["exec"] = "ok" => cell = "set"
           /\ task["mount"] = "run" => layers = 0
           /\ task["mount"] = "ok" => layers = FullStack(Overlay)
           /\ task["net"] = "ok" /\ Bridge => netns /\ attached
    /\ status \in SkipsTeardown /\ (pc = "idle" \/ request = "Teardown") => layers = 0

-----------------------------------------------------------------------------
(* Types *)

LEMMA AskTyped ==
    ASSUME TypeOK, NEW c \in Clients, NEW m \in Messages, Ask(c, m)
    PROVE  mailbox' \in Seq(Clients) /\ msg' \in [Clients -> Messages]
               /\ reply' \in [Clients -> Replies]
BY DEF TypeOK, Ask, Replies

LEMMA AnsweredTyped ==
    ASSUME TypeOK, NEW c \in Clients, Answered(c)
    PROVE  mailbox' \in Seq(Clients) /\ msg' \in [Clients -> Messages]
               /\ reply' \in [Clients -> Replies]
BY DEF TypeOK, Answered, Replies

LEMMA AnswerTyped ==
    ASSUME TypeOK, mailbox # <<>>, NEW r \in Replies, Answer(r)
    PROVE  mailbox' \in Seq(Clients) /\ msg' \in [Clients -> Messages]
               /\ reply' \in [Clients -> Replies] /\ pc' = "idle"
BY DEF TypeOK, Answer, Messages

LEMMA AskManagerTyped ==
    ASSUME TypeOK, NEW op \in ManagerOps, NEW p, AskManager(op, p)
    PROVE  /\ mgrQ' \in Seq(ManagerOps) /\ result' = "none" /\ pc' = p
           /\ unit' \in UnitStates /\ called' \in BOOLEAN
           /\ job' = job
<1>1. mgrQ \in Seq(ManagerOps) /\ unit \in UnitStates /\ called \in BOOLEAN
    BY DEF TypeOK
<1> QED
    BY <1>1 DEF AskManager

LEMMA AppendTyped ==
    ASSUME NEW S, NEW q \in Seq(S), NEW e \in S
    PROVE  Append(q, e) \in Seq(S)
    OBVIOUS

\* Mounting and unmounting never make more layers than there can be.
LEMMA UnmountTyped ==
    ASSUME NEW n \in Layers, NEW overlay, NEW mayFail,
           NEW r \in Unmount(n, overlay, mayFail)
    PROVE  r.ok \in BOOLEAN /\ r.layers \in Layers
BY DEF Unmount, Results

LEMMA MountTyped ==
    ASSUME NEW n \in Layers, NEW overlay, NEW f, NEW g,
           NEW r \in MountWithRetry(n, overlay, f, g)
    PROVE  r.ok \in BOOLEAN /\ r.layers \in Layers
BY DEF MountWithRetry, Results

LEMMA TypeInit == Init => TypeOK
<1> SUFFICES ASSUME Init PROVE TypeOK
    OBVIOUS
<1>1. unit \in UnitStates /\ layers \in Layers
    BY ConstantsOK DEF Init, ConstantsOK
<1>2. task \in [Tasks -> {"off", "run", "ok", "err"}]
    BY DEF Init
<1>3. msg \in [Clients -> Messages] /\ reply \in [Clients -> Replies]
    BY DEF Init, Messages, Replies
<1>4. status \in Statuses
    BY DEF Init, Statuses
<1>5. mailbox \in Seq(Clients) /\ events \in Seq(UnitStates) /\ mgrQ \in Seq(ManagerOps)
    BY DEF Init
<1>6. /\ held \in BOOLEAN /\ dirty \in BOOLEAN /\ called \in BOOLEAN
      /\ netns \in BOOLEAN /\ attached \in BOOLEAN /\ torn \in BOOLEAN
    BY DEF Init
<1> QED
    BY <1>1, <1>2, <1>3, <1>4, <1>5, <1>6 DEF Init, TypeOK

\* What an action that only queues a message, or only takes an answer, leaves.
AskTypes ==
    /\ mailbox \in Seq(Clients)
    /\ msg \in [Clients -> Messages]
    /\ reply \in [Clients -> Replies]

LEMMA TypeActor ==
    ASSUME TypeOK, MailboxInv, Actor
    PROVE  TypeOK'
<1>n. pc # "idle" => mailbox # <<>>
    BY DEF MailboxInv
<1>r. "ok" \in Replies /\ "err" \in Replies
    BY DEF Replies
<1>m. {"reset", "start", "stop"} \subseteq ManagerOps
    BY DEF ManagerOps
<1>1. CASE Receive
  <2> mailbox # <<>>
      BY <1>1 DEF Receive
  <2>1. CASE GetStatus
    <3>1. status \in Replies
        BY DEF TypeOK, Replies
    <3> QED
        BY <1>1, <2>1, <3>1, AnswerTyped DEF Receive, GetStatus, TypeOK,
           monitorVars, systemdVars, netVars
  <2>2. CASE Teardown
      BY <1>1, <2>2 DEF Receive, Teardown, TypeOK, askVars, monitorVars,
         systemdVars, netVars
  <2>3. CASE Refuse
      BY <1>1, <2>3, <1>r, AnswerTyped DEF Receive, Refuse, TypeOK,
         monitorVars, systemdVars, netVars
  <2>4. CASE Transition
    <3>1. status' \in Statuses
        BY <2>4 DEF Transition, Finish
    <3>2. task' \in [Tasks -> {"off", "run", "ok", "err"}]
        BY <2>4 DEF Transition, TypeOK
    <3>3. AskTypes' /\ pc' \in {"idle", "setup", "start", "stop", "tdstop", "net"}
        BY <2>4, <1>r, AnswerTyped DEF Transition, Finish, TypeOK, AskTypes, askVars
    <3> QED
        BY <1>1, <2>4, <3>1, <3>2, <3>3 DEF Receive, Transition, TypeOK,
           AskTypes, monitorVars, systemdVars, netVars
  <2> QED
      BY <1>1, <2>1, <2>2, <2>3, <2>4 DEF Receive
<1>2. CASE InitExecutor
  <2>1. /\ events' \in Seq(UnitStates) /\ monitor' \in {"off", "on", "dead"}
        /\ cell' \in {"unset", "set", "failed"} /\ dirty' \in BOOLEAN
    <3>1. CASE UNCHANGED <<cell, monitorVars>>
        BY <3>1 DEF TypeOK, monitorVars
    <3>2. CASE cell' = "failed" /\ monitor' = "dead" /\ UNCHANGED <<dirty, events>>
        BY <3>2 DEF TypeOK
    <3>3. CASE /\ cell' = "set" /\ monitor' = "on" /\ dirty' = FALSE
               /\ events' = IF unit = "inactive" THEN events ELSE Append(events, unit)
      <4>1. events \in Seq(UnitStates) /\ unit \in UnitStates
          BY DEF TypeOK
      <4>2. events' \in Seq(UnitStates)
          BY <3>3, <4>1, AppendTyped
      <4> QED
          BY <3>3, <4>2
    <3> QED
        BY <1>2, <3>1, <3>2, <3>3 DEF InitExecutor
  <2>2. task' \in [Tasks -> {"off", "run", "ok", "err"}]
      BY <1>2 DEF InitExecutor, TaskEnds, TypeOK
  <2>3. UNCHANGED <<status, pc, askVars, clientVars, systemdVars, torn, layers, netVars>>
      BY <1>2 DEF InitExecutor, TaskEnds
  <2> QED
      BY <2>1, <2>2, <2>3 DEF TypeOK, askVars, clientVars, systemdVars, netVars
<1>3. CASE MountFs
  <2>1. layers' \in Layers
      BY <1>3, MountTyped DEF MountFs, TypeOK
  <2>2. task' \in [Tasks -> {"off", "run", "ok", "err"}]
      BY <1>3 DEF MountFs, TaskEnds, TypeOK
  <2> QED
      BY <1>3, <2>1, <2>2 DEF MountFs, TaskEnds, TypeOK, askVars,
         clientVars, monitorVars, systemdVars, netVars
<1>4. CASE PrepareBundle
  <2>1. task' \in [Tasks -> {"off", "run", "ok", "err"}]
      BY <1>4 DEF PrepareBundle, TaskEnds, TypeOK
  <2>2. UNCHANGED <<status, pc, askVars, clientVars, systemdVars, torn, cell,
                    monitorVars, layers, netVars>>
      BY <1>4 DEF PrepareBundle, TaskEnds
  <2> QED
      BY <2>1, <2>2 DEF TypeOK, askVars, clientVars, monitorVars, systemdVars, netVars
<1>5. CASE ConnectNetwork
  <2>1. netns' \in BOOLEAN /\ attached' \in BOOLEAN
      BY <1>5 DEF ConnectNetwork, TypeOK, netVars
  <2>2. task' \in [Tasks -> {"off", "run", "ok", "err"}]
      BY <1>5 DEF ConnectNetwork, TaskEnds, TypeOK
  <2>3. UNCHANGED <<status, pc, askVars, clientVars, systemdVars, torn, cell,
                    monitorVars, layers>>
      BY <1>5 DEF ConnectNetwork, TaskEnds
  <2> QED
      BY <2>1, <2>2, <2>3 DEF TypeOK, askVars, clientVars, monitorVars, systemdVars
<1>6. CASE JoinSetup
    BY <1>6, <1>n, <1>r, AnswerTyped DEF JoinSetup, Finish, TypeOK, Statuses,
       askVars, clientVars, monitorVars, systemdVars, netVars
<1>7. CASE ReleaseNetwork
  <2>1. netns' \in BOOLEAN /\ attached' \in BOOLEAN
      BY <1>7 DEF ReleaseNetwork, TypeOK
  <2> QED
      BY <1>7, <2>1 DEF ReleaseNetwork, TypeOK, askVars, clientVars,
         monitorVars, systemdVars
<1>8. CASE UnmountFs
  <2>1. layers' \in Layers
      BY <1>8, UnmountTyped DEF UnmountFs, TypeOK
  <2>2. AskTypes' /\ pc' = "idle"
      BY <1>8, <1>n, <1>r, AnswerTyped DEF UnmountFs, Finish, AskTypes
  <2>3. status' \in Statuses
      BY <1>8 DEF UnmountFs, Finish, Statuses, TypeOK
  <2> QED
      BY <1>8, <2>1, <2>2, <2>3 DEF UnmountFs, TypeOK, AskTypes, clientVars,
         monitorVars, systemdVars, netVars
<1>9. CASE ExecutorFails
    BY <1>9, <1>n, <1>r, AnswerTyped DEF ExecutorFails, Finish, TypeOK, Statuses,
       outsideActor, clientVars, monitorVars, systemdVars, netVars
<1>10. CASE StartUnit
  <2>1. status' \in Statuses /\ AskTypes'
      BY <1>10, <1>n, <1>r, AnswerTyped DEF StartUnit, Finish, TypeOK, AskTypes,
         Statuses, UnitStates, askVars
  <2>2. /\ unit' \in UnitStates /\ job' = job /\ mgrQ' \in Seq(ManagerOps)
        /\ called' \in BOOLEAN /\ result' \in {"none", result}
        /\ pc' \in {"idle", "job", "reset"}
    <3>1. CASE \E op \in {"start", "reset"}, p \in {"job", "reset"} : AskManager(op, p)
        BY <3>1, <1>m, AskManagerTyped
    <3>2. CASE Finish(unit) /\ UNCHANGED systemdVars
        BY <3>2 DEF Finish, Answer, TypeOK, systemdVars
    <3> QED
        BY <1>10, <3>1, <3>2 DEF StartUnit
  <2> QED
      BY <1>10, <2>1, <2>2 DEF StartUnit, TypeOK, AskTypes, outsideActor,
         clientVars, monitorVars, netVars
<1>11. CASE StopUnit
    BY <1>11, <1>m, AskManagerTyped DEF StopUnit, TypeOK, askVars,
       outsideActor, clientVars, monitorVars, netVars
<1>12. CASE ResetDone
  <2>1. status' \in Statuses /\ AskTypes' /\ pc' \in {"idle", "job"}
      BY <1>12, <1>n, <1>r, AnswerTyped DEF ResetDone, AskManager, Finish, TypeOK,
         AskTypes, Statuses, askVars
  <2>2. mgrQ' \in Seq(ManagerOps) /\ result' = "none" /\ UNCHANGED <<unit, job, called>>
      BY <1>12, <1>m, AskManagerTyped DEF ResetDone, AskManager, TypeOK
  <2> QED
      BY <1>12, <2>1, <2>2 DEF ResetDone, TypeOK, AskTypes, outsideActor,
         clientVars, monitorVars, netVars
<1>13. CASE JobDone
  <2>1. MapJobResult(result, unit) \in Statuses
      BY DEF MapJobResult, StatusOf, Statuses, TypeOK, UnitStates
  <2> QED
      BY <1>13, <1>n, <1>r, <2>1, AnswerTyped DEF JobDone, Finish, TypeOK,
         Statuses, outsideActor, clientVars, monitorVars, netVars
<1>14. CASE TeardownStop
    BY <1>14, <1>m, AskManagerTyped DEF TeardownStop, TypeOK, askVars,
       outsideActor, clientVars, monitorVars, netVars
<1>15. CASE TeardownReset
    BY <1>15, <1>m, AskManagerTyped DEF TeardownReset, TypeOK, askVars,
       outsideActor, clientVars, monitorVars, netVars
<1>16. CASE TeardownRelease
    BY <1>16 DEF TeardownRelease, TypeOK, askVars, outsideActor, clientVars,
       monitorVars, netVars
<1> QED
    BY <1>1, <1>2, <1>3, <1>4, <1>5, <1>6, <1>7, <1>8, <1>9, <1>10, <1>11,
       <1>12, <1>13, <1>14, <1>15, <1>16 DEF Actor

\* The parts a step of the systemd manager or of systemd touches.
SystemdTypes ==
    /\ unit \in UnitStates
    /\ job \in {"none", "start", "stop", "done", "failed", "canceled"}
    /\ mgrQ \in Seq(ManagerOps)
    /\ called \in BOOLEAN
    /\ result \in {"none", "ok", "err", "done", "failed", "canceled", "timeout"}

LEMMA UnitBecomesTyped ==
    ASSUME TypeOK, NEW u \in UnitStates, UnitBecomes(u)
    PROVE  unit' \in UnitStates /\ dirty' \in BOOLEAN /\ UNCHANGED <<monitor, events>>
<1>1. unit' \in UnitStates
    BY DEF UnitBecomes
<1>2. dirty' \in BOOLEAN
    BY DEF UnitBecomes, TypeOK
<1> QED
    BY <1>1, <1>2 DEF UnitBecomes

LEMMA ManagerAnswerTyped ==
    ASSUME TypeOK, mgrQ # <<>>, ManagerAnswer("ok") \/ ManagerAnswer("err")
               \/ ManagerAnswer("done") \/ ManagerAnswer("failed")
               \/ ManagerAnswer("canceled") \/ ManagerAnswer("timeout")
    PROVE  /\ mgrQ' \in Seq(ManagerOps) /\ called' \in BOOLEAN
           /\ result' \in {"none", "ok", "err", "done", "failed", "canceled", "timeout"}
<1>1. mgrQ' \in Seq(ManagerOps)
  <2>1. mgrQ \in Seq(ManagerOps)
      BY DEF TypeOK
  <2>2. mgrQ' = Tail(mgrQ)
      BY DEF ManagerAnswer
  <2> QED
      BY <2>1, <2>2
<1>2. called' \in BOOLEAN
    BY DEF ManagerAnswer
<1>3. result' \in {"none", "ok", "err", "done", "failed", "canceled", "timeout"}
    BY DEF ManagerAnswer, TypeOK
<1> QED
    BY <1>1, <1>2, <1>3

LEMMA TypeManager ==
    ASSUME TypeOK, ManagerInv, Manager
    PROVE  TypeOK'
<1>u. \A u \in {"inactive", "activating", "active", "deactivating", "failed"} :
          u \in UnitStates
    BY DEF UnitStates, RunStates
<1>f. UNCHANGED outsideManager
    BY DEF Manager, CallReset, CallStart, CallStop, JobRemoved, JobTimeout
<1>1. CASE CallReset
  <2>1. SystemdTypes' /\ dirty' \in BOOLEAN /\ UNCHANGED <<monitor, events>>
    <3>1. unit' \in UnitStates /\ dirty' \in BOOLEAN /\ UNCHANGED <<monitor, events>>
        BY <1>1, <1>u, UnitBecomesTyped DEF CallReset, TypeOK, monitorVars
    <3>2. /\ mgrQ' \in Seq(ManagerOps) /\ called' \in BOOLEAN
          /\ result' \in {"none", "ok", "err", "done", "failed", "canceled", "timeout"}
        BY <1>1, ManagerAnswerTyped DEF CallReset
    <3>3. job' = job
        BY <1>1 DEF CallReset
    <3> QED
        BY <3>1, <3>2, <3>3 DEF SystemdTypes, TypeOK
  <2> QED
      BY <1>f, <2>1 DEF SystemdTypes, TypeOK, outsideManager, actorVars, askVars,
         clientVars, netVars
<1>2. CASE CallStart
  <2>1. SystemdTypes' /\ dirty' \in BOOLEAN /\ UNCHANGED <<monitor, events>>
    <3>1. unit' \in UnitStates /\ dirty' \in BOOLEAN /\ UNCHANGED <<monitor, events>>
        BY <1>2, <1>u, UnitBecomesTyped DEF CallStart, TypeOK, monitorVars
    <3>2. /\ mgrQ' \in Seq(ManagerOps) /\ called' \in BOOLEAN
          /\ result' \in {"none", "ok", "err", "done", "failed", "canceled", "timeout"}
        BY <1>2, ManagerAnswerTyped DEF CallStart, TypeOK
    <3>3. job' \in {job, "start"}
        BY <1>2 DEF CallStart
    <3> QED
        BY <3>1, <3>2, <3>3 DEF SystemdTypes, TypeOK
  <2> QED
      BY <1>f, <2>1 DEF SystemdTypes, TypeOK, outsideManager, actorVars, askVars,
         clientVars, netVars
<1>3. CASE CallStop
  <2>1. SystemdTypes' /\ dirty' \in BOOLEAN /\ UNCHANGED <<monitor, events>>
    <3>1. unit' \in UnitStates /\ dirty' \in BOOLEAN /\ UNCHANGED <<monitor, events>>
        BY <1>3, <1>u, UnitBecomesTyped DEF CallStop, TypeOK, monitorVars
    <3>2. /\ mgrQ' \in Seq(ManagerOps) /\ called' \in BOOLEAN
          /\ result' \in {"none", "ok", "err", "done", "failed", "canceled", "timeout"}
        BY <1>3, ManagerAnswerTyped DEF CallStop, TypeOK
    <3>3. job' \in {job, "stop"}
        BY <1>3 DEF CallStop
    <3> QED
        BY <3>1, <3>2, <3>3 DEF SystemdTypes, TypeOK
  <2> QED
      BY <1>f, <2>1 DEF SystemdTypes, TypeOK, outsideManager, actorVars, askVars,
         clientVars, netVars
<1>4. CASE JobRemoved \/ JobTimeout
  <2>1. SystemdTypes' /\ UNCHANGED monitorVars
    <3>1. mgrQ # <<>>
        BY <1>4 DEF JobRemoved, JobTimeout, ManagerInv
    <3>2. /\ mgrQ' \in Seq(ManagerOps) /\ called' \in BOOLEAN
          /\ result' \in {"none", "ok", "err", "done", "failed", "canceled", "timeout"}
        BY <1>4, <3>1, ManagerAnswerTyped DEF JobRemoved, JobTimeout
    <3>3. job' \in {job, "none"} /\ unit' = unit
        BY <1>4 DEF JobRemoved, JobTimeout
    <3> QED
        BY <1>4, <3>2, <3>3 DEF JobRemoved, JobTimeout, SystemdTypes, TypeOK
  <2> QED
      BY <1>f, <2>1 DEF SystemdTypes, TypeOK, outsideManager, actorVars, askVars,
         clientVars, netVars, monitorVars
<1> QED
    BY <1>1, <1>2, <1>3, <1>4 DEF Manager

LEMMA TypeSystemd ==
    ASSUME TypeOK, Systemd
    PROVE  TypeOK'
<1>u. \A u \in {"inactive", "activating", "active", "deactivating", "failed"} :
          u \in UnitStates
    BY DEF UnitStates, RunStates
<1>1. unit' \in UnitStates /\ dirty' \in BOOLEAN /\ UNCHANGED <<monitor, events>>
    BY <1>u, UnitBecomesTyped DEF Systemd, UnitActivated, UnitStartFails,
       UnitExits, UnitStopped, ExternalStop
<1>2. job' \in {job, "none", "done", "failed", "canceled"}
    BY DEF Systemd, UnitActivated, UnitStartFails, UnitExits, UnitStopped,
       ExternalStop, JobEnds
<1>3. UNCHANGED outsideSystemd
    BY DEF Systemd, UnitActivated, UnitStartFails, UnitExits, UnitStopped,
       ExternalStop
<1> QED
    BY <1>1, <1>2, <1>3 DEF TypeOK, outsideSystemd, outsideManager, actorVars,
       askVars, clientVars, netVars

LEMMA TypeEvents ==
    ASSUME TypeOK, ForwardEvent \/ MonitorDies \/ Receiver
    PROVE  TypeOK'
<1>1. CASE ForwardEvent
  <2>1. events' \in Seq(UnitStates)
      BY <1>1, AppendTyped DEF ForwardEvent, TypeOK
  <2>2. dirty' \in BOOLEAN
      BY <1>1 DEF ForwardEvent
  <2>3. UNCHANGED <<monitor, askVars, clientVars, outsideEvents>>
      BY <1>1 DEF ForwardEvent
  <2> QED
      BY <2>1, <2>2, <2>3 DEF TypeOK, outsideEvents, actorVars, askVars,
         clientVars, systemdVars, netVars
<1>2. CASE MonitorDies
  <2>1. monitor' = "dead" /\ dirty' \in BOOLEAN
      BY <1>2 DEF MonitorDies
  <2>2. UNCHANGED <<events, askVars, clientVars, outsideEvents>>
      BY <1>2 DEF MonitorDies
  <2> QED
      BY <2>1, <2>2 DEF TypeOK, outsideEvents, actorVars, askVars,
         clientVars, systemdVars, netVars
<1>3. CASE ReceiveEvent
  <2>1. StatusOf(Head(events)) \in Messages /\ events' \in Seq(UnitStates)
      BY <1>3 DEF ReceiveEvent, TypeOK, StatusOf, Messages, Statuses, UnitStates
  <2>2. AskTypes'
      BY <1>3, <2>1, AskTyped DEF ReceiveEvent, AskTypes, Clients
  <2> QED
      BY <1>3, <2>1, <2>2 DEF ReceiveEvent, TypeOK, AskTypes, outsideEvents,
         actorVars, systemdVars, netVars
<1>4. CASE EventTransited
  <2>1. AskTypes'
      BY <1>4, AnsweredTyped DEF EventTransited, AskTypes, Clients
  <2> QED
      BY <1>4, <2>1 DEF EventTransited, TypeOK, AskTypes, outsideEvents,
         actorVars, systemdVars, netVars, monitorVars
<1>5. CASE ReceiverFails
  <2>1. AskTypes'
      BY <1>5, AskTyped DEF ReceiverFails, AskTypes, Clients, Messages, Statuses
  <2> QED
      BY <1>5, <2>1 DEF ReceiverFails, TypeOK, AskTypes, outsideEvents,
         actorVars, systemdVars, netVars, monitorVars
<1>6. CASE ReceiverReturns
  <2>1. AskTypes'
      BY <1>6, AnsweredTyped DEF ReceiverReturns, AskTypes, Clients
  <2> QED
      BY <1>6, <2>1 DEF ReceiverReturns, TypeOK, AskTypes, outsideEvents,
         actorVars, systemdVars, netVars, monitorVars
<1> QED
    BY <1>1, <1>2, <1>3, <1>4, <1>5, <1>6 DEF Receiver

LEMMA TypeCallers ==
    ASSUME TypeOK, Initialize \/ PackageManager
    PROVE  TypeOK'
<1>m. Operations \cup {"GetStatus"} \subseteq Messages
    BY DEF Operations, Messages, Statuses
<1>f. UNCHANGED outsideCallers
    BY DEF Initialize, PackageManager, PMRequest, PMTeardown, PMStatusSeen, PMAnswered
<1>1. CASE Initialize
  <2>1. AskTypes'
      BY <1>1, <1>m, AskTyped, AnsweredTyped DEF Initialize, AskTypes, Clients,
         Operations
  <2>2. initPc' \in {"setup", "settingup", "start", "starting", "done"}
      BY <1>1 DEF Initialize
  <2> QED
      BY <1>1, <1>f, <2>1, <2>2 DEF Initialize, TypeOK, AskTypes, outsideCallers,
         actorVars, systemdVars, netVars, monitorVars
<1>2. CASE PackageManager
  <2>1. AskTypes'
    <3>1. CASE \E m \in Operations \cup {"GetStatus"} : Ask("pm", m)
        BY <3>1, <1>m, AskTyped DEF AskTypes, Clients
    <3>2. CASE Answered("pm")
        BY <3>2, AnsweredTyped DEF AskTypes, Clients
    <3> QED
        BY <1>2, <3>1, <3>2, ConstantsOK DEF PackageManager, PMRequest, PMTeardown,
           PMStatusSeen, PMAnswered, ConstantsOK, Operations
  <2>2. pmPc' \in {"idle", "querying", "waiting", "leaving"} /\ initPc' = initPc
      BY <1>2 DEF PackageManager, PMRequest, PMTeardown, PMStatusSeen, PMAnswered
  <2>3. held' \in BOOLEAN
      BY <1>2 DEF PackageManager, PMRequest, PMTeardown, PMStatusSeen, PMAnswered,
         TypeOK
  <2> QED
      BY <1>f, <2>1, <2>2, <2>3 DEF TypeOK, AskTypes, outsideCallers,
         actorVars, systemdVars, netVars, monitorVars
<1> QED
    BY <1>1, <1>2

LEMMA TypeStep ==
    ASSUME TypeOK, MailboxInv, ManagerInv, [Next]_vars
    PROVE  TypeOK'
<1>1. CASE UNCHANGED vars
    BY <1>1 DEF TypeOK, vars, actorVars, askVars, clientVars, monitorVars,
       systemdVars, netVars
<1> QED
    BY <1>1, TypeActor, TypeManager, TypeSystemd, TypeEvents, TypeCallers DEF Next

-----------------------------------------------------------------------------
(* The mailbox *)

LEMMA AskQueues ==
    ASSUME TypeOK, BoxInv, NEW c \in Clients, msg[c] = "none",
           NEW m \in Messages, m # "none", Ask(c, m)
    PROVE  /\ BoxInv' /\ mailbox' # <<>>
           /\ msg'[c] = m /\ \A d \in Clients \ {c} : msg'[d] = msg[d]
           /\ mailbox # <<>> => request' = request
<1>1. /\ mailbox \in Seq(Clients) /\ msg \in [Clients -> Messages]
      /\ reply \in [Clients -> Replies]
    BY DEF TypeOK
<1>2. /\ mailbox' = Append(mailbox, c) /\ msg' = [msg EXCEPT ![c] = m]
      /\ reply' = [reply EXCEPT ![c] = "none"]
    BY DEF Ask
<1>3. msg'[c] = m /\ \A d \in Clients \ {c} : msg'[d] = msg[d]
    BY <1>1, <1>2
<1>4. /\ Len(mailbox') = Len(mailbox) + 1 /\ mailbox'[Len(mailbox) + 1] = c
      /\ Len(mailbox) \in Nat
      /\ \A i \in 1..Len(mailbox) :
             mailbox'[i] = mailbox[i] /\ mailbox[i] \in Clients \ {c}
    BY <1>1, <1>2 DEF BoxInv
<1>5. BoxInv'
  <2>1. \A i \in 1..Len(mailbox') : msg'[mailbox'[i]] # "none"
      BY <1>3, <1>4 DEF BoxInv
  <2>2. \A i, j \in 1..Len(mailbox') : mailbox'[i] = mailbox'[j] => i = j
      BY <1>4 DEF BoxInv
  <2>3. \A d \in Clients : reply'[d] # "none" => msg'[d] = "none"
      BY <1>1, <1>2, <1>3 DEF BoxInv
  <2> QED
      BY <2>1, <2>2, <2>3 DEF BoxInv
<1>6. ASSUME mailbox # <<>> PROVE request' = request
  <2>1. 1 \in 1..Len(mailbox) /\ Head(mailbox) = mailbox[1]
      BY <1>1, <1>6
  <2>2. Head(mailbox') = mailbox'[1]
      BY <1>1, <1>2
  <2> QED
      BY <1>3, <1>4, <2>1, <2>2 DEF request
<1>7. mailbox' # <<>>
    BY <1>1, <1>2
<1> QED
    BY <1>3, <1>5, <1>6, <1>7

LEMMA AnsweredTakes ==
    ASSUME TypeOK, BoxInv, NEW c \in Clients, Answered(c)
    PROVE  BoxInv' /\ mailbox' = mailbox /\ msg' = msg /\ request' = request
               /\ msg[c] = "none"
BY DEF TypeOK, BoxInv, Answered, request

LEMMA AnswerPops ==
    ASSUME TypeOK, BoxInv, mailbox # <<>>, NEW r \in Replies, Answer(r)
    PROVE  /\ BoxInv' /\ Head(mailbox) \in Clients
           /\ msg'[Head(mailbox)] = "none"
           /\ \A d \in Clients \ {Head(mailbox)} : msg'[d] = msg[d]
<1>1. /\ mailbox \in Seq(Clients) /\ msg \in [Clients -> Messages]
      /\ reply \in [Clients -> Replies]
    BY DEF TypeOK
<1>2. PICK h \in Clients : h = Head(mailbox) /\ h = mailbox[1]
    BY <1>1
<1>3. /\ mailbox' = Tail(mailbox) /\ msg' = [msg EXCEPT ![h] = "none"]
      /\ reply' = [reply EXCEPT ![h] = r]
    BY <1>2 DEF Answer
<1>4. msg'[h] = "none" /\ \A d \in Clients \ {h} : msg'[d] = msg[d]
    BY <1>1, <1>3
<1>5. /\ Len(mailbox) \in Nat /\ Len(mailbox') = Len(mailbox) - 1
      /\ \A i \in 1..Len(mailbox') : mailbox'[i] = mailbox[i + 1]
    BY <1>1, <1>3
<1>6. \A i \in 1..Len(mailbox') :
          i + 1 \in 1..Len(mailbox) /\ mailbox'[i] \in Clients \ {h}
    BY <1>1, <1>2, <1>5 DEF BoxInv
<1>7. BoxInv'
  <2>1. \A i \in 1..Len(mailbox') : msg'[mailbox'[i]] # "none"
      BY <1>4, <1>5, <1>6 DEF BoxInv
  <2>2. \A i, j \in 1..Len(mailbox') : mailbox'[i] = mailbox'[j] => i = j
      BY <1>5, <1>6 DEF BoxInv
  <2>3. \A d \in Clients : reply'[d] # "none" => msg'[d] = "none"
      BY <1>1, <1>3, <1>4 DEF BoxInv
  <2> QED
      BY <2>1, <2>2, <2>3 DEF BoxInv
<1> QED
    BY <1>2, <1>4, <1>7
\* A step of the actor has a request to work on, and answers it or goes on.
LEMMA ActorServes ==
    ASSUME TypeOK, MailboxInv, Actor
    PROVE  /\ mailbox # <<>> /\ UNCHANGED clientVars
           /\ UNCHANGED askVars \/ \E r \in Replies : Answer(r)
<1>r. "ok" \in Replies /\ "err" \in Replies /\ status \in Replies
    BY DEF Replies, TypeOK
<1>1. mailbox # <<>>
  <2>1. CASE Receive
      BY <2>1 DEF Receive
  <2>2. CASE ~Receive
      BY <2>2 DEF Actor, InitExecutor, MountFs, PrepareBundle, ConnectNetwork,
         TaskEnds, JoinSetup, ReleaseNetwork, UnmountFs, ExecutorFails, StartUnit,
         StopUnit, ResetDone, JobDone, TeardownStop, TeardownReset,
         TeardownRelease, MailboxInv
  <2> QED
      BY <2>1, <2>2
<1>2. UNCHANGED clientVars
    BY DEF Actor, Receive, InitExecutor, MountFs, PrepareBundle, ConnectNetwork,
       TaskEnds, JoinSetup, ReleaseNetwork, UnmountFs, ExecutorFails, StartUnit,
       StopUnit, ResetDone, JobDone, TeardownStop, TeardownReset,
       TeardownRelease, outsideActor, clientVars
<1>3. UNCHANGED askVars \/ \E r \in Replies : Answer(r)
  <2>1. CASE Receive
      BY <1>r, <2>1 DEF Receive, GetStatus, Teardown, Refuse, Transition, Finish
  <2>2. CASE ~Receive
      BY <1>r, <2>2 DEF Actor, InitExecutor, MountFs, PrepareBundle,
         ConnectNetwork, TaskEnds, JoinSetup, ReleaseNetwork, UnmountFs,
         ExecutorFails, StartUnit, StopUnit, ResetDone, JobDone, TeardownStop,
         TeardownReset, TeardownRelease, Finish
  <2> QED
      BY <2>1, <2>2
<1> QED
    BY <1>1, <1>2, <1>3

\* No sender sends twice, and none disturbs the request being served.
LEMMA SendersAsk ==
    ASSUME TypeOK, MailboxInv, Receiver \/ Initialize \/ PackageManager
    PROVE  \E c \in Clients :
               \/ Answered(c)
               \/ \E m \in Messages \ {"none"} : msg[c] = "none" /\ Ask(c, m)
<1>c. {"init", "recv", "pm"} = Clients
    BY DEF Clients
<1>m. Operations \cup {"GetStatus", "Error", "SettingUp", "StartRequested"}
          \subseteq Messages \ {"none"}
    BY DEF Operations, Messages, Statuses
<1>1. CASE Receiver
  <2>1. CASE ReceiveEvent
    <3>1. StatusOf(Head(events)) \in Messages \ {"none"}
        BY <2>1 DEF ReceiveEvent, TypeOK, StatusOf, Messages, Statuses,
           UnitStates, RunStates
    <3> QED
        BY <1>c, <2>1, <3>1 DEF ReceiveEvent, MailboxInv
  <2>2. CASE EventTransited \/ ReceiverFails \/ ReceiverReturns
      BY <1>c, <1>m, <2>2 DEF EventTransited, ReceiverFails, ReceiverReturns,
         MailboxInv, BoxInv
  <2> QED
      BY <1>1, <2>1, <2>2 DEF Receiver
<1>2. CASE Initialize
    BY <1>c, <1>m, <1>2 DEF Initialize, MailboxInv
<1>3. CASE PackageManager
    BY <1>c, <1>m, <1>3, ConstantsOK DEF PackageManager, PMRequest, PMTeardown,
       PMStatusSeen, PMAnswered, MailboxInv, BoxInv, ConstantsOK, Operations
<1> QED
    BY <1>1, <1>2, <1>3

LEMMA SendersKeepRequest ==
    ASSUME TypeOK, MailboxInv, Receiver \/ Initialize \/ PackageManager
    PROVE  mailbox # <<>> => request' = request
<1>1. BoxInv
    BY DEF MailboxInv
<1>2. PICK c \in Clients :
          \/ Answered(c)
          \/ \E m \in Messages \ {"none"} : msg[c] = "none" /\ Ask(c, m)
    BY SendersAsk
<1> QED
    BY <1>1, <1>2, AnsweredTakes, AskQueues

LEMMA MailboxStep ==
    ASSUME TypeOK, MailboxInv, [Next]_vars
    PROVE  MailboxInv'
<1>b. BoxInv
    BY DEF MailboxInv
<1>c. {"init", "recv", "pm"} = Clients
    BY DEF Clients
<1>1. CASE Actor
  <2>1. BoxInv' /\ \A d \in Clients : msg'[d] \in {msg[d], "none"}
    <3>1. CASE UNCHANGED askVars
        BY <1>b, <3>1 DEF BoxInv, askVars
    <3>2. CASE \E r \in Replies : Answer(r)
        BY <1>1, <1>b, <3>2, ActorServes, AnswerPops
    <3> QED
        BY <1>1, <3>1, <3>2, ActorServes
  <2>2. pc' # "idle" => mailbox' # <<>>
      BY <1>1, ActorServes DEF Answer, askVars
  <2> QED
      BY <1>1, <1>c, <2>1, <2>2, ActorServes DEF MailboxInv, clientVars
<1>2. CASE UNCHANGED <<askVars, pc, clientVars>>
    BY <1>2, <1>b DEF MailboxInv, BoxInv, askVars, clientVars
<1>3. CASE Manager \/ Systemd \/ ForwardEvent \/ MonitorDies
    BY <1>2, <1>3 DEF Manager, CallReset, CallStart, CallStop, JobRemoved,
       JobTimeout, Systemd, UnitActivated, UnitStartFails, UnitExits, UnitStopped,
       ExternalStop, ForwardEvent, MonitorDies, outsideSystemd, outsideManager,
       outsideEvents, actorVars
<1>4. CASE Receiver
  <2>p. pc' = pc /\ initPc' = initPc /\ pmPc' = pmPc
      BY <1>4 DEF Receiver, ReceiveEvent, EventTransited, ReceiverFails,
         ReceiverReturns, outsideEvents, actorVars
  <2>1. CASE ReceiveEvent
    <3>1. /\ msg["recv"] = "none" /\ Ask("recv", StatusOf(Head(events)))
          /\ StatusOf(Head(events)) \in Messages \ {"none"} /\ recvPc' = "asking"
        BY <2>1 DEF ReceiveEvent, MailboxInv, TypeOK, StatusOf, Messages, Statuses,
           UnitStates, RunStates
    <3>2. BoxInv' /\ mailbox' # <<>> /\ \A d \in Clients \ {"recv"} : msg'[d] = msg[d]
        BY <1>b, <1>c, <3>1, AskQueues
    <3> QED
        BY <1>c, <2>p, <3>1, <3>2 DEF MailboxInv
  <2>2. CASE ReceiverFails
    <3>1. msg["recv"] = "none" /\ Ask("recv", "Error") /\ recvPc' = "failing"
        BY <1>c, <2>2 DEF ReceiverFails, MailboxInv, BoxInv
    <3>2. "Error" \in Messages /\ "Error" # "none"
        BY DEF Messages, Statuses
    <3>3. BoxInv' /\ mailbox' # <<>> /\ \A d \in Clients \ {"recv"} : msg'[d] = msg[d]
        BY <1>b, <1>c, <3>1, <3>2, AskQueues
    <3> QED
        BY <1>c, <2>p, <3>1, <3>3 DEF MailboxInv
  <2>3. CASE EventTransited \/ ReceiverReturns
    <3>1. Answered("recv")
        BY <2>3 DEF EventTransited, ReceiverReturns
    <3>2. BoxInv' /\ mailbox' = mailbox /\ msg' = msg /\ msg["recv"] = "none"
        BY <1>b, <1>c, <3>1, AnsweredTakes
    <3> QED
        BY <2>p, <3>2 DEF MailboxInv
  <2> QED
      BY <1>4, <2>1, <2>2, <2>3 DEF Receiver
<1>5. CASE Initialize
  <2>p. pc' = pc /\ recvPc' = recvPc /\ pmPc' = pmPc
      BY <1>5 DEF Initialize, outsideCallers, actorVars
  <2>1. CASE \E m \in {"SettingUp", "StartRequested"} :
                 initPc \in {"setup", "start"} /\ Ask("init", m)
                     /\ initPc' \in {"settingup", "starting"}
    <3>1. {"SettingUp", "StartRequested"} \subseteq Messages \ {"none"}
        BY DEF Messages, Statuses
    <3>2. msg["init"] = "none"
        BY <2>1 DEF MailboxInv
    <3>3. BoxInv' /\ mailbox' # <<>> /\ \A d \in Clients \ {"init"} : msg'[d] = msg[d]
        BY <1>b, <1>c, <2>1, <3>1, <3>2, AskQueues
    <3> QED
        BY <1>c, <2>1, <2>p, <3>3 DEF MailboxInv
  <2>2. CASE Answered("init")
    <3>1. BoxInv' /\ mailbox' = mailbox /\ msg' = msg /\ msg["init"] = "none"
        BY <1>b, <1>c, <2>2, AnsweredTakes
    <3> QED
        BY <2>p, <3>1 DEF MailboxInv
  <2> QED
      BY <1>5, <2>1, <2>2 DEF Initialize
<1>6. CASE PackageManager
  <2>p. pc' = pc /\ recvPc' = recvPc /\ initPc' = initPc
      BY <1>6 DEF PackageManager, PMRequest, PMTeardown, PMStatusSeen, PMAnswered,
         outsideCallers, actorVars
  <2>1. CASE \E m \in Operations \cup {"GetStatus"} :
                 msg["pm"] = "none" /\ Ask("pm", m) /\ pmPc' # "idle"
    <3>1. Operations \cup {"GetStatus"} \subseteq Messages \ {"none"}
        BY DEF Operations, Messages, Statuses
    <3>2. BoxInv' /\ mailbox' # <<>> /\ \A d \in Clients \ {"pm"} : msg'[d] = msg[d]
        BY <1>b, <1>c, <2>1, <3>1, AskQueues
    <3> QED
        BY <1>c, <2>1, <2>p, <3>2 DEF MailboxInv
  <2>2. CASE Answered("pm")
    <3>1. BoxInv' /\ mailbox' = mailbox /\ msg' = msg /\ msg["pm"] = "none"
        BY <1>b, <1>c, <2>2, AnsweredTakes
    <3> QED
        BY <2>p, <3>1 DEF MailboxInv
  <2>3. CASE PMRequest
      BY <2>1, <2>3, ConstantsOK DEF PMRequest, MailboxInv, ConstantsOK
  <2>4. CASE PMTeardown
      BY <2>1, <2>4 DEF PMTeardown, MailboxInv
  <2>5. CASE PMStatusSeen
      BY <1>c, <2>1, <2>2, <2>5 DEF PMStatusSeen, MailboxInv, BoxInv, Operations
  <2>6. CASE PMAnswered
      BY <2>2, <2>6 DEF PMAnswered
  <2> QED
      BY <1>6, <2>3, <2>4, <2>5, <2>6 DEF PackageManager
<1> QED
    BY <1>1, <1>2, <1>3, <1>4, <1>5, <1>6 DEF Next, vars, actorVars
-----------------------------------------------------------------------------
(* The systemd manager's requests *)

LEMMA AskManagerAppends ==
    ASSUME TypeOK, ManagerInv, NEW op \in ManagerOps,
           NEW p \in {"reset", "job", "tdwait", "tdreset"}, AskManager(op, p)
    PROVE  ManagerInv'
<1>1. mgrQ \in Seq(ManagerOps)
    BY DEF TypeOK
<1>2. mgrQ' # <<>>
    BY <1>1 DEF AskManager
<1> QED
    BY <1>2 DEF AskManager, ManagerInv

LEMMA ManagerStep ==
    ASSUME TypeOK, ManagerInv, [Next]_vars
    PROVE  ManagerInv'
<1>m. {"reset", "start", "stop"} \subseteq ManagerOps
    BY DEF ManagerOps
<1>1. CASE UNCHANGED <<mgrQ, called, result, pc>>
    BY <1>1 DEF ManagerInv
<1>2. CASE mgrQ = <<>> /\ UNCHANGED <<mgrQ, called>>
    BY <1>2 DEF ManagerInv
<1>3. CASE Actor
  <2>1. CASE Receive
      BY <1>2, <2>1 DEF Receive, ManagerInv, systemdVars
  <2>2. CASE InitExecutor \/ MountFs \/ PrepareBundle \/ ConnectNetwork
      BY <1>1, <2>2 DEF InitExecutor, MountFs, PrepareBundle, ConnectNetwork,
         TaskEnds, systemdVars
  <2>3. CASE JoinSetup \/ ReleaseNetwork \/ UnmountFs \/ ExecutorFails
      BY <1>2, <2>3 DEF JoinSetup, ReleaseNetwork, UnmountFs, ExecutorFails,
         ManagerInv, systemdVars
  <2>4. CASE StartUnit
    <3>1. mgrQ = <<>>
        BY <2>4 DEF StartUnit, ManagerInv
    <3> QED
        BY <1>m, <1>2, <2>4, <3>1, AskManagerAppends DEF StartUnit, systemdVars
  <2>5. CASE StopUnit
      BY <1>m, <2>5, AskManagerAppends DEF StopUnit
  <2>6. CASE ResetDone
    <3>1. mgrQ = <<>>
        BY <2>6 DEF ResetDone, ManagerInv
    <3> QED
        BY <1>m, <1>2, <2>6, <3>1, AskManagerAppends DEF ResetDone
  <2>7. CASE JobDone \/ TeardownRelease
      BY <1>2, <2>7 DEF JobDone, TeardownRelease, ManagerInv
  <2>8. CASE TeardownStop
      BY <1>m, <2>8, AskManagerAppends DEF TeardownStop
  <2>9. CASE TeardownReset
      BY <1>m, <2>9, AskManagerAppends DEF TeardownReset
  <2> QED
      BY <1>3, <2>1, <2>2, <2>3, <2>4, <2>5, <2>6, <2>7, <2>8, <2>9 DEF Actor
<1>4. CASE Manager
  <2>p. pc' = pc
      BY <1>4 DEF Manager, CallReset, CallStart, CallStop, JobRemoved, JobTimeout,
         outsideManager, actorVars
  <2>1. mgrQ # <<>> /\ mgrQ \in Seq(ManagerOps)
      BY <1>4 DEF Manager, CallReset, CallStart, CallStop, JobRemoved, JobTimeout,
         ManagerInv, TypeOK
  <2>2. ASSUME NEW r, ManagerAnswer(r)
        PROVE  ManagerInv'
    <3>1. mgrQ' # <<>> => Len(mgrQ) # 1
        BY <2>1, <2>2 DEF ManagerAnswer
    <3> QED
        BY <2>p, <2>1, <2>2, <3>1 DEF ManagerAnswer, ManagerInv
  <2>3. CASE called' = TRUE /\ UNCHANGED <<mgrQ, result>>
      BY <2>p, <2>1, <2>3 DEF ManagerInv
  <2> QED
      BY <1>4, <2>2, <2>3 DEF Manager, CallReset, CallStart, CallStop,
         JobRemoved, JobTimeout
<1>5. CASE Systemd
    BY <1>1, <1>5 DEF Systemd, UnitActivated, UnitStartFails, UnitExits,
       UnitStopped, ExternalStop, outsideSystemd, outsideManager, actorVars
<1>6. CASE ForwardEvent \/ MonitorDies \/ Receiver
    BY <1>1, <1>6 DEF ForwardEvent, MonitorDies, Receiver, ReceiveEvent,
       EventTransited, ReceiverFails, ReceiverReturns, outsideEvents, actorVars,
       systemdVars
<1>7. CASE Initialize \/ PackageManager
    BY <1>1, <1>7 DEF Initialize, PackageManager, PMRequest, PMTeardown,
       PMStatusSeen, PMAnswered, outsideCallers, actorVars, systemdVars
<1>8. CASE UNCHANGED vars
    BY <1>1, <1>8 DEF vars, actorVars, systemdVars
<1> QED
    BY <1>3, <1>4, <1>5, <1>6, <1>7, <1>8 DEF Next

-----------------------------------------------------------------------------
(* The handler *)

LEMMA HandlerStep ==
    ASSUME TypeOK, MailboxInv, HandlerInv, [Next]_vars
    PROVE  HandlerInv'
<1>n. BoxInv /\ (pc # "idle" => mailbox # <<>>)
    BY DEF MailboxInv
<1>1. CASE UNCHANGED <<pc, status, torn>> /\ (mailbox # <<>> => request' = request)
  <2>1. CASE pc = "idle"
      BY <1>1, <2>1 DEF HandlerInv, TransientHidden
  <2>2. CASE pc # "idle"
      BY <1>1, <1>n, <2>2 DEF HandlerInv, TransientHidden
  <2> QED
      BY <2>1, <2>2
<1>2. CASE UNCHANGED <<pc, status, torn, askVars>>
    BY <1>1, <1>2 DEF request, askVars
<1>3. CASE Actor
  <2>s. CASE pc' = "idle" /\ status' \notin Transient
      BY <2>s DEF HandlerInv, TransientHidden
  <2>k. CASE UNCHANGED <<status, torn, askVars>> /\ pc # "idle"
             /\ \/ pc' = pc
                \/ pc \in {"start", "reset"} /\ pc' \in {"reset", "job"}
                \/ pc = "stop" /\ pc' \in {"reset", "job"}
                \/ pc \in {"tdstop", "tdwait"} /\ pc' \in {"tdwait", "tdreset"}
                \/ pc \in {"setup", "tdreset", "net"} /\ pc' \in {"net", "unmount"}
    <3>1. request' = request
        BY <2>k DEF request, askVars
    <3> QED
        BY <2>k, <3>1 DEF HandlerInv, TransientHidden
  <2>1. CASE Receive
    <3>0. pc = "idle" /\ status \notin Transient
        BY <2>1 DEF Receive, HandlerInv, TransientHidden
    <3>1. CASE GetStatus \/ Refuse
        BY <2>s, <3>0, <3>1 DEF GetStatus, Refuse, Answer
    <3>2. CASE Teardown
      <4>1. request' = request
          BY <3>2 DEF Teardown, askVars, request
      <4> QED
          BY <3>0, <3>2, <4>1 DEF Teardown, HandlerInv, TransientHidden
    <3>3. CASE Transition
      <4>1. CASE request \in Live \cup {"Cleaned", "Error", "Broken"} /\ Finish(request)
          BY <2>s, <4>1 DEF Finish, Answer, Live, RunStates, Transient
      <4>2. CASE request = "Upgrading" /\ status' = request /\ Answer("ok")
          BY <2>s, <4>2 DEF Answer, Transient
      <4>3. CASE /\ UNCHANGED askVars /\ status' = request
                 /\ \/ request = "SettingUp" /\ pc' = "setup"
                    \/ request = "StartRequested" /\ pc' = "start"
                    \/ request = "StopRequested" /\ pc' = "stop"
                    \/ request = "CleaningUp" /\ pc' = "net"
                    \/ request = "Upgrading" /\ pc' \in {"tdstop", "net"}
        <5>1. request' = request
            BY <4>3 DEF request, askVars
        <5> QED
            BY <4>3, <5>1 DEF HandlerInv, TransientHidden
      <4> QED
          BY <3>3, <4>1, <4>2, <4>3 DEF Transition
    <3> QED
        BY <2>1, <3>1, <3>2, <3>3 DEF Receive
  <2>2. CASE InitExecutor \/ MountFs \/ PrepareBundle \/ ConnectNetwork
      BY <1>2, <2>2 DEF InitExecutor, MountFs, PrepareBundle, ConnectNetwork, TaskEnds
  <2>3. CASE JoinSetup
      BY <2>3, <2>s, <2>k DEF JoinSetup, Finish, Answer, Transient
  <2>4. CASE ReleaseNetwork
      BY <2>4, <2>k DEF ReleaseNetwork
  <2>5. CASE UnmountFs
    <3>1. pc = "unmount" /\ pc' = "idle"
        BY <2>5 DEF UnmountFs, Finish, Answer
    <3>2. \/ \E s \in {"Error", "Cleaned", "Upgrading"} : Finish(s)
          \/ request = "Teardown" /\ UNCHANGED status
        BY <2>5 DEF UnmountFs
    <3> QED
        BY <2>s, <3>1, <3>2 DEF HandlerInv, Finish, Transient
  <2>6. CASE ExecutorFails
      BY <2>6, <2>s DEF ExecutorFails, Finish, Answer, Transient
  <2>7. CASE StartUnit
    <3>1. unit \in UnitStates
        BY DEF TypeOK
    <3> QED
        BY <2>7, <3>1, <2>s, <2>k DEF StartUnit, AskManager, Finish, Answer,
           Transient, UnitStates, RunStates, outsideActor
  <2>8. CASE StopUnit
      BY <2>8, <2>k DEF StopUnit, AskManager, outsideActor
  <2>9. CASE ResetDone
      BY <2>9, <2>s, <2>k DEF ResetDone, AskManager, Finish, Answer, Transient,
         outsideActor
  <2>10. CASE JobDone
    <3>1. unit \in UnitStates
        BY DEF TypeOK
    <3>2. status' \notin Transient
        BY <2>10, <3>1 DEF JobDone, Finish, MapJobResult, StatusOf, Transient,
           UnitStates, RunStates
    <3> QED
        BY <2>10, <2>s, <3>2 DEF JobDone, Finish, Answer
  <2>11. CASE TeardownStop \/ TeardownReset \/ TeardownRelease
      BY <2>11, <2>k DEF TeardownStop, TeardownReset, TeardownRelease, AskManager,
         outsideActor
  <2> QED
      BY <1>3, <2>1, <2>2, <2>3, <2>4, <2>5, <2>6, <2>7, <2>8, <2>9, <2>10,
         <2>11 DEF Actor
<1>4. CASE Manager \/ Systemd \/ ForwardEvent \/ MonitorDies
    BY <1>2, <1>4 DEF Manager, CallReset, CallStart, CallStop, JobRemoved,
       JobTimeout, Systemd, UnitActivated, UnitStartFails, UnitExits, UnitStopped,
       ExternalStop, ForwardEvent, MonitorDies, outsideSystemd, outsideManager,
       outsideEvents, actorVars
<1>5. CASE Receiver \/ Initialize \/ PackageManager
  <2>1. UNCHANGED <<pc, status, torn>>
      BY <1>5 DEF Receiver, ReceiveEvent, EventTransited, ReceiverFails,
         ReceiverReturns, Initialize, PackageManager, PMRequest, PMTeardown,
         PMStatusSeen, PMAnswered, outsideEvents, outsideCallers, actorVars
  <2>2. mailbox # <<>> => request' = request
      BY <1>5, SendersKeepRequest
  <2> QED
      BY <1>1, <2>1, <2>2
<1>6. CASE UNCHANGED vars
    BY <1>2, <1>6 DEF vars, actorVars
<1> QED
    BY <1>3, <1>4, <1>5, <1>6 DEF Next

-----------------------------------------------------------------------------
(* The receiver's last word *)

\* Once the status is Error, only another Error or a Broken can follow.
LEMMA ErrorStays ==
    ASSUME TypeOK, MailboxInv, HandlerInv, status = "Error", Actor,
           request # "Broken"
    PROVE  status' = "Error"
<1>h. pc # "idle" => request \in {"Teardown", "Error"}
    BY DEF HandlerInv
<1>1. CASE Receive
  <2>1. CASE GetStatus \/ Teardown \/ Refuse
      BY <2>1 DEF GetStatus, Teardown, Refuse
  <2>2. CASE Transition
    <3>1. request = "Error"
        BY <2>2 DEF Transition, Applicable, From, Statuses, RunStates
    <3> QED
        BY <2>2, <3>1 DEF Transition
  <2> QED
      BY <1>1, <2>1, <2>2 DEF Receive
<1>2. CASE UNCHANGED status
    BY <1>2
<1>3. CASE UnmountFs
    BY <1>h, <1>3 DEF UnmountFs, Finish, HandlerInv
<1> QED
    BY <1>h, <1>1, <1>2, <1>3 DEF HandlerInv, Actor, InitExecutor, MountFs,
       PrepareBundle, ConnectNetwork, TaskEnds, JoinSetup, ReleaseNetwork,
       ExecutorFails, StartUnit, StopUnit, ResetDone, JobDone, TeardownStop,
       TeardownReset, TeardownRelease

\* A message whose request is Error is answered with the status Error.
LEMMA ErrorServed ==
    ASSUME TypeOK, MailboxInv, HandlerInv, Actor, request = "Error"
    PROVE  msg' # msg => status' = "Error"
<1>1. pc = "idle"
    BY DEF HandlerInv, TypeOK
<1>2. Receive
    BY <1>1 DEF Actor, InitExecutor, MountFs, PrepareBundle, ConnectNetwork,
       TaskEnds, JoinSetup, ReleaseNetwork, UnmountFs, ExecutorFails, StartUnit,
       StopUnit, ResetDone, JobDone, TeardownStop, TeardownReset, TeardownRelease
<1>3. CASE Refuse
    BY <1>3 DEF Refuse, Applicable, From, Ignored, TypeOK
<1>4. CASE Transition
    BY <1>4 DEF Transition, Finish
<1> QED
    BY <1>2, <1>3, <1>4 DEF Receive, GetStatus, Teardown

LEMMA ReceiverStep ==
    ASSUME TypeOK, MailboxInv, HandlerInv, ReceiverInv, [Next]_vars
    PROVE  ReceiverInv'
<1>b. BoxInv
    BY DEF MailboxInv
<1>c. {"init", "recv", "pm"} = Clients /\ msg \in [Clients -> Messages]
    BY DEF Clients, TypeOK
<1>1. CASE UNCHANGED <<status, recvPc, msg>>
    BY <1>1 DEF ReceiverInv, DeadReceiverMeansError
<1>2. CASE Actor
  <2>1. mailbox # <<>> /\ recvPc' = recvPc
      BY <1>2, ActorServes DEF clientVars
  <2>2. CASE UNCHANGED askVars
    <3>1. msg' = msg /\ Head(mailbox) \in Clients
        BY <2>1, <2>2 DEF askVars, TypeOK
    <3>2. request # "Broken"
        BY <1>c, <3>1 DEF ReceiverInv, request, Operations, Live, RunStates
    <3>3. status = "Error" => status' = "Error"
        BY <1>2, <3>2, ErrorStays
    <3> QED
        BY <2>1, <3>1, <3>3 DEF ReceiverInv, DeadReceiverMeansError
  <2>3. CASE \E r \in Replies : Answer(r)
    <3>1. /\ Head(mailbox) \in Clients /\ msg'[Head(mailbox)] = "none"
          /\ \A d \in Clients \ {Head(mailbox)} : msg'[d] = msg[d]
          /\ msg[Head(mailbox)] # "none"
      <4>1. 1 \in 1..Len(mailbox) /\ Head(mailbox) = mailbox[1]
          BY <2>1 DEF TypeOK
      <4> QED
          BY <1>b, <2>1, <2>3, <4>1, AnswerPops DEF BoxInv
    <3>2. request # "Broken"
        BY <1>c, <3>1 DEF ReceiverInv, request, Operations, Live, RunStates
    <3>3. status = "Error" => status' = "Error"
        BY <1>2, <3>2, ErrorStays
    <3>4. CASE Head(mailbox) = "recv" /\ recvPc = "failing"
      <4>1. request = "Error" /\ msg' # msg
          BY <3>1, <3>4 DEF ReceiverInv, request
      <4>2. status' = "Error"
          BY <1>2, <4>1, ErrorServed
      <4> QED
          BY <1>c, <2>1, <3>1, <4>2 DEF ReceiverInv, DeadReceiverMeansError
    <3>5. CASE ~(Head(mailbox) = "recv" /\ recvPc = "failing")
        BY <1>c, <2>1, <3>1, <3>3, <3>5 DEF ReceiverInv, DeadReceiverMeansError
    <3> QED
        BY <3>4, <3>5
  <2> QED
      BY <1>2, <2>2, <2>3, ActorServes
<1>3. CASE Manager \/ Systemd \/ ForwardEvent \/ MonitorDies
    BY <1>1, <1>3 DEF Manager, CallReset, CallStart, CallStop, JobRemoved,
       JobTimeout, Systemd, UnitActivated, UnitStartFails, UnitExits, UnitStopped,
       ExternalStop, ForwardEvent, MonitorDies, outsideSystemd, outsideManager,
       outsideEvents, actorVars, askVars, clientVars
<1>4. CASE Receiver
  <2>p. status' = status
      BY <1>4 DEF Receiver, ReceiveEvent, EventTransited, ReceiverFails,
         ReceiverReturns, outsideEvents, actorVars
  <2>1. CASE ReceiveEvent
    <3>1. StatusOf(Head(events)) \in Live /\ recvPc' = "asking"
        BY <2>1 DEF ReceiveEvent, TypeOK, StatusOf, Live, UnitStates
    <3>2. msg' = [msg EXCEPT !["recv"] = StatusOf(Head(events))]
        BY <2>1 DEF ReceiveEvent, Ask
    <3> QED
        BY <1>c, <2>p, <3>1, <3>2 DEF ReceiverInv, DeadReceiverMeansError
  <2>2. CASE ReceiverFails
    <3>1. recvPc' = "failing" /\ msg' = [msg EXCEPT !["recv"] = "Error"]
        BY <2>2 DEF ReceiverFails, Ask
    <3> QED
        BY <1>c, <2>p, <3>1 DEF ReceiverInv, DeadReceiverMeansError
  <2>3. CASE EventTransited
      BY <2>3, <2>p DEF EventTransited, Answered, ReceiverInv, DeadReceiverMeansError
  <2>4. CASE ReceiverReturns
    <3>1. msg["recv"] = "none" /\ msg' = msg
        BY <1>b, <1>c, <2>4, AnsweredTakes DEF ReceiverReturns
    <3> QED
        BY <2>4, <2>p, <3>1 DEF ReceiverReturns, ReceiverInv, DeadReceiverMeansError
  <2> QED
      BY <1>4, <2>1, <2>2, <2>3, <2>4 DEF Receiver
<1>5. CASE Initialize
  <2>1. UNCHANGED <<status, recvPc>>
      BY <1>5 DEF Initialize, outsideCallers, actorVars
  <2>2. msg' = msg \/ \E m \in {"SettingUp", "StartRequested"} :
                           msg' = [msg EXCEPT !["init"] = m]
      BY <1>5 DEF Initialize, Ask, Answered
  <2> QED
      BY <1>c, <2>1, <2>2 DEF ReceiverInv, DeadReceiverMeansError
<1>6. CASE PackageManager
  <2>1. UNCHANGED <<status, recvPc>>
      BY <1>6 DEF PackageManager, PMRequest, PMTeardown, PMStatusSeen, PMAnswered,
         outsideCallers, actorVars
  <2>2. msg' = msg \/ \E m \in Operations \cup {"GetStatus"} :
                           msg' = [msg EXCEPT !["pm"] = m]
      BY <1>6, ConstantsOK DEF PackageManager, PMRequest, PMTeardown, PMStatusSeen,
         PMAnswered, Ask, Answered, ConstantsOK, Operations
  <2> QED
      BY <1>c, <2>1, <2>2 DEF ReceiverInv, DeadReceiverMeansError
<1>7. CASE UNCHANGED vars
    BY <1>1, <1>7 DEF vars, actorVars, askVars, clientVars
<1> QED
    BY <1>2, <1>3, <1>4, <1>5, <1>6, <1>7 DEF Next

-----------------------------------------------------------------------------
(* What is mounted and attached *)

LEMMA UnmountEffect ==
    ASSUME NEW n \in Layers, NEW overlay \in BOOLEAN, n <= FullStack(overlay),
           NEW mayFail, NEW r \in Unmount(n, overlay, mayFail)
    PROVE  r.layers <= n /\ (r.ok => r.layers = 0)
BY DEF Unmount, Result, Results, Layers, FullStack

\* From an empty mount point, a mount that succeeds leaves the whole stack.
LEMMA MountEffect ==
    ASSUME NEW overlay \in BOOLEAN, NEW mayFail, NEW r \in Mount(0, overlay, mayFail)
    PROVE  /\ r.layers \in Layers /\ r.layers <= FullStack(overlay)
           /\ r.ok => r.layers = FullStack(overlay)
BY DEF Mount, MountDevice, Result, Results, Layers, FullStack

LEMMA MountWithRetryEffect ==
    ASSUME NEW overlay \in BOOLEAN, NEW f, NEW g,
           NEW r \in MountWithRetry(0, overlay, f, g)
    PROVE  r.layers <= FullStack(overlay) /\ (r.ok => r.layers = FullStack(overlay))
<1>0. 0 \in Layers
    BY DEF Layers
<1>1. CASE r \in Mount(0, overlay, f)
    BY <1>1, MountEffect
<1>2. ASSUME NEW s \in Mount(0, overlay, f), ~s.ok,
             NEW u \in Unmount(s.layers, overlay, g),
             IF u.ok THEN r \in Mount(u.layers, overlay, f) ELSE r = u
      PROVE  r.layers <= FullStack(overlay) /\ (r.ok => r.layers = FullStack(overlay))
  <2>1. s.layers \in Layers /\ s.layers <= FullStack(overlay)
      BY <1>2, MountEffect
  <2>2. u.layers <= s.layers /\ (u.ok => u.layers = 0) /\ u.layers \in Layers
      BY <1>2, <2>1, UnmountEffect, UnmountTyped
  <2>3. CASE u.ok
      BY <1>2, <2>2, <2>3, MountEffect
  <2>4. CASE ~u.ok
      BY <1>2, <2>1, <2>2, <2>4 DEF Layers, FullStack
  <2> QED
      BY <2>3, <2>4
<1> QED
    BY <1>1, <1>2 DEF MountWithRetry

\* Which statuses may follow: Live only from Live, StartRequested or
\* StopRequested, and SettingUp only from a status with nothing mounted.
LEMMA TransitionFrom ==
    ASSUME Transition
    PROVE  /\ request \in Live \cup {"StartRequested", "StopRequested"} =>
                  status \in Live \cup {"SettingUp", "StartRequested", "StopRequested"}
           /\ request = "SettingUp" => status \in SkipsTeardown
           /\ request = "Cleaned" => status = "CleaningUp"
BY DEF Transition, Applicable, From, Live, RunStates, SkipsTeardown

LEMMA ResourceStep ==
    ASSUME TypeOK, MailboxInv, HandlerInv, ResourceInv, [Next]_vars
    PROVE  ResourceInv'
<1>n. BoxInv /\ (pc # "idle" => mailbox # <<>>)
    BY DEF MailboxInv
<1>o. Overlay \in BOOLEAN /\ layers \in Layers
    BY ConstantsOK DEF ConstantsOK, TypeOK
<1>1. CASE /\ UNCHANGED <<pc, status, torn, task, layers, cell, netVars>>
           /\ mailbox # <<>> => request' = request
  <2>1. CASE pc = "idle"
      BY <1>1, <2>1 DEF ResourceInv, Provisioned, netVars
  <2>2. CASE pc # "idle"
      BY <1>1, <1>n, <2>2 DEF ResourceInv, Provisioned, netVars
  <2> QED
      BY <2>1, <2>2
<1>2. CASE Actor
  <2>m. mailbox # <<>>
      BY <1>2, ActorServes
  <2>s. CASE /\ pc' = "idle" /\ UNCHANGED <<layers, cell, netVars, torn>>
             /\ \/ status' \notin Live \cup {"StartRequested", "StopRequested"} \cup SkipsTeardown
                \/ /\ status \in Live \cup {"StartRequested", "StopRequested"}
                   /\ status' \in Live
                \/ status' \in SkipsTeardown /\ layers = 0
    <3>1. CASE status' \in SkipsTeardown /\ layers = 0
        BY <2>s, <3>1 DEF ResourceInv, SkipsTeardown, Live, RunStates
    <3>2. CASE status' \notin SkipsTeardown
        BY <2>s, <3>2 DEF ResourceInv, Provisioned, netVars
    <3> QED
        BY <2>s, <3>1, <3>2 DEF SkipsTeardown, Live, RunStates
  <2>k. CASE /\ UNCHANGED <<status, torn, layers, cell, netVars, askVars>>
             /\ pc # "idle" /\ pc' \notin {"idle", "setup"}
    <3>1. request' = request
        BY <2>k DEF request, askVars
    <3> QED
        BY <2>k, <3>1 DEF ResourceInv, Provisioned, netVars
  <2>1. CASE Receive
    <3>0. pc = "idle" /\ UNCHANGED <<layers, cell, netVars>>
        BY <2>1 DEF Receive
    <3>1. CASE GetStatus \/ Refuse
      <4>1. UNCHANGED <<status, torn>> /\ pc' = "idle"
          BY <3>1 DEF GetStatus, Refuse, Answer
      <4> QED
          BY <3>0, <4>1 DEF ResourceInv, Provisioned, netVars
    <3>2. CASE Teardown
      <4>1. torn' /\ status' = status /\ pc' # "setup"
          BY <3>2 DEF Teardown
      <4> QED
          BY <3>0, <4>1 DEF ResourceInv
    <3>3. CASE Transition
      <4>0. status \notin {"SettingUp", "CleaningUp", "StartRequested", "StopRequested"}
          BY <3>0 DEF HandlerInv, TransientHidden, Transient
      <4>t. torn' = torn
          BY <3>3 DEF Transition
      <4>1. CASE request \in Live /\ Finish(request)
          BY <2>s, <3>0, <3>3, <4>0, <4>1, <4>t, TransitionFrom
             DEF Finish, Answer, Live, RunStates
      <4>2. CASE request \in {"Error", "Broken"} /\ Finish(request)
          BY <2>s, <3>0, <4>2, <4>t DEF Finish, Answer, Live, RunStates, SkipsTeardown
      <4>3. CASE request = "Cleaned"
          BY <3>3, <4>0, <4>3, TransitionFrom
      <4>4. CASE status' = "Upgrading" /\ status = "Verified" /\ Answer("ok")
          BY <2>s, <3>0, <4>4, <4>t DEF Answer, ResourceInv, SkipsTeardown
      <4>5. CASE /\ UNCHANGED <<askVars, task>> /\ status' = request
                 /\ \/ request = "CleaningUp" /\ pc' = "net"
                    \/ request = "Upgrading" /\ pc' \in {"tdstop", "net"}
        <5>1. request' = request
            BY <4>5 DEF request, askVars
        <5> QED
            BY <3>0, <4>5, <5>1 DEF ResourceInv, Live, RunStates
      <4>6. CASE /\ UNCHANGED <<askVars, task>> /\ status' = request
                 /\ \/ request = "StartRequested" /\ pc' = "start"
                    \/ request = "StopRequested" /\ pc' = "stop"
        <5>1. status \in Live
            BY <3>3, <4>0, <4>6, TransitionFrom
        <5> QED
            BY <3>0, <4>6, <4>t, <5>1 DEF ResourceInv, Provisioned, netVars,
               SkipsTeardown
      <4>7. CASE /\ request = "SettingUp" /\ status' = request /\ pc' = "setup"
                 /\ task' = [t \in Tasks |-> "run"]
        <5>1. layers = 0
            BY <3>0, <3>3, <4>7, TransitionFrom DEF ResourceInv
        <5>2. task'["exec"] = "run" /\ task'["mount"] = "run" /\ task'["net"] = "run"
            BY <4>7 DEF Tasks
        <5> QED
            BY <3>0, <4>7, <5>1, <5>2 DEF ResourceInv, Live, RunStates, SkipsTeardown
      <4> QED
          BY <3>3, <4>1, <4>2, <4>3, <4>4, <4>5, <4>6, <4>7 DEF Transition
    <3> QED
        BY <2>1, <3>1, <3>2, <3>3 DEF Receive
  <2>2. CASE InitExecutor \/ MountFs \/ PrepareBundle \/ ConnectNetwork
    <3>0. /\ pc = "setup" /\ pc' = "setup" /\ status = "SettingUp"
          /\ UNCHANGED <<status, torn>> /\ request = "SettingUp" /\ request' = request
        BY <2>2 DEF InitExecutor, MountFs, PrepareBundle, ConnectNetwork, TaskEnds,
           HandlerInv, request, askVars
    <3>t. task \in [Tasks -> {"off", "run", "ok", "err"}] /\ Tasks = {"exec", "mount", "prepare", "net"}
        BY DEF TypeOK, Tasks
    <3>g. ASSUME /\ layers' <= FullStack(Overlay)
                 /\ task'["exec"] = "ok" => cell' = "set"
                 /\ task'["mount"] = "run" => layers' = 0
                 /\ task'["mount"] = "ok" => layers' = FullStack(Overlay)
                 /\ task'["net"] = "ok" /\ Bridge => netns' /\ attached'
          PROVE  ResourceInv'
        BY <3>0, <3>g DEF ResourceInv, SkipsTeardown, Live, RunStates
    <3>1. CASE InitExecutor
      <4>1. UNCHANGED <<layers, netVars>> /\ (cell = "set" => cell' = "set")
          BY <3>1 DEF InitExecutor
      <4>2. \/ cell' = "set" /\ task' = [task EXCEPT !["exec"] = "ok"]
            \/ task' = [task EXCEPT !["exec"] = "err"]
          BY <3>1 DEF InitExecutor, TaskEnds
      <4> QED
          BY <3>0, <3>t, <3>g, <4>1, <4>2 DEF ResourceInv, netVars
    <3>2. CASE MountFs
      <4>1. PICK r \in MountWithRetry(layers, Overlay, "mount" \in Faults,
                                      "unmount" \in Faults) :
                /\ task["mount"] = "run" /\ layers' = r.layers
                /\ task' = [task EXCEPT !["mount"] = IF r.ok THEN "ok" ELSE "err"]
          BY <3>2 DEF MountFs, TaskEnds
      <4>2. layers = 0
          BY <3>0, <4>1 DEF ResourceInv
      <4>3. layers' <= FullStack(Overlay) /\ (r.ok => layers' = FullStack(Overlay))
          BY <1>o, <4>1, <4>2, MountWithRetryEffect
      <4>4. UNCHANGED <<cell, netVars>>
          BY <3>2 DEF MountFs
      <4> QED
          BY <3>0, <3>t, <3>g, <4>1, <4>3, <4>4 DEF ResourceInv, netVars
    <3>3. CASE PrepareBundle
      <4>1. \/ task' = [task EXCEPT !["prepare"] = "ok"]
            \/ task' = [task EXCEPT !["prepare"] = "err"]
          BY <3>3 DEF PrepareBundle, TaskEnds
      <4>2. UNCHANGED <<cell, layers, netVars>>
          BY <3>3 DEF PrepareBundle
      <4> QED
          BY <3>0, <3>t, <3>g, <4>1, <4>2 DEF ResourceInv, netVars
    <3>4. CASE ConnectNetwork
      <4>1. \/ task' = [task EXCEPT !["net"] = "ok"] /\ (Bridge => netns' /\ attached')
            \/ task' = [task EXCEPT !["net"] = "err"]
          BY <3>4 DEF ConnectNetwork, TaskEnds
      <4>2. UNCHANGED <<cell, layers>>
          BY <3>4 DEF ConnectNetwork
      <4> QED
          BY <3>0, <3>t, <3>g, <4>1, <4>2 DEF ResourceInv
    <3> QED
        BY <2>2, <3>1, <3>2, <3>3, <3>4
  <2>3. CASE JoinSetup
    <3>1. status = "SettingUp" /\ UNCHANGED <<layers, cell, netVars, torn>>
        BY <2>3 DEF JoinSetup, HandlerInv
    <3>2. CASE \A t \in Tasks : task[t] = "ok"
      <4>1. status' = "Ready" /\ pc' = "idle"
          BY <2>3, <3>2 DEF JoinSetup, Finish, Answer
      <4>2. Provisioned
          BY <2>3, <3>2 DEF JoinSetup, ResourceInv, Provisioned, Tasks
      <4> QED
          BY <3>1, <4>1, <4>2 DEF ResourceInv, Provisioned, netVars, SkipsTeardown
    <3>3. CASE ~(\A t \in Tasks : task[t] = "ok")
        BY <2>3, <2>k, <3>1, <3>3 DEF JoinSetup
    <3> QED
        BY <3>2, <3>3
  <2>4. CASE ReleaseNetwork
    <3>1. /\ pc = "net" /\ pc' = "unmount"
          /\ UNCHANGED <<status, task, askVars, layers, cell, torn>>
        BY <2>4 DEF ReleaseNetwork
    <3>2. request' = request
        BY <3>1 DEF request, askVars
    <3>3. torn \/ status \in {"SettingUp", "CleaningUp", "Upgrading"}
        BY <3>1 DEF HandlerInv
    <3> QED
        BY <3>1, <3>2, <3>3 DEF ResourceInv, Live, RunStates
  <2>5. CASE UnmountFs
    <3>1. PICK r \in Unmount(layers, Overlay, "unmount" \in Faults) :
              /\ layers' = r.layers
              /\ \/ Finish("Error")
                 \/ r.ok /\ Finish("Cleaned")
                 \/ r.ok /\ Finish("Upgrading")
                 \/ request = "Teardown" /\ UNCHANGED status
        BY <2>5 DEF UnmountFs
    <3>2. layers' <= layers /\ (r.ok => layers' = 0)
        BY <1>o, <3>1, UnmountEffect DEF ResourceInv
    <3>3. pc = "unmount" /\ pc' = "idle" /\ torn' = torn
        BY <2>5 DEF UnmountFs, Finish, Answer
    <3>4. layers' <= FullStack(Overlay) /\ layers' \in Layers
        BY <1>o, <3>1, <3>2, UnmountTyped DEF ResourceInv, Layers, FullStack
    <3>5. CASE status' \in {"Error", "Cleaned", "Upgrading"}
      <4>1. status' \in SkipsTeardown => layers' = 0
        <5>1. CASE r.ok \/ Finish("Error")
            BY <3>2, <5>1 DEF Finish, SkipsTeardown
        <5>2. CASE request = "Teardown" /\ UNCHANGED status
            BY <1>o, <3>2, <3>4, <5>2 DEF ResourceInv, Layers
        <5> QED
            BY <3>1, <5>1, <5>2
      <4> QED
          BY <3>3, <3>4, <3>5, <4>1 DEF ResourceInv, Live, RunStates
    <3>6. CASE request = "Teardown" /\ UNCHANGED status
      <4>1. status \in SkipsTeardown => layers' = 0
          BY <1>o, <3>2, <3>4, <3>6 DEF ResourceInv, Layers
      <4>2. torn'
          BY <3>3, <3>6 DEF HandlerInv
      <4> QED
          BY <3>3, <3>4, <3>6, <4>1, <4>2 DEF ResourceInv
    <3> QED
        BY <3>1, <3>5, <3>6 DEF Finish
  <2>6. CASE ExecutorFails
      BY <2>6, <2>s DEF ExecutorFails, outsideActor, Finish, Answer, Live, RunStates,
         SkipsTeardown
  <2>7. CASE StartUnit \/ StopUnit \/ ResetDone \/ JobDone
    <3>0. /\ status \in {"StartRequested", "StopRequested"} /\ pc # "idle"
          /\ UNCHANGED <<layers, cell, netVars, torn>>
        BY <2>7 DEF StartUnit, StopUnit, ResetDone, JobDone, outsideActor, HandlerInv
    <3>1. CASE \E s \in Live \cup {"Error"} : Finish(s)
        BY <2>s, <3>0, <3>1 DEF Finish, Answer, Live, RunStates, SkipsTeardown
    <3>2. CASE UNCHANGED <<status, askVars>> /\ pc' \in {"reset", "job"}
        BY <2>k, <3>0, <3>2
    <3>3. unit \in UnitStates
        BY DEF TypeOK
    <3>4. MapJobResult(result, unit) \in Live \cup {"Error"}
        BY <3>3 DEF MapJobResult, StatusOf, Live, UnitStates, RunStates
    <3>5. unit \notin {"inactive", "failed"} => unit \in Live
        BY <3>3 DEF Live, UnitStates
    <3> QED
        BY <2>7, <3>1, <3>2, <3>4, <3>5 DEF StartUnit, StopUnit, ResetDone, JobDone,
           AskManager, Live
  <2>8. CASE TeardownStop \/ TeardownReset \/ TeardownRelease
      BY <2>8, <2>k DEF TeardownStop, TeardownReset, TeardownRelease, AskManager,
         outsideActor
  <2> QED
      BY <1>2, <2>1, <2>2, <2>3, <2>4, <2>5, <2>6, <2>7, <2>8 DEF Actor
<1>3. CASE Manager \/ Systemd \/ ForwardEvent \/ MonitorDies
  <2>1. UNCHANGED <<actorVars, askVars, cell, layers, netVars, torn>>
      BY <1>3 DEF Manager, CallReset, CallStart, CallStop, JobRemoved,
         JobTimeout, Systemd, UnitActivated, UnitStartFails, UnitExits, UnitStopped,
         ExternalStop, ForwardEvent, MonitorDies, outsideSystemd, outsideManager,
         outsideEvents
  <2> QED
      BY <1>1, <2>1 DEF actorVars, askVars, request
<1>4. CASE Receiver \/ Initialize \/ PackageManager
  <2>1. UNCHANGED <<actorVars, cell, layers, netVars, torn>>
      BY <1>4 DEF Receiver, ReceiveEvent, EventTransited, ReceiverFails,
         ReceiverReturns, Initialize, PackageManager, PMRequest, PMTeardown,
         PMStatusSeen, PMAnswered, outsideEvents, outsideCallers
  <2>2. mailbox # <<>> => request' = request
      BY <1>4, SendersKeepRequest
  <2> QED
      BY <1>1, <2>1, <2>2 DEF actorVars
<1>5. CASE UNCHANGED vars
    BY <1>1, <1>5 DEF vars, actorVars, askVars, request
<1> QED
    BY <1>2, <1>3, <1>4, <1>5 DEF Next

-----------------------------------------------------------------------------
(* What the status tells of the unit *)

\* Before the setup there is no executor, and nothing to tell.
BeforeSetup ==
    /\ cell = "unset" => monitor = "off" /\ ~dirty /\ events = <<>> /\ recvPc = "recv"
    /\ status = "Verified" => cell = "unset"

\* The last state on its way to the actor is the one the unit has, or a change
\* waits for the monitor.
EventInv ==
    monitor = "on" /\ ~dirty /\ recvPc \in {"recv", "asking"} =>
        /\ events # <<>> => events[Len(events)] = unit
        /\ events = <<>> /\ recvPc = "asking" /\ msg["recv"] # "none" =>
               msg["recv"] = StatusOf(unit)

\* Everything the unit did has come to the actor, and nothing was refused.
Heard ==
    /\ monitor = "on" /\ ~dirty /\ events = <<>>
    /\ \/ recvPc = "recv"
       \/ recvPc = "asking" /\ msg["recv"] = "none" /\ reply["recv"] # "err"

\* A package that is not Live any more, or not yet, and may become it without a
\* word of its unit has one that is not loaded.
HeardInv ==
    Heard => /\ status \in Live => status = StatusOf(unit)
             /\ status \in {"Cleaned", "SettingUp", "CleaningUp"} => unit = "inactive"

TellsInv == BeforeSetup /\ EventInv /\ HeardInv

\* A unit that was reset stays inactive until its start is asked for.
ResetInv ==
    pc = "reset" =>
        /\ ~called
        /\ \/ mgrQ = <<"reset">> /\ unit = "failed"
           \/ mgrQ = <<>> /\ result = "ok" /\ unit = "inactive"
           \/ mgrQ = <<>> /\ result = "err"

\* What happens between the unit and the receiver, and neither to the status nor
\* to what the receiver asks, leaves a change to forward.
UnitMoves ==
    \/ unit' = unit /\ dirty' = dirty
    \/ monitor = "on" /\ dirty'
    \/ monitor # "on" /\ dirty' = dirty

LEMMA UnitMovesTells ==
    ASSUME TellsInv, UnitMoves, UNCHANGED <<monitor, events, status, recvPc, cell>>,
           msg'["recv"] = msg["recv"], reply'["recv"] = reply["recv"]
    PROVE  TellsInv'
BY DEF TellsInv, UnitMoves, BeforeSetup, EventInv, HeardInv, Heard

\* A status that is set tells the unit.
StatusTells ==
    /\ status' # "Verified"
    /\ Heard => /\ status' \in Live => status' = StatusOf(unit)
                /\ status' \in {"Cleaned", "SettingUp", "CleaningUp"} => unit = "inactive"

LEMMA StatusSetTells ==
    ASSUME TellsInv, status' = status \/ StatusTells,
           UNCHANGED <<monitor, dirty, events, recvPc, cell, unit>>,
           msg'["recv"] = msg["recv"], reply'["recv"] = reply["recv"]
    PROVE  TellsInv'
<1>1. BeforeSetup' /\ EventInv' /\ (Heard' <=> Heard)
    BY DEF TellsInv, StatusTells, BeforeSetup, EventInv, Heard
<1>2. HeardInv'
    BY <1>1 DEF TellsInv, StatusTells, HeardInv
<1> QED
    BY <1>1, <1>2 DEF TellsInv

\* A handler works for others than the receiver.
LEMMA HandlerServesOthers ==
    ASSUME TypeOK, HandlerInv, ReceiverInv, pc # "idle"
    PROVE  Head(mailbox) # "recv"
<1>1. request \in {"SettingUp", "StartRequested", "StopRequested", "CleaningUp",
                   "Upgrading", "Teardown"}
    BY DEF TypeOK, HandlerInv
<1> QED
    BY <1>1 DEF ReceiverInv, request, Live, RunStates

LEMMA AnswerElsewhere ==
    ASSUME TypeOK, NEW r, Answer(r), Head(mailbox) # "recv"
    PROVE  msg'["recv"] = msg["recv"] /\ reply'["recv"] = reply["recv"]
BY DEF TypeOK, Answer, Clients

LEMMA InitExecutorTells ==
    ASSUME TypeOK, HandlerInv, TellsInv, InitExecutor
    PROVE  TellsInv'
<1>1. /\ UNCHANGED <<status, pc, mailbox, msg, reply, recvPc, unit>>
      /\ status = "SettingUp"
    BY DEF InitExecutor, TaskEnds, HandlerInv, askVars, clientVars, systemdVars
<1>2. CASE cell = "unset" /\ cell' = "failed" /\ monitor' = "dead"
    BY <1>1, <1>2 DEF TellsInv, BeforeSetup, EventInv, HeardInv, Heard
<1>3. CASE /\ cell = "unset" /\ cell' = "set" /\ monitor' = "on" /\ dirty' = FALSE
           /\ events' = IF unit = "inactive" THEN events ELSE Append(events, unit)
  <2>1. events = <<>> /\ recvPc = "recv"
      BY <1>3 DEF TellsInv, BeforeSetup
  <2>2. CASE unit = "inactive"
      BY <1>1, <1>3, <2>1, <2>2
         DEF TellsInv, BeforeSetup, EventInv, HeardInv, Heard, StatusOf, Live, RunStates
  <2>3. CASE unit # "inactive"
    <3>1. events' = <<unit>>
        BY <1>3, <2>1, <2>3
    <3>2. events' # <<>> /\ events'[Len(events')] = unit
        BY <3>1
    <3> QED
        BY <1>1, <1>3, <2>1, <3>2 DEF TellsInv, BeforeSetup, EventInv, HeardInv, Heard
  <2> QED
      BY <2>2, <2>3
<1>4. CASE UNCHANGED <<cell, monitorVars>>
    BY <1>1, <1>4, UnitMovesTells DEF UnitMoves, monitorVars
<1> QED
    BY <1>2, <1>3, <1>4 DEF InitExecutor

\* The receiver's own request takes the status to what the unit was, or is refused.
LEMMA OwnRequestTells ==
    ASSUME TypeOK, MailboxInv, ReceiverInv, TellsInv, Receive, Head(mailbox) = "recv"
    PROVE  TellsInv'
<1>1. /\ UNCHANGED <<recvPc, cell, monitor, dirty, events, unit>>
      /\ mailbox # <<>> /\ mailbox \in Seq(Clients) /\ "recv" \in Clients
      /\ msg \in [Clients -> Messages] /\ reply \in [Clients -> Replies]
    BY DEF Receive, monitorVars, systemdVars, TypeOK, Clients
<1>2. request = msg["recv"] /\ request # "none" /\ request \in Live \cup {"Error"}
  <2>1. msg[mailbox[1]] # "none" /\ Head(mailbox) = mailbox[1]
      BY <1>1 DEF MailboxInv, BoxInv
  <2> QED
      BY <2>1 DEF ReceiverInv, request
<1>3. ASSUME NEW r \in Replies, Answer(r)
      PROVE  msg'["recv"] = "none" /\ reply'["recv"] = r
    BY <1>1, <1>3 DEF Answer
<1>4. \/ Answer("err") /\ UNCHANGED status
      \/ Answer("ok") /\ status' = request
      \/ Answer("err") /\ status' = "Error"
  <2>1. CASE Refuse
    <3>1. ~Ignored(status, request)
        BY <1>2 DEF Ignored, Live, RunStates
    <3> QED
        BY <2>1, <3>1 DEF Refuse
  <2>2. CASE Transition
    <3>1. Finish(request)
        BY <1>2, <2>2 DEF Transition, Live, RunStates
    <3> QED
        BY <1>2, <3>1 DEF Finish, Live, RunStates
  <2>3. request \notin {"GetStatus", "Teardown"}
      BY <1>2 DEF Live, RunStates
  <2> QED
      BY <2>1, <2>2, <2>3 DEF Receive, GetStatus, Teardown
<1>5. "ok" \in Replies /\ "err" \in Replies /\ "ok" # "err"
    BY DEF Replies
<1>6. msg'["recv"] = "none" /\ reply'["recv"] \in {"ok", "err"}
    BY <1>3, <1>4, <1>5
<1>7. status' # "Verified" \/ status' = status
    BY <1>2, <1>4 DEF Live, RunStates
<1>8. BeforeSetup' /\ EventInv'
    BY <1>1, <1>6, <1>7 DEF TellsInv, BeforeSetup, EventInv
<1>9. HeardInv'
  <2> SUFFICES ASSUME Heard'
               PROVE  /\ status' \in Live => status' = StatusOf(unit)
                      /\ status' \notin {"Cleaned", "SettingUp", "CleaningUp"}
      BY <1>1 DEF HeardInv
  <2>1. recvPc = "asking"
      BY <1>1, <1>2 DEF Heard, MailboxInv
  <2>2. Answer("ok") /\ status' = request
      BY <1>1, <1>3, <1>4, <1>5, <2>1 DEF Heard
  <2>3. request = StatusOf(unit)  \/ request = "Error"
      BY <1>1, <1>2, <2>1 DEF Heard, TellsInv, EventInv
  <2> QED
      BY <1>2, <2>2, <2>3 DEF Live, RunStates
<1> QED
    BY <1>8, <1>9 DEF TellsInv

\* A request of another sender is refused, or takes the status to one that is left
\* before the handler returns, or to Upgrading.
LEMMA OthersRequestTells ==
    ASSUME TypeOK, MailboxInv, ReceiverInv, TellsInv, Receive, Head(mailbox) # "recv"
    PROVE  TellsInv'
<1>1. /\ UNCHANGED <<recvPc, cell, monitor, dirty, events, unit>>
      /\ mailbox # <<>> /\ Head(mailbox) \in Clients
    BY DEF Receive, monitorVars, systemdVars, TypeOK
<1>2. request \in Operations \cup {"none", "GetStatus", "SettingUp", "StartRequested"}
    BY <1>1 DEF ReceiverInv, request, Clients
<1>3. msg'["recv"] = msg["recv"] /\ reply'["recv"] = reply["recv"]
  <2>1. CASE UNCHANGED askVars
      BY <2>1 DEF askVars
  <2>2. ASSUME NEW r, Answer(r)
        PROVE  msg'["recv"] = msg["recv"] /\ reply'["recv"] = reply["recv"]
      BY <2>2, AnswerElsewhere
  <2>3. UNCHANGED askVars \/ \E r : Answer(r)
      BY DEF Receive, GetStatus, Teardown, Refuse, Transition, Finish
  <2> QED
      BY <2>1, <2>2, <2>3
<1>4. status' = status \/ StatusTells
  <2>1. CASE GetStatus \/ Teardown \/ Refuse
      BY <2>1 DEF GetStatus, Teardown, Refuse
  <2>2. CASE Transition
    <3>1. status' = request /\ Applicable(status, request) /\ request \in Operations
        BY <1>2, <2>2 DEF Transition, Operations, Live, RunStates, Statuses
    <3>2. CASE request \in {"StartRequested", "StopRequested", "Upgrading"}
        BY <3>1, <3>2 DEF StatusTells, Live, RunStates
    <3>3. CASE request = "SettingUp"
      <4>1. status \in {"Verified", "Cleaned"}
        <5>1. From("SettingUp") = {"Verified", "Cleaned"}
            BY DEF From, RunStates
        <5> QED
            BY <3>1, <3>3, <5>1 DEF Applicable
      <4>2. Heard => status = "Cleaned"
          BY <4>1 DEF Heard, TellsInv, BeforeSetup
      <4>3. Heard => unit = "inactive"
          BY <4>2 DEF TellsInv, HeardInv
      <4> QED
          BY <3>1, <3>3, <4>3 DEF StatusTells, Live, RunStates
    <3>4. CASE request = "CleaningUp"
      <4>1. status = "Ready"
        <5>1. From("CleaningUp") = {"Ready"}
            BY DEF From, RunStates
        <5> QED
            BY <3>1, <3>4, <5>1 DEF Applicable
      <4>2. Heard => StatusOf(unit) = "Ready"
          BY <4>1 DEF TellsInv, HeardInv, Live
      <4>3. Heard => unit = "inactive"
          BY <4>2 DEF TypeOK, StatusOf, UnitStates, RunStates
      <4> QED
          BY <3>1, <3>4, <4>3 DEF StatusTells, Live, RunStates
    <3>5. request # "Teardown"
        BY <2>2 DEF Transition, TypeOK, Statuses, RunStates
    <3> QED
        BY <3>1, <3>2, <3>3, <3>4, <3>5 DEF Operations
  <2> QED
      BY <2>1, <2>2 DEF Receive
<1> QED
    BY <1>1, <1>3, <1>4, StatusSetTells

\* A reset that is asked for, and one that is answered.
LEMMA ResetStep ==
    ASSUME TypeOK, ManagerInv, ResetInv, [Next]_vars
    PROVE  ResetInv'
<1>1. CASE UNCHANGED <<pc, systemdVars>>
    BY <1>1 DEF ResetInv, systemdVars
<1>2. CASE Actor
  <2>1. ASSUME NEW r, Answer(r)
        PROVE  pc' = "idle"
      BY <2>1 DEF Answer
  <2>2. CASE \/ Receive \/ InitExecutor \/ MountFs \/ PrepareBundle \/ ConnectNetwork
             \/ JoinSetup \/ ReleaseNetwork \/ UnmountFs
    <3>1. UNCHANGED systemdVars
        BY <2>2 DEF Receive, InitExecutor, MountFs, PrepareBundle, ConnectNetwork,
           TaskEnds, JoinSetup, ReleaseNetwork, UnmountFs
    <3>2. pc' # "reset" \/ pc' = pc
      <4>1. CASE Receive
          BY <2>1, <4>1 DEF Receive, GetStatus, Teardown, Refuse, Transition, Finish
      <4>2. CASE ~Receive
          BY <2>1, <2>2, <4>2 DEF InitExecutor, MountFs, PrepareBundle,
             ConnectNetwork, TaskEnds, JoinSetup, ReleaseNetwork, UnmountFs, Finish
      <4> QED
          BY <4>1, <4>2
    <3> QED
        BY <3>1, <3>2 DEF ResetInv, systemdVars
  <2>3. CASE StartUnit \/ StopUnit
    <3>1. mgrQ = <<>> /\ ~called
        BY <2>3 DEF StartUnit, StopUnit, ManagerInv
    <3>2. CASE AskManager("reset", "reset") /\ unit = "failed"
        BY <3>1, <3>2 DEF AskManager, ResetInv
    <3>3. pc' # "reset" \/ (AskManager("reset", "reset") /\ unit = "failed")
        BY <2>1, <2>3 DEF StartUnit, StopUnit, AskManager, Finish
    <3> QED
        BY <3>2, <3>3 DEF ResetInv
  <2>4. CASE \/ ExecutorFails \/ ResetDone \/ JobDone
             \/ TeardownStop \/ TeardownReset \/ TeardownRelease
    <3>1. pc' # "reset"
        BY <2>1, <2>4 DEF ExecutorFails, ResetDone, JobDone, TeardownStop,
           TeardownReset, TeardownRelease, AskManager, Finish
    <3> QED
        BY <3>1 DEF ResetInv
  <2> QED
      BY <1>2, <2>2, <2>3, <2>4 DEF Actor
<1>3. CASE Manager
  <2> SUFFICES ASSUME pc = "reset"
               PROVE  ResetInv'
      BY <1>3 DEF Manager, CallReset, CallStart, CallStop, JobRemoved, JobTimeout,
         outsideManager, actorVars, ResetInv
  <2>1. mgrQ = <<"reset">> /\ unit = "failed" /\ ~called
    <3>1. mgrQ # <<>>
        BY <1>3 DEF Manager, CallReset, CallStart, CallStop, JobRemoved, JobTimeout,
           ManagerInv
    <3> QED
        BY <3>1 DEF ResetInv
  <2>2. CallReset
      BY <1>3, <2>1 DEF Manager, CallStart, CallStop, JobRemoved, JobTimeout
  <2>3. ASSUME NEW r, ManagerAnswer(r)
        PROVE  mgrQ' = <<>> /\ ~called' /\ result' = r
      BY <2>1, <2>3 DEF ManagerAnswer
  <2>4. \/ ManagerAnswer("ok") /\ unit' = "inactive"
        \/ ManagerAnswer("err")
      BY <2>1, <2>2 DEF CallReset, UnitBecomes
  <2> QED
      BY <2>3, <2>4 DEF ResetInv
<1>4. CASE Systemd
  <2>1. UNCHANGED <<pc, mgrQ, called, result>>
      BY <1>4 DEF Systemd, UnitActivated, UnitStartFails, UnitExits, UnitStopped,
         ExternalStop, outsideSystemd, outsideManager, actorVars
  <2>2. unit \notin {"failed", "inactive"}
      BY <1>4 DEF Systemd, UnitActivated, UnitStartFails, UnitExits, UnitStopped,
         ExternalStop
  <2> QED
      BY <2>1, <2>2 DEF ResetInv
<1>5. CASE ForwardEvent \/ MonitorDies \/ Receiver \/ Initialize \/ PackageManager
    BY <1>1, <1>5 DEF ForwardEvent, MonitorDies, Receiver, ReceiveEvent, EventTransited,
       ReceiverFails, ReceiverReturns, Initialize, PackageManager, PMRequest,
       PMTeardown, PMStatusSeen, PMAnswered, outsideEvents, outsideCallers, actorVars
<1>6. CASE UNCHANGED vars
    BY <1>1, <1>6 DEF vars, actorVars
<1> QED
    BY <1>2, <1>3, <1>4, <1>5, <1>6 DEF Next

\* A handler ends in a status that tells the unit, or one that tells nothing.
LEMMA HandlerEndTells ==
    ASSUME TypeOK, HandlerInv, ManagerInv, ResetInv, TellsInv,
           \/ JoinSetup \/ UnmountFs \/ ExecutorFails \/ StartUnit \/ ResetDone
           \/ JobDone
    PROVE  status' = status \/ StatusTells
<1>s. ASSUME NEW s, Finish(s)
      PROVE  status' = s
    BY <1>s DEF Finish
<1>i. StatusOf("inactive") = "Ready" /\ unit \in UnitStates
    BY DEF StatusOf, TypeOK
<1>1. CASE JoinSetup
  <2>1. Heard => unit = "inactive"
      BY <1>1 DEF JoinSetup, HandlerInv, TellsInv, HeardInv
  <2> QED
      BY <1>1, <1>s, <1>i, <2>1 DEF JoinSetup, StatusTells
<1>2. CASE UnmountFs
  <2>1. \/ status' \in {"Error", "Upgrading"} \/ status' = status
        \/ status' = "Cleaned" /\ request = "CleaningUp"
      BY <1>2, <1>s DEF UnmountFs
  <2>2. CASE status' \in {"Error", "Upgrading"}
      BY <2>2 DEF StatusTells, Live, RunStates
  <2>3. CASE status' = "Cleaned" /\ request = "CleaningUp"
    <3>1. Heard => unit = "inactive"
        BY <1>2, <2>3 DEF UnmountFs, HandlerInv, TellsInv, HeardInv
    <3> QED
        BY <2>3, <3>1 DEF StatusTells, Live, RunStates
  <2> QED
      BY <2>1, <2>2, <2>3
<1>3. CASE ExecutorFails
    BY <1>3, <1>s DEF ExecutorFails, StatusTells, Live, RunStates
<1>4. CASE StartUnit
  <2>1. status' = status \/ (unit # "inactive" /\ status' = unit)
      BY <1>4, <1>s DEF StartUnit
  <2>2. CASE unit # "inactive" /\ status' = unit
      BY <1>i, <2>2 DEF StatusTells, StatusOf, UnitStates, RunStates, Live
  <2> QED
      BY <2>1, <2>2
<1>5. CASE ResetDone
  <2>1. \/ status' = status
        \/ status' = "Error"
        \/ result = "ok" /\ status' = "Ready"
      BY <1>5, <1>s DEF ResetDone
  <2>2. result = "ok" => unit = "inactive"
      BY <1>5 DEF ResetDone, ResetInv, ManagerInv
  <2> QED
      BY <1>i, <2>1, <2>2 DEF StatusTells, Live, RunStates
<1>6. CASE JobDone
  <2>1. status' \in {"Error", StatusOf(unit)}
      BY <1>6, <1>s DEF JobDone, MapJobResult
  <2>2. StatusOf(unit) \in Live
      BY <1>i DEF StatusOf, UnitStates, Live
  <2> QED
      BY <2>1, <2>2 DEF StatusTells, Live, RunStates
<1> QED
    BY <1>1, <1>2, <1>3, <1>4, <1>5, <1>6

LEMMA ActorTells ==
    ASSUME TypeOK, MailboxInv, HandlerInv, ManagerInv, ReceiverInv, ResetInv,
           TellsInv, Actor
    PROVE  TellsInv'
<1>1. CASE Receive
    BY <1>1, OwnRequestTells, OthersRequestTells
<1>2. CASE InitExecutor
    BY <1>2, InitExecutorTells
<1>3. CASE ~Receive /\ ~InitExecutor
  <2>1. pc # "idle" /\ UNCHANGED <<monitor, dirty, events, recvPc, cell, unit>>
    <3>1. CASE MountFs \/ PrepareBundle \/ ConnectNetwork
        BY <3>1 DEF MountFs, PrepareBundle, ConnectNetwork, TaskEnds, monitorVars,
           systemdVars, clientVars
    <3>2. CASE JoinSetup \/ ReleaseNetwork \/ UnmountFs
        BY <3>2 DEF JoinSetup, ReleaseNetwork, UnmountFs, monitorVars, systemdVars,
           clientVars
    <3>3. CASE \/ ExecutorFails \/ StartUnit \/ StopUnit \/ ResetDone \/ JobDone
               \/ TeardownStop \/ TeardownReset \/ TeardownRelease
        BY <3>3 DEF ExecutorFails, StartUnit, StopUnit, ResetDone, JobDone,
           TeardownStop, TeardownReset, TeardownRelease, AskManager, outsideActor,
           monitorVars, systemdVars, clientVars
    <3> QED
        BY <1>3, <3>1, <3>2, <3>3 DEF Actor
  <2>2. msg'["recv"] = msg["recv"] /\ reply'["recv"] = reply["recv"]
    <3>1. Head(mailbox) # "recv"
        BY <2>1, HandlerServesOthers
    <3>2. UNCHANGED askVars \/ \E r : Answer(r)
      <4>1. CASE MountFs \/ PrepareBundle \/ ConnectNetwork \/ ReleaseNetwork
          BY <4>1 DEF MountFs, PrepareBundle, ConnectNetwork, TaskEnds, ReleaseNetwork
      <4>2. CASE JoinSetup \/ UnmountFs \/ ExecutorFails
          BY <4>2 DEF JoinSetup, UnmountFs, ExecutorFails, Finish
      <4>3. CASE \/ StartUnit \/ StopUnit \/ ResetDone \/ JobDone
                 \/ TeardownStop \/ TeardownReset \/ TeardownRelease
          BY <4>3 DEF StartUnit, StopUnit, ResetDone, JobDone, TeardownStop,
             TeardownReset, TeardownRelease, Finish
      <4> QED
          BY <1>3, <4>1, <4>2, <4>3 DEF Actor
    <3> QED
        BY <3>1, <3>2, AnswerElsewhere DEF askVars
  <2>3. status' = status \/ StatusTells
    <3>1. CASE \/ JoinSetup \/ UnmountFs \/ ExecutorFails \/ StartUnit \/ ResetDone
               \/ JobDone
        BY <3>1, HandlerEndTells
    <3>2. CASE \/ MountFs \/ PrepareBundle \/ ConnectNetwork \/ ReleaseNetwork
               \/ StopUnit \/ TeardownStop \/ TeardownReset \/ TeardownRelease
        BY <3>2 DEF MountFs, PrepareBundle, ConnectNetwork, TaskEnds, ReleaseNetwork,
           StopUnit, TeardownStop, TeardownReset, TeardownRelease
    <3> QED
        BY <1>3, <3>1, <3>2 DEF Actor
  <2> QED
      BY <2>1, <2>2, <2>3, StatusSetTells
<1> QED
    BY <1>1, <1>2, <1>3

\* The unit moves under the eyes of the monitor, or before there is one.
LEMMA UnitTells ==
    ASSUME TypeOK, TellsInv, Manager \/ Systemd
    PROVE  TellsInv'
<1>1. UNCHANGED <<monitor, events, status, recvPc, cell, msg, reply>>
    BY DEF Manager, CallReset, CallStart, CallStop, JobRemoved, JobTimeout, Systemd,
       UnitActivated, UnitStartFails, UnitExits, UnitStopped, ExternalStop,
       UnitBecomes, outsideSystemd, outsideManager, monitorVars, actorVars, askVars,
       clientVars
<1>2. UnitMoves
  <2>1. ASSUME NEW u, UnitBecomes(u)
        PROVE  UnitMoves
    <3>1. dirty \in BOOLEAN
        BY DEF TypeOK
    <3> QED
        BY <2>1, <3>1 DEF UnitBecomes, UnitMoves
  <2>2. UNCHANGED <<unit, monitorVars>> \/ \E u : UnitBecomes(u)
      BY DEF Manager, CallReset, CallStart, CallStop, JobRemoved, JobTimeout, Systemd,
         UnitActivated, UnitStartFails, UnitExits, UnitStopped, ExternalStop
  <2> QED
      BY <2>1, <2>2 DEF UnitMoves, monitorVars
<1> QED
    BY <1>1, <1>2, UnitMovesTells

\* What the monitor forwards is the state of the unit, and what the receiver asks
\* for is the oldest that was forwarded.
LEMMA EventsTell ==
    ASSUME TypeOK, MailboxInv, TellsInv, ForwardEvent \/ MonitorDies \/ Receiver
    PROVE  TellsInv'
<1>1. UNCHANGED <<status, cell, unit>>
    BY DEF ForwardEvent, MonitorDies, Receiver, ReceiveEvent, EventTransited,
       ReceiverFails, ReceiverReturns, outsideEvents, actorVars, systemdVars
<1>t. events \in Seq(UnitStates) /\ "recv" \in Clients
      /\ msg \in [Clients -> Messages] /\ reply \in [Clients -> Replies]
    BY DEF TypeOK, Clients
<1>2. CASE ForwardEvent
  <2>1. UNCHANGED <<monitor, recvPc, msg, reply>> /\ monitor = "on"
      BY <1>2 DEF ForwardEvent, askVars, clientVars
  <2>2. cell # "unset"
      BY <2>1 DEF TellsInv, BeforeSetup
  <2>3. CASE recvPc = "dead"
      BY <1>1, <2>1, <2>2, <2>3 DEF TellsInv, BeforeSetup, EventInv, HeardInv, Heard
  <2>4. CASE recvPc # "dead"
    <3>1. events' = Append(events, unit) /\ unit \in UnitStates
        BY <1>2, <2>4 DEF ForwardEvent, TypeOK
    <3>2. events' # <<>> /\ events'[Len(events')] = unit
        BY <1>t, <3>1
    <3> QED
        BY <1>1, <2>1, <2>2, <3>2 DEF TellsInv, BeforeSetup, EventInv, HeardInv, Heard
  <2> QED
      BY <2>3, <2>4
<1>3. CASE MonitorDies
  <2>1. UNCHANGED <<recvPc, events>> /\ monitor = "on" /\ monitor' = "dead"
      BY <1>3 DEF MonitorDies, clientVars
  <2> QED
      BY <1>1, <2>1 DEF TellsInv, BeforeSetup, EventInv, HeardInv, Heard
<1>4. CASE ReceiveEvent
  <2>1. /\ UNCHANGED <<monitor, dirty>> /\ recvPc' = "asking" /\ recvPc = "recv"
        /\ events # <<>> /\ events' = Tail(events)
        /\ msg'["recv"] = StatusOf(Head(events))
      BY <1>t, <1>4 DEF ReceiveEvent, Ask
  <2>2. cell # "unset"
      BY <2>1 DEF TellsInv, BeforeSetup
  <2>3. /\ events' # <<>> => events'[Len(events')] = events[Len(events)]
        /\ events' = <<>> => Head(events) = events[Len(events)]
    <3>1. /\ Len(Tail(events)) = Len(events) - 1 /\ Len(events) \in Nat
          /\ Len(events) > 0 /\ Tail(events) \in Seq(UnitStates)
        BY <1>t, <2>1
    <3>2. CASE Tail(events) = <<>>
      <4>1. Len(Tail(events)) = 0
          BY <3>1, <3>2
      <4>2. Len(events) = 1
          BY <3>1, <4>1
      <4> QED
          BY <1>t, <2>1, <3>2, <4>2
    <3>3. CASE Tail(events) # <<>>
      <4>1. Len(Tail(events)) \in 1..Len(Tail(events))
          BY <1>t, <2>1, <3>1, <3>3
      <4>2. Tail(events)[Len(Tail(events))] = events[Len(Tail(events)) + 1]
          BY <1>t, <2>1, <4>1
      <4> QED
          BY <2>1, <3>1, <3>3, <4>2
    <3> QED
        BY <3>2, <3>3
  <2>4. msg'["recv"] # "none"
    <3>1. Head(events) \in UnitStates
        BY <1>t, <2>1
    <3> QED
        BY <2>1, <3>1 DEF StatusOf, UnitStates, RunStates
  <2>5. EventInv'
      BY <1>1, <2>1, <2>3 DEF TellsInv, EventInv
  <2> QED
      BY <1>1, <2>1, <2>2, <2>4, <2>5 DEF TellsInv, BeforeSetup, HeardInv, Heard
<1>5. CASE EventTransited
  <2>1. /\ UNCHANGED <<monitor, dirty, events>> /\ recvPc' = "recv"
        /\ recvPc = "asking" /\ reply["recv"] \notin {"none", "err"}
      BY <1>5 DEF EventTransited, Answered, monitorVars
  <2>2. msg["recv"] = "none"
      BY <1>t, <2>1 DEF MailboxInv, BoxInv
  <2> QED
      BY <1>1, <2>1, <2>2 DEF TellsInv, BeforeSetup, EventInv, HeardInv, Heard
<1>6. CASE ReceiverFails \/ ReceiverReturns
  <2>1. /\ UNCHANGED <<monitor, dirty, events>> /\ recvPc' \in {"failing", "dead"}
        /\ recvPc \in {"asking", "failing"} \/ monitor = "dead"
      BY <1>6 DEF ReceiverFails, ReceiverReturns, monitorVars
  <2> QED
      BY <1>1, <2>1 DEF TellsInv, BeforeSetup, EventInv, HeardInv, Heard
<1> QED
    BY <1>2, <1>3, <1>4, <1>5, <1>6 DEF Receiver

LEMMA CallersTell ==
    ASSUME TypeOK, TellsInv, Initialize \/ PackageManager
    PROVE  TellsInv'
<1>1. UNCHANGED <<status, recvPc, cell, monitor, dirty, events, unit>>
    BY DEF Initialize, PackageManager, PMRequest, PMTeardown, PMStatusSeen, PMAnswered,
       outsideCallers, actorVars, monitorVars, systemdVars
<1>2. msg'["recv"] = msg["recv"] /\ reply'["recv"] = reply["recv"]
  <2>1. ASSUME NEW c \in {"init", "pm"}, NEW m, Ask(c, m) \/ Answered(c)
        PROVE  msg'["recv"] = msg["recv"] /\ reply'["recv"] = reply["recv"]
      BY <2>1 DEF Ask, Answered, TypeOK, Clients
  <2>2. \E c \in {"init", "pm"} : \E m : Ask(c, m) \/ Answered(c)
      BY DEF Initialize, PackageManager, PMRequest, PMTeardown, PMStatusSeen, PMAnswered
  <2> QED
      BY <2>1, <2>2
<1> QED
    BY <1>1, <1>2 DEF TellsInv, BeforeSetup, EventInv, HeardInv, Heard

LEMMA TellsStep ==
    ASSUME TypeOK, MailboxInv, HandlerInv, ManagerInv, ReceiverInv, ResetInv,
           TellsInv, [Next]_vars
    PROVE  TellsInv'
<1>1. CASE UNCHANGED vars
    BY <1>1 DEF vars, actorVars, askVars, clientVars, monitorVars, systemdVars,
       TellsInv, BeforeSetup, EventInv, HeardInv, Heard
<1>2. CASE Next
    BY <1>2, ActorTells, UnitTells, EventsTell, CallersTell DEF Next
<1> QED
    BY <1>1, <1>2

-----------------------------------------------------------------------------
(* The theorems *)

IInv == TypeOK /\ MailboxInv /\ HandlerInv /\ ManagerInv /\ ReceiverInv

LEMMA IInvInit == Init => IInv
<1> SUFFICES ASSUME Init PROVE IInv
    OBVIOUS
<1>1. TypeOK
    BY TypeInit
<1>2. MailboxInv
    BY DEF Init, MailboxInv, BoxInv, Clients
<1>3. HandlerInv /\ ManagerInv
    BY DEF Init, HandlerInv, ManagerInv, TransientHidden, Transient
<1>4. ReceiverInv
    BY DEF Init, ReceiverInv, DeadReceiverMeansError, Clients
<1> QED
    BY <1>1, <1>2, <1>3, <1>4 DEF IInv

LEMMA IInvStep == IInv /\ [Next]_vars => IInv'
BY TypeStep, MailboxStep, HandlerStep, ManagerStep, ReceiverStep DEF IInv

LEMMA IInvInvariant == Spec => []IInv
BY IInvInit, IInvStep, PTL DEF Spec

\* Every variable keeps its type, whatever the environment does.
THEOREM TypeCorrect == Spec => []TypeOK
<1>1. IInv => TypeOK
    BY DEF IInv
<1> QED
    BY <1>1, IInvInvariant, PTL

\* No message of any client finds the package in a status that a handler only
\* passes through (transition_to writes the final status before it returns).
THEOREM TransientStatusIsHidden == Spec => []TransientHidden
<1>1. IInv => TransientHidden
    BY DEF IInv, HandlerInv
<1> QED
    BY <1>1, IInvInvariant, PTL

\* A StopUnit that teardown()'s timeout gave up is served before reset_failed(),
\* whose answer teardown() waits for: no handler returns with a job outstanding.
THEOREM NoJobIsAbandoned == Spec => []NoAbandonedJob
<1>1. IInv => NoAbandonedJob
    BY DEF IInv, ManagerInv, NoAbandonedJob
<1> QED
    BY <1>1, IInvInvariant, PTL

\* When run_status_receiver has returned, the status is Error for good.
THEOREM DeadReceiverLeavesError == Spec => []DeadReceiverMeansError
<1>1. IInv => DeadReceiverMeansError
    BY DEF IInv, ReceiverInv
<1> QED
    BY <1>1, IInvInvariant, PTL

\* With nothing in flight the status tells the state of the unit: a change that
\* the monitor has not forwarded, that waits in the channel, or that the receiver
\* was refused, is what may lie between the two.
THEOREM StatusTellsItsUnit == Spec => []StatusTellsUnit
<1>1. Init => TellsInv /\ ResetInv
    BY DEF Init, TellsInv, BeforeSetup, EventInv, HeardInv, Heard, ResetInv
<1>2. IInv /\ TellsInv /\ ResetInv /\ [Next]_vars => (TellsInv /\ ResetInv)'
    BY TellsStep, ResetStep DEF IInv
<1>3. TellsInv => StatusTellsUnit
    BY DEF TellsInv, HeardInv, Heard, StatusTellsUnit, AtRest
<1> QED
    BY <1>1, <1>2, <1>3, IInvInvariant, PTL DEF Spec

-----------------------------------------------------------------------------
(* What needs a mount point that is empty at first *)

LEMMA ResourcesInvariant ==
    ASSUME InitialLayers \subseteq {0}
    PROVE  Spec => []ResourceInv
<1>1. Init => ResourceInv
  <2> SUFFICES ASSUME Init PROVE ResourceInv
      OBVIOUS
  <2>1. layers = 0 /\ status = "Verified" /\ pc = "idle"
      BY DEF Init
  <2> QED
      BY <2>1 DEF ResourceInv, FullStack, Live, RunStates
<1>2. IInv /\ ResourceInv /\ [Next]_vars => ResourceInv'
    BY ResourceStep DEF IInv
<1> QED
    BY <1>1, <1>2, IInvInvariant, PTL DEF Spec

\* A package that reports Ready or Running has its mounts, its executor and its
\* network: setup() reports Ready only when all four tasks succeeded, and what
\* takes resources away changes the status first.
THEOREM LivePackageHasResources ==
    ASSUME InitialLayers \subseteq {0}
    PROVE  Spec => []LiveHasResources
<1>1. ResourceInv => LiveHasResources
    BY DEF ResourceInv, LiveHasResources, Provisioned
<1> QED
    BY <1>1, ResourcesInvariant, PTL

\* Package::teardown may skip a Verified, Cleaned or Upgrading package: nothing
\* is mounted, provided that nothing was when the daemon started.
THEOREM SkippedPackageIsUnmounted ==
    ASSUME InitialLayers \subseteq {0}
    PROVE  Spec => []SkippedIsUnmounted
<1>1. ResourceInv => SkippedIsUnmounted
    BY DEF ResourceInv, SkippedIsUnmounted
<1> QED
    BY <1>1, ResourcesInvariant, PTL
=============================================================================
