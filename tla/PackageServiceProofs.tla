------------------------ MODULE PackageServiceProofs ------------------------
(***************************************************************************)
(* PackageLifecycle implements PackageService for every value of the       *)
(* constants, whatever fails and whatever a previous daemon left mounted.  *)
(***************************************************************************)
EXTENDS PackageLifecycleProofs

\* The value of the service's variable busy.
working == IF pc = "idle" THEN "none" ELSE request

\* No more is mounted than belongs there, and a mount task that succeeded has
\* left something mounted.
MountInv ==
    /\ layers <= FullStack(Overlay)
    /\ pc = "setup" /\ task["mount"] = "ok" => layers > 0

-----------------------------------------------------------------------------
(* Mounting *)

\* Nobody but the actor changes the status, the place of the handler, its
\* request or the mounts.
LEMMA OthersLeaveActor ==
    ASSUME IInv, \/ Manager \/ Systemd \/ ForwardEvent \/ MonitorDies \/ Receiver
                 \/ Initialize \/ PackageManager \/ UNCHANGED vars
    PROVE  UNCHANGED <<status, pc, task, layers, working>>
<1>t. TypeOK /\ MailboxInv /\ (pc # "idle" => mailbox # <<>>)
    BY DEF IInv, MailboxInv
<1>1. UNCHANGED <<status, pc, task, layers>>
    BY DEF Manager, CallReset, CallStart, CallStop, JobRemoved, JobTimeout,
       Systemd, UnitActivated, UnitStartFails, UnitExits, UnitStopped,
       ExternalStop, ForwardEvent, MonitorDies, Receiver, ReceiveEvent,
       EventTransited, ReceiverFails, ReceiverReturns, Initialize,
       PackageManager, PMRequest, PMTeardown, PMStatusSeen, PMAnswered,
       outsideSystemd, outsideManager, outsideEvents, outsideCallers, actorVars, vars
<1>2. CASE Receiver \/ Initialize \/ PackageManager
    BY <1>t, <1>1, <1>2, SendersKeepRequest DEF working
<1>3. CASE ~(Receiver \/ Initialize \/ PackageManager)
  <2>1. UNCHANGED askVars
      BY <1>3 DEF Manager, CallReset, CallStart, CallStop, JobRemoved,
         JobTimeout, Systemd, UnitActivated, UnitStartFails, UnitExits,
         UnitStopped, ExternalStop, ForwardEvent, MonitorDies, outsideSystemd,
         outsideManager, outsideEvents, vars
  <2> QED
      BY <1>1, <2>1 DEF working, request, askVars
<1> QED
    BY <1>1, <1>2, <1>3

LEMMA MountGains ==
    ASSUME NEW n \in Layers, NEW overlay \in BOOLEAN, n <= FullStack(overlay),
           NEW mayFail, NEW r \in Mount(n, overlay, mayFail)
    PROVE  /\ r.layers \in Layers /\ r.layers <= FullStack(overlay)
           /\ r.ok => r.layers > 0
           /\ n > 0 => r.ok /\ r.layers = n
BY DEF Mount, MountDevice, Result, Results, Layers, FullStack

\* What is mounted already is kept; a success leaves something mounted.
LEMMA MountWithRetryGains ==
    ASSUME NEW n \in Layers, NEW overlay \in BOOLEAN, n <= FullStack(overlay),
           NEW f, NEW g, NEW r \in MountWithRetry(n, overlay, f, g)
    PROVE  /\ r.layers \in Layers /\ r.layers <= FullStack(overlay)
           /\ r.ok => r.layers > 0
           /\ n > 0 => r.layers = n
<1>1. CASE r \in Mount(n, overlay, f)
    BY <1>1, MountGains
<1>2. ASSUME NEW s \in Mount(n, overlay, f), ~s.ok,
             NEW u \in Unmount(s.layers, overlay, g),
             IF u.ok THEN r \in Mount(u.layers, overlay, f) ELSE r = u
      PROVE  /\ r.layers \in Layers /\ r.layers <= FullStack(overlay)
             /\ r.ok => r.layers > 0
             /\ n > 0 => r.layers = n
  <2>1. s.layers \in Layers /\ s.layers <= FullStack(overlay) /\ ~(n > 0)
      BY <1>2, MountGains
  <2>2. u.layers <= s.layers /\ (u.ok => u.layers = 0) /\ u.layers \in Layers
      BY <1>2, <2>1, UnmountEffect, UnmountTyped
  <2>3. u.layers <= FullStack(overlay)
      BY <2>1, <2>2 DEF Layers, FullStack
  <2>4. CASE u.ok
      BY <1>2, <2>1, <2>2, <2>3, <2>4, MountGains
  <2>5. CASE ~u.ok
      BY <1>2, <2>1, <2>2, <2>3, <2>5
  <2> QED
      BY <2>4, <2>5
<1> QED
    BY <1>1, <1>2 DEF MountWithRetry

\* MountInv needs to be looked at where a mount task ends and where the file
\* system is unmounted; setup() starts with its tasks running.
LEMMA MountStep ==
    ASSUME IInv, MountInv, [Next]_vars
    PROVE  MountInv'
<1>t. TypeOK /\ layers \in Layers /\ Overlay \in BOOLEAN
    BY ConstantsOK DEF IInv, TypeOK, ConstantsOK
<1>1. CASE Receive
  <2>1. layers' = layers
      BY <1>1 DEF Receive
  <2>2. pc' = "setup" => task'["mount"] = "run"
      BY <1>1 DEF Receive, GetStatus, Teardown, Refuse, Transition, Finish,
         Answer, Tasks
  <2> QED
      BY <2>1, <2>2 DEF MountInv
<1>2. CASE MountFs
  <2>1. PICK r \in MountWithRetry(layers, Overlay, "mount" \in Faults,
                                  "unmount" \in Faults) :
            TaskEnds("mount", r.ok) /\ layers' = r.layers
      BY <1>2 DEF MountFs
  <2>2. r.layers <= FullStack(Overlay) /\ (r.ok => r.layers > 0)
      BY <1>t, MountWithRetryGains DEF MountInv
  <2>3. task'["mount"] = "ok" => r.ok
      BY <1>t, <2>1 DEF TaskEnds, TypeOK, Tasks
  <2> QED
      BY <2>1, <2>2, <2>3 DEF MountInv
<1>3. CASE InitExecutor \/ PrepareBundle \/ ConnectNetwork
  <2>1. layers' = layers /\ pc' = pc
      BY <1>3 DEF InitExecutor, PrepareBundle, ConnectNetwork, TaskEnds
  <2>2. task'["mount"] = task["mount"]
      BY <1>3, <1>t DEF InitExecutor, PrepareBundle, ConnectNetwork, TaskEnds,
         TypeOK, Tasks
  <2> QED
      BY <2>1, <2>2 DEF MountInv
<1>4. CASE JoinSetup \/ ReleaseNetwork
    BY <1>4 DEF JoinSetup, ReleaseNetwork, Finish, Answer, MountInv
<1>5. CASE UnmountFs
  <2>1. PICK r \in Unmount(layers, Overlay, "unmount" \in Faults) :
            layers' = r.layers
      BY <1>5 DEF UnmountFs
  <2>2. r.layers <= layers /\ r.layers \in Layers
      BY <1>t, UnmountEffect, UnmountTyped DEF MountInv
  <2>3. pc' = "idle"
      BY <1>5 DEF UnmountFs, Finish, Answer
  <2> QED
      BY <1>t, <2>1, <2>2, <2>3 DEF MountInv, Layers, FullStack
<1>6. CASE \/ ExecutorFails \/ StartUnit \/ StopUnit \/ ResetDone \/ JobDone
           \/ TeardownStop \/ TeardownReset \/ TeardownRelease
  <2>1. pc' # "setup" /\ layers' = layers
      BY <1>6 DEF ExecutorFails, StartUnit, StopUnit, ResetDone, JobDone,
         TeardownStop, TeardownReset, TeardownRelease, AskManager, Finish,
         Answer, outsideActor
  <2> QED
      BY <2>1 DEF MountInv
<1>7. CASE Manager \/ Systemd \/ ForwardEvent \/ MonitorDies \/ Receiver
               \/ Initialize \/ PackageManager \/ UNCHANGED vars
    BY <1>7, OthersLeaveActor DEF MountInv
<1> QED
    BY <1>1, <1>2, <1>3, <1>4, <1>5, <1>6, <1>7 DEF Next, Actor

-----------------------------------------------------------------------------
(* The steps of the actor, as steps of the service *)

\* The service has the transition table and the outcomes of the actor.
LEMMA SameTable ==
    /\ Service!Statuses = Statuses /\ Service!Live = Live
    /\ \A t : Service!From(t) = From(t)
    /\ \A s, t : Service!Ignored(s, t) <=> Ignored(s, t)
BY DEF Service!Statuses, Statuses, Service!Live, Live, Service!RunStates, RunStates,
   Service!From, From, Service!Ignored, Ignored

\* A step within a handler, or one that is none of the package's.
LEMMA Stutters ==
    ASSUME UNCHANGED <<status, layers, working>>
    PROVE  UNCHANGED Service!vars
BY DEF Service!vars, working

\* A message is answered at once, is refused, or begins to be worked on.
LEMMA ReceiveRefines ==
    ASSUME IInv, Receive
    PROVE  [Service!Next]_(Service!vars)
<1>1. pc = "idle" /\ layers' = layers /\ mailbox # <<>>
    BY DEF Receive
<1>2. CASE GetStatus \/ Refuse
    BY <1>1, <1>2, Stutters DEF GetStatus, Refuse, Answer, working
<1>3. CASE Teardown
  <2>1. pc' # "idle" /\ request' = "Teardown" /\ status' = status
      BY <1>3 DEF Teardown, request, askVars
  <2> QED
      BY <1>1, <2>1 DEF Service!Next, Service!BeginTeardown
<1>4. CASE Transition
  <2>1. /\ request \in Statuses /\ request # status /\ status' = request
        /\ status \in From(request) /\ ~Ignored(status, request)
      BY <1>4 DEF Transition, Finish, Applicable
  <2>2. CASE pc' = "idle"
    <3>1. \/ request \in Live \cup {"Cleaned", "Error", "Broken"}
          \/ request = "Upgrading" /\ status = "Verified"
        BY <1>4, <2>2 DEF Transition
    <3>2. Service!Become(request)
        BY <1>1, <2>1, <2>2, <3>1, SameTable DEF Service!Become
    <3> QED
        BY <2>1, <3>2, SameTable DEF Service!Next
  <2>3. CASE pc' # "idle"
    <3>1. UNCHANGED askVars /\ request \in Service!Worked \ {"Teardown"}
        BY <1>4, <2>3 DEF Transition, Finish, Answer, Service!Worked
    <3>2. request' = request
        BY <3>1 DEF request, askVars
    <3>3. Service!Begin(request)
        BY <1>1, <2>1, <2>3, <3>1, <3>2, SameTable DEF Service!Begin
    <3> QED
        BY <2>1, <3>3, SameTable DEF Service!Next
  <2> QED
      BY <2>2, <2>3
<1> QED
    BY <1>2, <1>3, <1>4 DEF Receive

\* A handler returns: in what status, and with what mounted.
LEMMA EndRefines ==
    ASSUME IInv, pc # "idle", pc' = "idle",
           request = "Teardown" => status' = status,
           request # "Teardown" => status' \in Service!EndsIn(request, status),
           \/ layers' = layers
           \/ layers' <= layers /\ request \in Service!Unmounts,
           layers \in Nat, layers' \in Nat,
           (layers' > 0) \in Service!EndsMounted(request, status'),
           request # "none"
    PROVE  Service!Next
<1>1. status' \in Service!EndsIn(request, status)
    BY DEF Service!EndsIn
<1>2. (layers' > 0) # (layers > 0) => layers > 0 /\ request \in Service!Unmounts
    OBVIOUS
<1> QED
    BY <1>1, <1>2 DEF Service!Next, Service!End

\* A handler that goes on keeps its request and its status.
LEMMA GoesOn ==
    ASSUME pc # "idle", pc' # "idle", UNCHANGED <<status, layers, askVars>>
    PROVE  UNCHANGED Service!vars
<1>1. UNCHANGED working
    BY DEF working, request, askVars
<1> QED
    BY <1>1, Stutters

\* setup(): the file system comes, or setup() ends in Ready with it mounted.
LEMMA SetupRefines ==
    ASSUME IInv, MountInv, InitExecutor \/ MountFs \/ PrepareBundle
                               \/ ConnectNetwork \/ JoinSetup
    PROVE  [Service!Next]_(Service!vars)
<1>t. TypeOK /\ layers \in Layers /\ Overlay \in BOOLEAN
    BY ConstantsOK DEF IInv, TypeOK, ConstantsOK
<1>n. pc = "setup" /\ request = "SettingUp"
    BY DEF IInv, HandlerInv, InitExecutor, MountFs, PrepareBundle,
       ConnectNetwork, TaskEnds, JoinSetup
<1>1. CASE InitExecutor \/ PrepareBundle \/ ConnectNetwork
    BY <1>1, <1>n, GoesOn DEF InitExecutor, PrepareBundle, ConnectNetwork, TaskEnds
<1>2. CASE MountFs
  <2>1. PICK r \in MountWithRetry(layers, Overlay, "mount" \in Faults,
                                  "unmount" \in Faults) :
            TaskEnds("mount", r.ok) /\ layers' = r.layers
      BY <1>2 DEF MountFs
  <2>2. layers' \in Layers /\ (layers > 0 => layers' = layers)
      BY <1>t, <2>1, MountWithRetryGains DEF MountInv
  <2>3. UNCHANGED <<status, pc, working>>
      BY <2>1 DEF TaskEnds, working, request, askVars
  <2>4. CASE layers' = layers
      BY <2>3, <2>4, Stutters
  <2>5. CASE layers' # layers
      BY <1>t, <1>n, <2>2, <2>3, <2>5 DEF Service!Next, Service!Remount,
         Service!Mounts, working, Layers
  <2> QED
      BY <2>4, <2>5
<1>3. CASE JoinSetup
  <2>1. CASE \A t \in Tasks : task[t] = "ok"
    <3>1. layers > 0
        BY <1>n, <2>1 DEF MountInv, Tasks
    <3>2. pc' = "idle" /\ status' = "Ready" /\ layers' = layers
        BY <1>3, <2>1 DEF JoinSetup, Finish, Answer
    <3>3. /\ status' \in Service!EndsIn(request, status)
          /\ (layers' > 0) \in Service!EndsMounted(request, status')
        BY <1>n, <3>1, <3>2 DEF Service!EndsIn, Service!EndsMounted
    <3> QED
        BY <1>t, <1>n, <3>2, <3>3, EndRefines DEF Layers
  <2>2. CASE ~ \A t \in Tasks : task[t] = "ok"
      BY <1>3, <1>n, <2>2, GoesOn DEF JoinSetup
  <2> QED
      BY <2>1, <2>2
<1> QED
    BY <1>1, <1>2, <1>3

\* cleanup() and the end of teardown(): what was unmounted without an error is
\* gone, and the request ends as it may.
LEMMA UnmountRefines ==
    ASSUME IInv, MountInv, ReleaseNetwork \/ UnmountFs
    PROVE  [Service!Next]_(Service!vars)
<1>t. TypeOK /\ layers \in Layers /\ Overlay \in BOOLEAN
    BY ConstantsOK DEF IInv, TypeOK, ConstantsOK
<1>n. /\ pc # "idle"
      /\ request \in {"SettingUp", "CleaningUp", "Upgrading", "Teardown"}
    BY DEF IInv, HandlerInv, ReleaseNetwork, UnmountFs
<1>1. CASE ReleaseNetwork
    BY <1>1, <1>n, GoesOn DEF ReleaseNetwork
<1>2. CASE UnmountFs
  <2>1. PICK r \in Unmount(layers, Overlay, "unmount" \in Faults) :
            /\ layers' = r.layers
            /\ \/ /\ request = "SettingUp" \/ (~r.ok /\ request # "Teardown")
                  /\ Finish("Error")
               \/ request = "CleaningUp" /\ r.ok /\ Finish("Cleaned")
               \/ request = "Upgrading" /\ r.ok /\ Finish("Upgrading")
               \/ /\ request = "Teardown"
                  /\ Answer(IF r.ok THEN "ok" ELSE "err")
                  /\ UNCHANGED status
      BY <1>2 DEF UnmountFs
  <2>2. r.layers <= layers /\ r.layers \in Layers /\ (r.ok => r.layers = 0)
      BY <1>t, UnmountEffect, UnmountTyped DEF MountInv
  <2>3. pc' = "idle" /\ layers' = r.layers
      BY <2>1 DEF Finish, Answer
  <2>4. /\ request = "Teardown" => status' = status
        /\ request # "Teardown" => status' \in Service!EndsIn(request, status)
      BY <1>n, <2>1 DEF Finish, Service!EndsIn
  <2>5. (layers' > 0) \in Service!EndsMounted(request, status')
    <3>1. /\ request = "SettingUp" => status' = "Error"
          /\ request = "CleaningUp" /\ status' = "Cleaned" => r.ok
          /\ request = "Upgrading" /\ status' = "Upgrading" => r.ok
        BY <1>n, <2>1 DEF Finish
    <3>2. /\ (layers' > 0) \in BOOLEAN
          /\ r.ok => (layers' > 0) = FALSE
        BY <2>2, <2>3
    <3>3. CASE request = "CleaningUp" /\ status' = "Cleaned"
        BY <3>1, <3>2, <3>3 DEF Service!EndsMounted
    <3>4. CASE request = "Upgrading" /\ status' = "Upgrading"
        BY <3>1, <3>2, <3>4 DEF Service!EndsMounted
    <3>5. CASE /\ ~(request = "CleaningUp" /\ status' = "Cleaned")
               /\ ~(request = "Upgrading" /\ status' = "Upgrading")
        BY <3>1, <3>2, <3>5 DEF Service!EndsMounted
    <3> QED
        BY <3>3, <3>4, <3>5
  <2>6. request \in Service!Unmounts /\ layers \in Nat /\ layers' \in Nat
      BY <1>t, <1>n, <2>2, <2>3 DEF Service!Unmounts, Layers
  <2> QED
      BY <1>n, <2>2, <2>3, <2>4, <2>5, <2>6, EndRefines
<1> QED
    BY <1>1, <1>2

\* A start or a stop leaves the mounts alone and ends in what became of the unit.
LEMMA StartStopEnds ==
    ASSUME IInv, pc # "idle", pc' = "idle", layers' = layers,
           request \in {"StartRequested", "StopRequested"},
           status' \in Live \cup {"Error"}
    PROVE  Service!Next
<1>1. layers \in Nat
    BY DEF IInv, TypeOK, Layers
<1>2. status' \in Service!EndsIn(request, status)
    BY SameTable DEF Service!EndsIn
<1>3. (layers' > 0) \in BOOLEAN
    BY <1>1
<1>4. (layers' > 0) \in Service!EndsMounted(request, status')
    BY <1>3 DEF Service!EndsMounted
<1> QED
    BY <1>1, <1>2, <1>4, EndRefines

LEMMA ExecutorRefines ==
    ASSUME IInv, ExecutorFails \/ StartUnit \/ StopUnit \/ ResetDone \/ JobDone
    PROVE  [Service!Next]_(Service!vars)
<1>n. pc # "idle" /\ request \in {"StartRequested", "StopRequested"}
    BY DEF IInv, HandlerInv, ExecutorFails, StartUnit, StopUnit, ResetDone, JobDone
<1>1. layers' = layers
    BY DEF ExecutorFails, StartUnit, StopUnit, ResetDone, JobDone, outsideActor
<1>2. CASE pc' = "idle"
  <2>1. MapJobResult(result, unit) \in Live \cup {"Error"}
      BY DEF IInv, TypeOK, MapJobResult, StatusOf, UnitStates, Live
  <2>2. unit \notin {"inactive", "failed"} => unit \in Live
      BY DEF IInv, TypeOK, UnitStates, Live
  <2>3. status' \in Live \cup {"Error"}
      BY <1>2, <2>1, <2>2 DEF ExecutorFails, StartUnit, StopUnit, ResetDone, JobDone,
         AskManager, Finish, Live
  <2> QED
      BY <1>n, <1>1, <1>2, <2>3, StartStopEnds
<1>3. CASE pc' # "idle"
  <2>1. UNCHANGED <<status, askVars>>
      BY <1>3 DEF ExecutorFails, StartUnit, StopUnit, ResetDone, JobDone, Finish, Answer
  <2> QED
      BY <1>n, <1>1, <1>3, <2>1, GoesOn
<1> QED
    BY <1>2, <1>3

LEMMA TeardownRefines ==
    ASSUME TeardownStop \/ TeardownReset \/ TeardownRelease
    PROVE  UNCHANGED Service!vars
<1>1. pc # "idle" /\ pc' # "idle" /\ UNCHANGED <<status, layers, askVars>>
    BY DEF TeardownStop, TeardownReset, TeardownRelease, AskManager, outsideActor
<1> QED
    BY <1>1, GoesOn

-----------------------------------------------------------------------------
(* The refinement *)

LEMMA StepRefines ==
    ASSUME IInv, MountInv, [Next]_vars
    PROVE  [Service!Next]_(Service!vars)
<1>1. CASE Receive
    BY <1>1, ReceiveRefines
<1>2. CASE InitExecutor \/ MountFs \/ PrepareBundle \/ ConnectNetwork \/ JoinSetup
    BY <1>2, SetupRefines
<1>3. CASE ReleaseNetwork \/ UnmountFs
    BY <1>3, UnmountRefines
<1>4. CASE ExecutorFails \/ StartUnit \/ StopUnit \/ ResetDone \/ JobDone
    BY <1>4, ExecutorRefines
<1>5. CASE TeardownStop \/ TeardownReset \/ TeardownRelease
    BY <1>5, TeardownRefines
<1>6. CASE Manager \/ Systemd \/ ForwardEvent \/ MonitorDies \/ Receiver
               \/ Initialize \/ PackageManager \/ UNCHANGED vars
    BY <1>6, OthersLeaveActor, Stutters
<1> QED
    BY <1>1, <1>2, <1>3, <1>4, <1>5, <1>6 DEF Next, Actor

\* The transition actor, its tasks and systemd do what a package promises: each
\* request begins where the transition table lets it and ends as it may, and
\* only setup() mounts.  A previous daemon mounted no more than this one would.
THEOREM ServiceImplemented ==
    ASSUME \A n \in InitialLayers : n <= FullStack(Overlay)
    PROVE  Spec => ImplementsService
<1>1. Init => Service!Init /\ MountInv
  <2> SUFFICES ASSUME Init PROVE Service!Init /\ MountInv
      OBVIOUS
  <2>1. status = "Verified" /\ pc = "idle" /\ layers \in InitialLayers
      BY DEF Init
  <2>2. Service!Init
      BY <2>1 DEF Service!Init
  <2> QED
      BY <2>1, <2>2 DEF MountInv
<1>2. IInv /\ MountInv /\ [Next]_vars => MountInv'
    BY MountStep
<1>3. IInv /\ MountInv /\ [Next]_vars => [Service!Next]_(Service!vars)
    BY StepRefines
<1> QED
    BY <1>1, <1>2, <1>3, IInvInvariant, PTL DEF Spec, ImplementsService, Service!Spec
=============================================================================
