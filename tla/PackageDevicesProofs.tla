------------------------ MODULE PackageDevicesProofs ------------------------
(***************************************************************************)
(* What holds of PackageDevices for any packages, devices, bounds and      *)
(* faults, however the setups overlap.                                     *)
(***************************************************************************)
EXTENDS PackageDevices, TLAPS

-----------------------------------------------------------------------------
(* The inductive invariant *)

\* Where a setup holds a loop device, and where a dm device as well.
WithDev  == {"load", "resume", "cleanup", "base", "overlay", "rollback", "drop_dm"}
WithLoop == WithDev \cup {"create", "drop_loop"}

\* A stack is a dm device, and an overlay if one is configured.
ShapeInv == \A p \in Pkgs :
    /\ Len(stack[p]) \in 0..FullDepth
    /\ IsMounted(p) => stack[p][1] \in Devs

\* What is mounted is on a live device over a loop device bound to the package.
ChainInv == \A p \in Pkgs : IsMounted(p) =>
    LET d == dm[stack[p][1]]
    IN  d.state = "active" /\ d.on \in Loops /\ loop[d.on].user = p

\* The loop device a setup holds is bound to the file that is installed.
HoldInv == \A p \in Pkgs :
    IF step[p] \in WithLoop THEN held[p] \in Loops /\ loop[held[p]] = BoundTo(p)
                            ELSE held[p] = "none"

\* The dm device a setup has is its own, and as far as the setup has come.
IsOn(p, s) == dm[devOf[p]].state = s /\ dm[devOf[p]].on = held[p]

DevAt(p) ==
    /\ ~dm[devOf[p]].deferred
    /\ step[p] = "load" => dm[devOf[p]] = Created
    /\ step[p] = "resume" => IsOn(p, "loaded")
    /\ step[p] = "cleanup" => dm[devOf[p]].state \in {"created", "loaded"}
    /\ step[p] \in {"base", "overlay", "rollback", "drop_dm"} => IsOn(p, "active")

DevInv == \A p \in Pkgs :
    IF step[p] \in WithDev THEN devOf[p] \in Devs /\ DevAt(p)
                           ELSE devOf[p] = "none"

OwnDevInv == \A p, q \in Pkgs : p # q /\ devOf[p] \in Devs => devOf[q] # devOf[p]

\* A setup that attaches found nothing mounted, and one that succeeded has mounted
\* everything.
StepInv == \A p \in Pkgs :
    /\ step[p] \in {"attach", "create", "load", "resume", "cleanup", "base"} =>
           stack[p] = <<>>
    /\ step[p] \in {"overlay", "rollback"} => Overlay /\ Len(stack[p]) = 1
    /\ made[p] => step[p] \in {"drop_dm", "drop_loop"} /\ Len(stack[p]) = FullDepth

\* Each package the actor is to serve waits for it, once.
MailInv ==
    /\ \A i \in DOMAIN mailbox : step[mailbox[i]] = "attach"
    /\ \A i, j \in DOMAIN mailbox : mailbox[i] = mailbox[j] => i = j

\* Without a crash or a failed release a device that is not free has a holder, or is
\* one the kernel frees with its last user.
LetGoInv ==
    /\ \A d \in Devs : dm[d] = NoDev \/ dm[d].deferred \/ \E p \in Pkgs : devOf[p] = d
    /\ \A l \in Loops : loop[l].user \in Pkgs =>
           loop[l].clear \/ held[loop[l].user] = l

\* Without a crash a package is mounted only between its setup and its teardown,
\* over the file that is installed.
UpInv == \A p \in Pkgs :
    /\ step[p] = "verified" => stack[p] = <<>>
    /\ step[p] = "up" => Len(stack[p]) = FullDepth
    /\ IsMounted(p) => loop[dm[stack[p][1]].on].latest

ChainsInv == ShapeInv /\ ChainInv
SetupInv  == HoldInv /\ DevInv /\ OwnDevInv /\ StepInv /\ MailInv

IInv ==
    /\ TypeOK /\ ChainsInv /\ SetupInv
    /\ faults \cap {"crash", "release"} = {} => LetGoInv
    /\ "crash" \notin faults => UpInv

-----------------------------------------------------------------------------
(* Type correctness *)

\* The parts of the type invariant.
LoopStates == [user : Pkgs \cup {"none", "host"}, latest : BOOLEAN, clear : BOOLEAN]
DevStates  == [state : {"none", "created", "loaded", "active"},
               on : Loops \cup {"none"}, deferred : BOOLEAN]

KernelType ==
    /\ loop \in [Loops -> LoopStates]
    /\ dm \in [Devs -> DevStates]
    /\ stack \in [Pkgs -> Seq(Devs \cup {"overlay"})]

StepType == step \in [Pkgs -> Resting \cup Mounting \cup {"teardown"}]

TaskType ==
    /\ held \in [Pkgs -> Loops \cup {"none"}]
    /\ devOf \in [Pkgs -> Devs \cup {"none"}]
    /\ made \in [Pkgs -> BOOLEAN] /\ retried \in [Pkgs -> BOOLEAN]

ActorType ==
    /\ mailbox \in Seq(Pkgs)
    /\ try \in [dev : Loops \cup {"none"}, busy : 0..BusyMax, again : 0..AgainMax]
    /\ faults \in FaultSets

LEMMA TypeParts == TypeOK <=> KernelType /\ StepType /\ TaskType /\ ActorType
  BY DEF TypeOK, KernelType, LoopStates, DevStates, StepType, TaskType, ActorType

\* The states devices are put into are states of devices.
LEMMA StatesOfDevices ==
  /\ NoDev \in DevStates /\ Created \in DevStates
  /\ \A u \in Pkgs \cup {"none", "host"} : BoundTo(u) \in LoopStates
  BY DEF NoDev, Created, BoundTo, DevStates, LoopStates

\* The package that is served is one, and the others keep their order behind it.
LEMMA ServingIsFirst ==
  ASSUME ActorType, mailbox # <<>>
  PROVE  /\ Serving \in Pkgs /\ Serving = mailbox[1] /\ 1 \in DOMAIN mailbox
         /\ Tail(mailbox) \in Seq(Pkgs)
         /\ \A i \in DOMAIN Tail(mailbox) :
                i + 1 \in DOMAIN mailbox /\ Tail(mailbox)[i] = mailbox[i + 1]
  BY DEF ActorType, Serving

LEMMA AnswerType ==
  ASSUME TypeOK, mailbox # <<>>, NEW s \in Resting \cup Mounting, Answer(s),
         UNCHANGED faults
  PROVE  StepType' /\ ActorType'
<1>1. ActorType /\ StepType
  BY TypeParts
<1>2. Serving \in Pkgs /\ Tail(mailbox) \in Seq(Pkgs)
  BY <1>1, ServingIsFirst
<1>3. StepType'
  BY <1>1, <1>2 DEF StepType, Answer, Goto
<1>4. ActorType'
  BY <1>1, <1>2, DeviceConstantsOK DEF ActorType, Answer, NoTry
<1>. QED BY <1>3, <1>4

LEMMA MountPkgfsType ==
  ASSUME TypeOK, NEW p \in Pkgs, MountPkgfs(p), UNCHANGED <<try, faults>>
  PROVE  StepType' /\ ActorType'
<1>1. ActorType /\ StepType
  BY TypeParts
<1>2. StepType'
  BY <1>1 DEF StepType, MountPkgfs, Goto, Resting, Mounting
<1>3. mailbox' \in Seq(Pkgs)
  BY <1>1 DEF ActorType, MountPkgfs
<1>. QED BY <1>1, <1>2, <1>3 DEF ActorType

LEMMA RetryType ==
  ASSUME TypeOK, mailbox # <<>>, UNCHANGED faults,
         RetryOn("busy", BusyMax) \/ RetryOn("again", AgainMax)
  PROVE  StepType' /\ ActorType'
<1>1. ActorType /\ StepType
  BY TypeParts
<1>2. CASE Answer("lost")
  BY <1>2, AnswerType DEF Mounting
<1>3. CASE try.busy # BusyMax /\ UNCHANGED <<step, mailbox>>
           /\ try' = [try EXCEPT !.dev = "none", !.busy = @ + 1]
  <2>1. try.busy \in 0..BusyMax /\ try.again \in 0..AgainMax
        /\ try.busy + 1 \in 0..BusyMax
    BY <1>1, <1>3, DeviceConstantsOK DEF ActorType
  <2>2. try' = [dev |-> "none", busy |-> try.busy + 1, again |-> try.again]
    BY <1>1, <1>3 DEF ActorType
  <2>. QED BY <1>1, <1>3, <2>1, <2>2 DEF StepType, ActorType
<1>4. CASE try.again # AgainMax /\ UNCHANGED <<step, mailbox>>
           /\ try' = [try EXCEPT !.dev = "none", !.again = @ + 1]
  <2>1. try.busy \in 0..BusyMax /\ try.again \in 0..AgainMax
        /\ try.again + 1 \in 0..AgainMax
    BY <1>1, <1>4, DeviceConstantsOK DEF ActorType
  <2>2. try' = [dev |-> "none", busy |-> try.busy, again |-> try.again + 1]
    BY <1>1, <1>4 DEF ActorType
  <2>. QED BY <1>1, <1>4, <2>1, <2>2 DEF StepType, ActorType
<1>. QED BY <1>2, <1>3, <1>4 DEF RetryOn

\* What is under the top of a stack.
LEMMA FrontOfStack ==
  ASSUME NEW S, NEW s \in Seq(S), NEW n \in Nat, n + 1 = Len(s)
  PROVE  /\ SubSeq(s, 1, n) \in Seq(S)
         /\ Len(SubSeq(s, 1, n)) = n
         /\ \A i \in 1..n : SubSeq(s, 1, n)[i] = s[i]
<1>1. SubSeq(s, 1, n) \in Seq(S)
  OBVIOUS
<1>2. Len(SubSeq(s, 1, n)) = n
  OBVIOUS
<1>3. \A i \in 1..n : SubSeq(s, 1, n)[i] = s[i]
  OBVIOUS
<1>. QED BY <1>1, <1>2, <1>3

\* What is put on a stack leaves what is under it.
LEMMA TopOfStack ==
  ASSUME NEW S, NEW s \in Seq(S), NEW x \in S
  PROVE  /\ Append(s, x) \in Seq(S) /\ Len(Append(s, x)) = Len(s) + 1
         /\ \A i \in 1..Len(s) : Append(s, x)[i] = s[i]
         /\ Append(s, x)[Len(s) + 1] = x
  OBVIOUS

\* umount(2) takes the top of the stack.
LEMMA UmountEffect ==
  ASSUME TypeOK, NEW p \in Pkgs, IsMounted(p), Umount(p)
  PROVE  /\ StepType' /\ stack' \in [Pkgs -> Seq(Devs \cup {"overlay"})]
         /\ \/ stack' = stack /\ step' = [step EXCEPT ![p] = "failed"]
            \/ /\ step' = step
               /\ \A q \in Pkgs \ {p} : stack'[q] = stack[q]
               /\ Len(stack'[p]) = Len(stack[p]) - 1
               /\ stack'[p] # <<>> => stack'[p][1] = stack[p][1]
<1>1. KernelType /\ StepType
  BY TypeParts
<1>2. CASE stack' = stack /\ Goto(p, "failed")
  BY <1>1, <1>2 DEF KernelType, StepType, Goto, Resting
<1>3. CASE stack' = [stack EXCEPT ![p] = SubSeq(@, 1, Len(@) - 1)] /\ UNCHANGED step
  <2>0. stack[p] \in Seq(Devs \cup {"overlay"})
    BY <1>1 DEF KernelType
  <2>1. Len(stack[p]) \in Nat \ {0}
    BY <2>0 DEF IsMounted
  <2>2. PICK n \in Nat : n + 1 = Len(stack[p])
    BY <2>1
  <2>3. /\ SubSeq(stack[p], 1, n) \in Seq(Devs \cup {"overlay"})
        /\ Len(SubSeq(stack[p], 1, n)) = n
        /\ \A i \in 1..n : SubSeq(stack[p], 1, n)[i] = stack[p][i]
    BY <2>0, <2>2, FrontOfStack
  <2>4. n = Len(stack[p]) - 1
    BY <2>2
  <2>. QED BY <1>1, <1>3, <2>1, <2>2, <2>3, <2>4 DEF KernelType, StepType
<1>. QED BY <1>2, <1>3 DEF Umount

LEMMA OutdatesEffect ==
  ASSUME KernelType, NEW p \in Pkgs, Outdates(p)
  PROVE  /\ loop' \in [Loops -> LoopStates]
         /\ \A l \in Loops : loop'[l].user = loop[l].user /\ loop'[l].clear = loop[l].clear
         /\ \A l \in Loops : loop[l].user # p => loop'[l] = loop[l]
<1>1. \A l \in Loops : loop[l] \in LoopStates /\ [loop[l] EXCEPT !.latest = FALSE] \in LoopStates
  BY DEF KernelType, LoopStates
<1>2. loop' \in [Loops -> LoopStates]
  BY <1>1 DEF Outdates
<1>. QED BY <1>1, <1>2 DEF Outdates, LoopStates

LEMMA MountType ==
  ASSUME KernelType, StepType, TaskType, ActorType, NEW p \in Pkgs,
         NEW layers \in Seq(Devs \cup {"overlay"}), NEW s \in Mounting,
         Mount(p, layers, s)
  PROVE  KernelType' /\ StepType' /\ TaskType' /\ ActorType'
<1>1. made' \in [Pkgs -> BOOLEAN]
  <2>1. (s = "drop_dm" /\ layers # <<>>) \in BOOLEAN
    OBVIOUS
  <2>. QED BY <2>1 DEF Mount, TaskType
<1>. QED BY <1>1 DEF Mount, Goto, actor, KernelType, StepType, TaskType, ActorType

\* What is done to the dm device of a setup leaves it in a state of one.
LEMMA ChangeType ==
  ASSUME KernelType, StepType, TaskType, NEW p \in Pkgs,
         \/ CreateDevice(p) \/ LoadTable(p) \/ ResumeDevice(p)
         \/ RemoveOnError(p) \/ DropDevice(p)
  PROVE  dm' \in [Devs -> DevStates]
<1>1. ASSUME NEW d, NEW dev, d \in Devs => dev \in DevStates, dm' = [dm EXCEPT ![d] = dev]
      PROVE  dm' \in [Devs -> DevStates]
  BY <1>1 DEF KernelType
<1>2. ASSUME NEW d \in Devs
      PROVE  /\ dm[d] \in DevStates /\ Removed(d) \in DevStates
             /\ [dm[d] EXCEPT !.state = "active"] \in DevStates
             /\ [Created EXCEPT !.state = "loaded", !.on = held[p]] \in DevStates
  BY StatesOfDevices DEF KernelType, TaskType, DevStates, Removed, Created
<1>3. \/ UNCHANGED dm
      \/ \E d \in Devs : dm' = [dm EXCEPT ![d] = Created]
      \/ dm' = [dm EXCEPT ![devOf[p]] =
                   [Created EXCEPT !.state = "loaded", !.on = held[p]]]
      \/ \E dev \in {NoDev, dm[devOf[p]], Removed(devOf[p]),
                      [dm[devOf[p]] EXCEPT !.state = "active"]} :
             dm' = [dm EXCEPT ![devOf[p]] = dev]
  BY DEF CreateDevice, LoadTable, ResumeDevice, RemoveOnError, DropDevice, Change, kernel
<1>. QED BY <1>1, <1>2, <1>3, StatesOfDevices DEF KernelType

LEMMA TypeStep == TypeOK /\ DevInv /\ [Next]_vars => TypeOK'
<1>. SUFFICES ASSUME TypeOK, DevInv, [Next]_vars
              PROVE  KernelType' /\ StepType' /\ TaskType' /\ ActorType'
  BY TypeParts DEF TypeOK, KernelType, LoopStates, DevStates, StepType, TaskType,
     ActorType
<1>0. KernelType /\ StepType /\ TaskType /\ ActorType
  BY TypeParts
<1>1. CASE UNCHANGED vars
  BY <1>0, <1>1 DEF vars, kernel, tasks, actor, KernelType, StepType, TaskType, ActorType
<1>2. CASE Reap \/ Host
  <2>1. /\ UNCHANGED <<stack, tasks, actor, faults>>
        /\ \/ \E d \in Devs : dm' = [dm EXCEPT ![d] = NoDev] /\ loop' = loop
           \/ \E l \in Loops, u \in {"none", "host"} :
                  loop' = [loop EXCEPT ![l] = BoundTo(u)] /\ dm' = dm
    BY <1>2 DEF Reap, Host, ReapDev, ReapLoop, HostBinds, HostReleases, Unbound
  <2>2. KernelType'
    BY <1>0, <2>1, StatesOfDevices DEF KernelType
  <2>. QED BY <1>0, <2>1, <2>2 DEF tasks, actor, StepType, TaskType, ActorType
<1>3. CASE PickLoop
  <2>1. StepType' /\ ActorType'
    <3>1. CASE Answer("lost")
      BY <1>3, <3>1, AnswerType DEF PickLoop, Mounting
    <3>2. CASE /\ \E l \in Loops : try' = [try EXCEPT !.dev = l]
               /\ UNCHANGED <<step, mailbox>>
      BY <1>0, <1>3, <3>2 DEF PickLoop, StepType, ActorType
    <3>. QED BY <1>3, <3>1, <3>2 DEF PickLoop
  <2>. QED BY <1>0, <1>3, <2>1 DEF PickLoop, kernel, KernelType, TaskType
<1>4. CASE TryAttach
  <2>1. mailbox # <<>> /\ Serving \in Pkgs /\ try.dev \in Loops
    BY <1>0, <1>4, ServingIsFirst DEF TryAttach, ActorType
  <2>2. CASE AttachLoop
    <3>1. StepType' /\ ActorType'
      BY <1>4, <2>1, <2>2, AnswerType DEF TryAttach, AttachLoop, Mounting
    <3>2. KernelType' /\ TaskType'
      BY <1>0, <1>4, <2>1, <2>2, StatesOfDevices
         DEF TryAttach, AttachLoop, KernelType, TaskType
    <3>. QED BY <3>1, <3>2
  <2>3. CASE UNCHANGED <<loop, held>>
             /\ (RetryOn("busy", BusyMax) \/ RetryOn("again", AgainMax) \/ Answer("lost"))
    <3>1. StepType' /\ ActorType'
      BY <1>4, <2>1, <2>3, AnswerType, RetryType DEF TryAttach, Mounting
    <3>2. KernelType' /\ TaskType'
      BY <1>0, <1>4, <2>3 DEF TryAttach, KernelType, TaskType
    <3>. QED BY <3>1, <3>2
  <2>. QED BY <1>4, <2>2, <2>3 DEF TryAttach
<1>5. CASE Crash
  BY <1>0, <1>5, DeviceConstantsOK
     DEF Crash, kernel, KernelType, StepType, TaskType, ActorType, Resting, NoTry
<1>6. ASSUME NEW p \in Pkgs, Setup(p) \/ UnmountForRetry(p)
      PROVE  StepType' /\ ActorType' /\ KernelType' /\ TaskType'
  <2>1. CASE MountPkgfs(p) /\ UNCHANGED <<kernel, held, devOf, made, try, faults>>
             /\ retried' \in {retried, [retried EXCEPT ![p] = FALSE]}
    BY <1>0, <2>1, MountPkgfsType DEF kernel, KernelType, TaskType
  <2>2. CASE IsMounted(p) /\ Umount(p) /\ UNCHANGED mailbox
             /\ UNCHANGED <<loop, dm, held, devOf, made, retried, try, faults>>
    BY <1>0, <2>2, UmountEffect DEF KernelType, StepType, TaskType, ActorType
  <2>. QED BY <1>6, <2>1, <2>2 DEF Setup, UnmountForRetry, kernel
<1>7. ASSUME NEW p \in Pkgs, Teardown(p)
      PROVE  StepType' /\ ActorType' /\ KernelType' /\ TaskType'
  <2>1. CASE IsMounted(p)
    BY <1>0, <1>7, <2>1, UmountEffect
       DEF Teardown, actor, KernelType, StepType, TaskType, ActorType
  <2>2. CASE ~IsMounted(p)
    BY <1>0, <1>7, <2>2, OutdatesEffect
       DEF Teardown, Goto, actor, Resting, KernelType, StepType, TaskType, ActorType
  <2>. QED BY <2>1, <2>2
<1>8. ASSUME NEW p \in Pkgs, Replace(p)
      PROVE  StepType' /\ ActorType' /\ KernelType' /\ TaskType'
  BY <1>0, <1>8, OutdatesEffect DEF Replace, Goto, actor, KernelType, StepType, TaskType, ActorType
<1>9. ASSUME NEW p \in Pkgs, CreateDevice(p) \/ LoadTable(p) \/ ResumeDevice(p)
                                  \/ RemoveOnError(p) \/ DropDevice(p)
      PROVE  StepType' /\ ActorType' /\ KernelType' /\ TaskType'
  <2>1. /\ UNCHANGED <<loop, stack, held, made, retried, actor, faults>>
        /\ \E s \in Mounting : Goto(p, s)
    BY <1>9 DEF CreateDevice, LoadTable, ResumeDevice, RemoveOnError, DropDevice, Change,
                kernel, Mounting
  <2>2. devOf' \in [Pkgs -> Devs \cup {"none"}]
    <3>1. \/ devOf' = devOf \/ devOf' = [devOf EXCEPT ![p] = "none"]
          \/ \E d \in Devs : devOf' = [devOf EXCEPT ![p] = d]
      BY <1>9 DEF CreateDevice, LoadTable, ResumeDevice, RemoveOnError, DropDevice
    <3>. QED BY <1>0, <3>1 DEF TaskType
  <2>3. dm' \in [Devs -> DevStates]
    BY <1>0, <1>9, ChangeType
  <2>4. StepType'
    BY <1>0, <2>1 DEF Goto, StepType
  <2>5. KernelType' /\ TaskType'
    BY <1>0, <2>1, <2>2, <2>3 DEF KernelType, TaskType
  <2>. QED BY <1>0, <2>1, <2>4, <2>5 DEF actor, ActorType
<1>10. ASSUME NEW p \in Pkgs, MountBase(p) \/ MountOverlay(p) \/ RollbackBase(p)
       PROVE  StepType' /\ ActorType' /\ KernelType' /\ TaskType'
  <2>1. CASE MountBase(p)
    <3>1. devOf[p] \in Devs
      BY <2>1 DEF MountBase, DevInv, WithDev
    <3>2. Append(stack[p], devOf[p]) \in Seq(Devs \cup {"overlay"})
          /\ <<>> \in Seq(Devs \cup {"overlay"})
      BY <1>0, <3>1 DEF KernelType
    <3>3. (IF Overlay THEN "overlay" ELSE "drop_dm") \in Mounting /\ "drop_dm" \in Mounting
      BY DEF Mounting
    <3>4. PICK layers \in Seq(Devs \cup {"overlay"}), s \in Mounting : Mount(p, layers, s)
      BY <2>1, <3>2, <3>3 DEF MountBase
    <3>. QED BY <1>0, <3>4, MountType
  <2>2. CASE MountOverlay(p)
    <3>1. Append(stack[p], "overlay") \in Seq(Devs \cup {"overlay"})
          /\ stack[p] \in Seq(Devs \cup {"overlay"})
      BY <1>0 DEF KernelType
    <3>2. PICK layers \in Seq(Devs \cup {"overlay"}), s \in Mounting : Mount(p, layers, s)
      BY <2>2, <3>1 DEF MountOverlay, Mounting
    <3>. QED BY <1>0, <3>2, MountType
  <2>3. CASE RollbackBase(p)
    BY <1>0, <2>3 DEF RollbackBase, Goto, actor, Mounting,
                      KernelType, StepType, TaskType, ActorType
  <2>. QED BY <1>10, <2>1, <2>2, <2>3
<1>11. ASSUME NEW p \in Pkgs, DropLoop(p)
       PROVE  StepType' /\ ActorType' /\ KernelType' /\ TaskType'
  <2>1. \A l \in Loops : Cleared(l) \in LoopStates
    <3>1. \A l \in Loops : [loop[l] EXCEPT !.clear = TRUE] \in LoopStates
      BY <1>0 DEF KernelType, LoopStates
    <3>2. Unbound \in LoopStates
      BY StatesOfDevices DEF Unbound
    <3>. QED BY <3>1, <3>2 DEF Cleared
  <2>2. loop' \in [Loops -> LoopStates]
    <3>1. CASE loop' = loop
      BY <1>0, <3>1 DEF KernelType
    <3>2. CASE loop' = [loop EXCEPT ![held[p]] = Cleared(held[p])]
      BY <1>0, <2>1, <3>2 DEF KernelType
    <3>. QED BY <1>11, <3>1, <3>2 DEF DropLoop
  <2>. QED BY <1>0, <1>11, <2>2 DEF DropLoop, Goto, actor, Resting, Mounting,
                                    KernelType, StepType, TaskType, ActorType
<1>12. ASSUME NEW p \in Pkgs, Lost(p)
       PROVE  StepType' /\ ActorType' /\ KernelType' /\ TaskType'
  BY <1>0, <1>12 DEF Lost, Goto, actor, kernel, Resting, Mounting,
                     KernelType, StepType, TaskType, ActorType
<1>. QED BY <1>1, <1>2, <1>3, <1>4, <1>5, <1>6, <1>7, <1>8, <1>9, <1>10, <1>11, <1>12
         DEF Next, LoopActor, Task

-----------------------------------------------------------------------------
(* What a step does to one loop device, one dm device and one package *)

Types == KernelType /\ StepType /\ TaskType /\ ActorType

\* The package takes a step of its own, or is answered by the loop device actor.
Served(p) == (PickLoop \/ TryAttach) /\ mailbox # <<>> /\ Serving = p
                 /\ ~UNCHANGED <<step, held>>
Own(p)    == Setup(p) \/ Task(p) \/ Replace(p) \/ Served(p)

Rests(p) == UNCHANGED <<step[p], held[p], devOf[p], made[p], stack[p]>>

\* A step of one package leaves the others as they are.
LEMMA TaskStep ==
  ASSUME Types, Next, NEW p \in Pkgs
  PROVE  Rests(p) \/ Own(p) \/ Crash
<1>1. CASE Reap \/ Host
  BY <1>1 DEF Reap, Host, ReapDev, ReapLoop, HostBinds, HostReleases, tasks, Rests
<1>2. CASE LoopActor /\ ~UNCHANGED <<step, held>>
  <2>1. mailbox # <<>>
    BY <1>2 DEF LoopActor, PickLoop, TryAttach
  <2>2. CASE Serving = p
    BY <1>2, <2>1, <2>2 DEF LoopActor, Own, Served
  <2>3. CASE Serving # p
    BY <1>2, <2>1, <2>3 DEF Types, StepType, TaskType, LoopActor, PickLoop, TryAttach,
       AttachLoop, RetryOn, Answer, Goto, Rests, kernel
  <2>. QED BY <2>2, <2>3
<1>3. CASE LoopActor /\ UNCHANGED <<step, held>>
  BY <1>3 DEF LoopActor, PickLoop, TryAttach, Rests, kernel
<1>4. ASSUME NEW q \in Pkgs, Setup(q) \/ Task(q) \/ Replace(q), q # p
      PROVE  Rests(p)
  <2>1. /\ \E s \in Resting \cup Mounting \cup {"teardown"} : step' = [step EXCEPT ![q] = s]
           \/ UNCHANGED step
        /\ UNCHANGED stack \/ \E s : stack' = [stack EXCEPT ![q] = s]
    BY <1>4 DEF Setup, Task, Replace, CreateDevice, LoadTable, ResumeDevice, RemoveOnError,
       MountBase, MountOverlay, RollbackBase, DropDevice, DropLoop, Lost, UnmountForRetry,
       Teardown, Change, Mount, Umount, MountPkgfs, Goto, kernel, Resting, Mounting
  <2>2. /\ UNCHANGED held \/ \E l : held' = [held EXCEPT ![q] = l]
        /\ UNCHANGED devOf \/ \E d : devOf' = [devOf EXCEPT ![q] = d]
        /\ UNCHANGED made \/ \E m : made' = [made EXCEPT ![q] = m]
    BY <1>4 DEF Setup, Task, Replace, CreateDevice, LoadTable, ResumeDevice, RemoveOnError,
       MountBase, MountOverlay, RollbackBase, DropDevice, DropLoop, Lost, UnmountForRetry,
       Teardown, Change, Mount
  <2>. QED BY <1>4, <2>1, <2>2 DEF Types, KernelType, StepType, TaskType, Rests
<1>. QED BY <1>1, <1>2, <1>3, <1>4 DEF Next, Own

\* What may happen to a loop device.
FreedByKernel(l) == loop[l].clear /\ UsersOf(l) = {} /\ loop'[l] = Unbound
OfTheHost(l)     == loop[l].user \in {"none", "host"} /\ loop'[l].user \in {"none", "host"}
Attached(l)      == TryAttach /\ AttachLoop /\ mailbox # <<>> /\ try.dev = l
                        /\ loop[l] = Unbound /\ loop'[l] = BoundTo(Serving)
Dropped(l, p)    == DropLoop(p) /\ held[p] = l /\ loop'[l] = Cleared(l)
Outdated(l, p)   == /\ step[p] \in {"verified", "teardown"}
                    /\ step[p] = "teardown" => stack[p] = <<>>
                    /\ loop[l].user = p
                    /\ loop'[l] = [loop[l] EXCEPT !.latest = FALSE]

LEMMA LoopStep ==
  ASSUME Types, Next, NEW l \in Loops
  PROVE  \/ loop'[l] = loop[l] \/ FreedByKernel(l) \/ OfTheHost(l) \/ Attached(l)
         \/ \E p \in Pkgs : Dropped(l, p) \/ Outdated(l, p)
<1>1. CASE UNCHANGED loop
  BY <1>1
<1>2. CASE Reap \/ Host
  <2>1. CASE \E k \in Loops : ReapLoop(k)
    BY <2>1 DEF ReapLoop, Types, KernelType, FreedByKernel
  <2>2. CASE Host
    <3>1. PICK k \in Loops, u, v \in {"none", "host"} :
              loop[k].user = v /\ loop' = [loop EXCEPT ![k] = BoundTo(u)]
      BY <2>2 DEF Host, HostBinds, HostReleases, Unbound, BoundTo
    <3>. QED BY <3>1 DEF Types, KernelType, OfTheHost, BoundTo
  <2>. QED BY <1>1, <1>2, <2>1, <2>2 DEF Reap, ReapDev
<1>3. CASE TryAttach
  BY <1>3 DEF TryAttach, AttachLoop, Attached, Types, KernelType
<1>4. ASSUME NEW p \in Pkgs, DropLoop(p)
      PROVE  loop'[l] = loop[l] \/ Dropped(l, p)
  <2>1. CASE UNCHANGED loop
    BY <2>1
  <2>2. CASE loop' = [loop EXCEPT ![held[p]] = Cleared(held[p])]
    BY <1>4, <2>2 DEF Dropped, Types, KernelType
  <2>. QED BY <1>4, <2>1, <2>2 DEF DropLoop
<1>5. ASSUME NEW p \in Pkgs, Replace(p) \/ Teardown(p), Outdates(p)
      PROVE  loop'[l] = loop[l] \/ Outdated(l, p)
  <2>1. loop'[l] = loop[l] \/ (loop[l].user = p /\ loop'[l] = [loop[l] EXCEPT !.latest = FALSE])
    BY <1>5 DEF Outdates
  <2>2. \/ /\ step[p] \in {"verified", "teardown"}
           /\ step[p] = "teardown" => stack[p] = <<>>
        \/ UNCHANGED loop
    BY <1>5 DEF Replace, Teardown, IsMounted
  <2>. QED BY <2>1, <2>2 DEF Outdated
<1>6. \/ UNCHANGED loop \/ Reap \/ Host \/ TryAttach
      \/ \E p \in Pkgs : DropLoop(p) \/ ((Replace(p) \/ Teardown(p)) /\ Outdates(p))
  BY DEF Next, LoopActor, PickLoop, Crash, kernel, Setup, Task, Replace, CreateDevice,
     LoadTable, ResumeDevice, RemoveOnError, MountBase, MountOverlay, RollbackBase,
     DropDevice, Lost, UnmountForRetry, Teardown, Change, Mount
<1>. QED BY <1>1, <1>2, <1>3, <1>4, <1>5, <1>6

\* What may happen to a dm device.
ReapedDev(d)   == dm[d].deferred /\ MountsOf(d) = {} /\ dm'[d] = NoDev
MadeDev(d, p)  == /\ dm[d] = NoDev /\ dm'[d] = Created /\ devOf'[p] = d
                  /\ step[p] = "create" /\ step'[p] = "load"
WorkedOn(d, p) == devOf[p] = d /\ (LoadTable(p) \/ ResumeDevice(p) \/ RemoveOnError(p))
LetGo(d, p)    == devOf[p] = d /\ DropDevice(p) /\ dm'[d] = Removed(d)

LEMMA DevStep ==
  ASSUME Types, Next, NEW d \in Devs
  PROVE  \/ dm'[d] = dm[d] \/ ReapedDev(d)
         \/ \E p \in Pkgs : MadeDev(d, p) \/ WorkedOn(d, p) \/ LetGo(d, p)
<1>1. CASE UNCHANGED dm
  BY <1>1
<1>2. CASE Reap
  BY <1>2 DEF Reap, ReapDev, ReapLoop, ReapedDev, Types, KernelType
<1>3. ASSUME NEW p \in Pkgs, CreateDevice(p)
      PROVE  dm'[d] = dm[d] \/ MadeDev(d, p)
  BY <1>3 DEF CreateDevice, Change, Goto, kernel, MadeDev, Types, KernelType, StepType,
     TaskType
<1>4. ASSUME NEW p \in Pkgs, LoadTable(p) \/ ResumeDevice(p) \/ RemoveOnError(p)
      PROVE  dm'[d] = dm[d] \/ WorkedOn(d, p)
  <2>1. \E dev : dm' = [dm EXCEPT ![devOf[p]] = dev]
    BY <1>4 DEF LoadTable, ResumeDevice, RemoveOnError, Change
  <2>. QED BY <1>4, <2>1 DEF WorkedOn, Types, KernelType
<1>5. ASSUME NEW p \in Pkgs, DropDevice(p)
      PROVE  dm'[d] = dm[d] \/ LetGo(d, p)
  <2>1. UNCHANGED dm \/ dm' = [dm EXCEPT ![devOf[p]] = Removed(devOf[p])]
    BY <1>5 DEF DropDevice
  <2>. QED BY <1>5, <2>1 DEF LetGo, Types, KernelType
<1>6. \/ UNCHANGED dm \/ Reap
      \/ \E p \in Pkgs : \/ CreateDevice(p) \/ LoadTable(p) \/ ResumeDevice(p)
                         \/ RemoveOnError(p) \/ DropDevice(p)
  BY DEF Next, Host, HostBinds, HostReleases, LoopActor, PickLoop, TryAttach, Crash, kernel,
     Setup, Task, Replace, MountBase, MountOverlay, RollbackBase, DropLoop, Lost,
     UnmountForRetry, Teardown, Mount
<1>. QED BY <1>1, <1>2, <1>3, <1>4, <1>5, <1>6

-----------------------------------------------------------------------------
(* The setups: each part of SetupInv is kept *)

LEMMA Parts ==
  ASSUME IInv
  PROVE  Types /\ ShapeInv /\ ChainInv /\ HoldInv /\ DevInv /\ OwnDevInv /\ StepInv /\ MailInv
  BY TypeParts DEF IInv, Types, ChainsInv, SetupInv

\* Names of packages are not those of nobody and of the host.
LEMMA NobodyIsNoPackage ==
  /\ "none" \notin Pkgs /\ "host" \notin Pkgs
  /\ "none" \notin Loops /\ "none" \notin Devs /\ "overlay" \notin Devs
  BY DeviceConstantsOK

\* The package that is served waits for it.
LEMMA ServedWaits ==
  ASSUME IInv, mailbox # <<>>
  PROVE  Serving \in Pkgs /\ step[Serving] = "attach"
  BY Parts, ServingIsFirst DEF Types, MailInv

LEMMA HeldKept ==
  ASSUME IInv, Next, NEW p \in Pkgs, step[p] \in WithLoop, step'[p] \in WithLoop,
         held'[p] = held[p]
  PROVE  loop'[held[p]] = BoundTo(p)
<1>1. held[p] \in Loops /\ loop[held[p]] = BoundTo(p)
  BY Parts DEF HoldInv
<1>2. /\ ~FreedByKernel(held[p]) /\ ~OfTheHost(held[p]) /\ ~Attached(held[p])
  BY <1>1, NobodyIsNoPackage DEF FreedByKernel, OfTheHost, Attached, BoundTo, Unbound
<1>3. ASSUME NEW q \in Pkgs, Dropped(held[p], q)
      PROVE  FALSE
  <2>1. step[q] = "drop_loop" /\ held[q] = held[p]
    BY <1>3 DEF Dropped, DropLoop
  <2>2. q = p
    <3>1. loop[held[q]] = BoundTo(q)
      BY <2>1, Parts DEF HoldInv, WithLoop
    <3>. QED BY <1>1, <2>1, <3>1 DEF BoundTo
  <2>3. step'[p] \in {"up", "lost"}
    <3>1. step' = [step EXCEPT ![p] = IF made[p] THEN "up" ELSE "lost"]
      BY <1>3, <2>2 DEF Dropped, DropLoop, Goto
    <3>. QED BY <3>1, Parts DEF Types, StepType
  <2>. QED BY <2>3 DEF WithLoop, WithDev
<1>4. ASSUME NEW q \in Pkgs, Outdated(held[p], q)
      PROVE  FALSE
  BY <1>1, <1>4 DEF Outdated, BoundTo, WithLoop, WithDev
<1>. QED BY <1>1, <1>2, <1>3, <1>4, LoopStep, Parts

LEMMA HoldStep == IInv /\ Next => HoldInv'
<1>. SUFFICES ASSUME IInv, Next, NEW p \in Pkgs
              PROVE  IF step'[p] \in WithLoop
                     THEN held'[p] \in Loops /\ loop'[held'[p]] = BoundTo(p)
                     ELSE held'[p] = "none"
  BY DEF HoldInv
<1>0. Types /\ HoldInv /\ MailInv
  BY Parts
<1>1. CASE held'[p] = held[p] /\ (step[p] \in WithLoop <=> step'[p] \in WithLoop)
  BY <1>0, <1>1, HeldKept DEF HoldInv
<1>2. CASE Crash
  BY <1>2 DEF Crash, WithLoop, WithDev
<1>3. CASE DropLoop(p)
  BY <1>0, <1>3 DEF DropLoop, Goto, Types, StepType, TaskType, WithLoop, WithDev
<1>4. CASE Served(p)
  <2>1. step[p] = "attach" /\ held[p] = "none"
    BY <1>0, <1>4, ServedWaits DEF Served, HoldInv, WithLoop, WithDev
  <2>2. CASE TryAttach /\ AttachLoop
    <3>1. try.dev \in Loops
      BY <1>0, <2>2 DEF TryAttach, Types, ActorType
    <3>2. /\ step' = [step EXCEPT ![p] = "create"] /\ held' = [held EXCEPT ![p] = try.dev]
          /\ loop' = [loop EXCEPT ![try.dev] = BoundTo(p)]
      BY <1>4, <2>2 DEF Served, AttachLoop, Answer, Goto
    <3>3. step'[p] = "create" /\ held'[p] = try.dev
      BY <1>0, <3>2 DEF Types, StepType, TaskType
    <3>4. loop'[try.dev] = BoundTo(p)
      BY <1>0, <3>1, <3>2 DEF Types, KernelType
    <3>. QED BY <3>1, <3>3, <3>4 DEF WithLoop
  <2>3. CASE ~(TryAttach /\ AttachLoop)
    <3>1. UNCHANGED held /\ step' = [step EXCEPT ![p] = "lost"]
      BY <1>4, <2>3 DEF Served, PickLoop, TryAttach, RetryOn, Answer, Goto
    <3>2. step'[p] = "lost" /\ held'[p] = "none"
      BY <1>0, <2>1, <3>1 DEF Types, StepType
    <3>. QED BY <3>2 DEF WithLoop, WithDev
  <2>. QED BY <2>2, <2>3
<1>5. CASE Own(p) /\ ~DropLoop(p) /\ ~Served(p)
  BY <1>0, <1>1, <1>5 DEF Own, Setup, Task, Replace, CreateDevice, LoadTable, ResumeDevice,
     RemoveOnError, MountBase, MountOverlay, RollbackBase, DropDevice, Lost,
     UnmountForRetry, Teardown, Change, Mount, Umount, MountPkgfs, Goto, Types, StepType,
     WithLoop, WithDev
<1>. QED BY <1>0, <1>1, <1>2, <1>3, <1>4, <1>5, TaskStep DEF Rests

\* A setup's dm device exists, and only what the setup does changes it.
LEMMA DevOfExists ==
  ASSUME IInv, NEW p \in Pkgs, devOf[p] \in Devs
  PROVE  step[p] \in WithDev /\ dm[devOf[p]] # NoDev /\ ~dm[devOf[p]].deferred
<1>1. step[p] \in WithDev /\ DevAt(p)
  BY Parts, NobodyIsNoPackage DEF DevInv
<1>. QED BY <1>1 DEF DevAt, WithDev, NoDev, Created, IsOn

LEMMA DevKept ==
  ASSUME IInv, Next, NEW p \in Pkgs, devOf[p] \in Devs, devOf'[p] = devOf[p],
         ~LoadTable(p), ~ResumeDevice(p), ~RemoveOnError(p)
  PROVE  dm'[devOf[p]] = dm[devOf[p]]
<1>1. /\ ~ReapedDev(devOf[p])
      /\ \A q \in Pkgs : ~MadeDev(devOf[p], q)
  BY DevOfExists DEF ReapedDev, MadeDev
<1>2. ASSUME NEW q \in Pkgs, devOf[q] = devOf[p]
      PROVE  q = p
  BY <1>2, Parts DEF OwnDevInv
<1>3. ~LetGo(devOf[p], p)
  BY Parts, NobodyIsNoPackage DEF LetGo, DropDevice, Types, TaskType
<1>4. \A q \in Pkgs : ~WorkedOn(devOf[p], q) /\ ~LetGo(devOf[p], q)
  BY <1>2, <1>3 DEF WorkedOn, LetGo
<1>. QED BY <1>1, <1>4, DevStep, Parts

LEMMA DevInvStep == IInv /\ Next => DevInv'
<1>. SUFFICES ASSUME IInv, Next, NEW p \in Pkgs
              PROVE  IF step'[p] \in WithDev THEN devOf'[p] \in Devs /\ DevAt(p)'
                                             ELSE devOf'[p] = "none"
  BY DEF DevInv
<1>0. Types /\ DevInv /\ KernelType /\ StepType /\ TaskType
  BY Parts DEF Types
<1>1. CASE devOf'[p] = devOf[p] /\ step[p] \notin WithDev /\ step'[p] \notin WithDev
  BY <1>0, <1>1 DEF DevInv
<1>2. CASE Rests(p) /\ ~Own(p)
  <2>1. CASE step[p] \in WithDev
    <3>1. devOf[p] \in Devs /\ DevAt(p)
      BY <1>0, <2>1 DEF DevInv
    <3>2. dm'[devOf[p]] = dm[devOf[p]]
      BY <1>2, <3>1, DevKept DEF Rests, Own, Task
    <3>. QED BY <1>2, <2>1, <3>1, <3>2 DEF Rests, DevAt, IsOn
  <2>. QED BY <1>1, <1>2, <2>1 DEF Rests
<1>3. CASE Crash
  BY <1>3 DEF Crash, WithDev
<1>4. CASE CreateDevice(p)
  <2>1. step[p] \notin WithDev
    BY <1>4 DEF CreateDevice, WithDev
  <2>2. CASE \E d \in Devs : /\ devOf' = [devOf EXCEPT ![p] = d]
                             /\ dm' = [dm EXCEPT ![d] = Created] /\ Goto(p, "load")
    <3>1. PICK d \in Devs : /\ devOf' = [devOf EXCEPT ![p] = d]
                            /\ dm' = [dm EXCEPT ![d] = Created] /\ Goto(p, "load")
      BY <2>2
    <3>2. devOf'[p] = d /\ step'[p] = "load" /\ dm'[d] = Created
      BY <1>0, <3>1 DEF Goto, KernelType, StepType, TaskType
    <3>. QED BY <3>1, <3>2 DEF DevAt, Created, WithDev
  <2>3. CASE Goto(p, "drop_loop") /\ UNCHANGED devOf
    BY <1>0, <1>1, <2>1, <2>3 DEF Goto, WithDev, StepType
  <2>. QED BY <1>4, <2>2, <2>3 DEF CreateDevice, Change
<1>5. CASE LoadTable(p)
  <2>1. step[p] = "load" /\ devOf[p] \in Devs /\ dm[devOf[p]] = Created
    BY <1>0, <1>5 DEF LoadTable, DevInv, DevAt, WithDev
  <2>2. devOf' = devOf /\ held' = held
    BY <1>5 DEF LoadTable, Change
  <2>3. CASE /\ dm' = [dm EXCEPT ![devOf[p]] = [Created EXCEPT !.state = "loaded", !.on = held[p]]]
             /\ step' = [step EXCEPT ![p] = "resume"]
    <3>1. step'[p] = "resume"
      BY <1>0, <2>3 DEF StepType
    <3>2. dm'[devOf[p]].state = "loaded" /\ dm'[devOf[p]].on = held[p]
          /\ dm'[devOf[p]].deferred = FALSE
      BY <1>0, <2>1, <2>3 DEF KernelType, Created
    <3>. QED BY <2>1, <2>2, <3>1, <3>2 DEF DevAt, IsOn, WithDev
  <2>4. CASE /\ dm' = [dm EXCEPT ![devOf[p]] = dm[devOf[p]]]
             /\ step' = [step EXCEPT ![p] = "cleanup"]
    BY <1>0, <2>1, <2>2, <2>4 DEF DevAt, Created, WithDev, KernelType, StepType
  <2>. QED BY <1>5, <2>3, <2>4 DEF LoadTable, Change, Goto
<1>6. CASE ResumeDevice(p)
  <2>1. step[p] = "resume" /\ devOf[p] \in Devs /\ dm[devOf[p]] \in DevStates
        /\ IsOn(p, "loaded") /\ ~dm[devOf[p]].deferred
    BY <1>0, <1>6 DEF ResumeDevice, DevInv, DevAt, WithDev, KernelType
  <2>2. devOf' = devOf /\ held' = held
    BY <1>6 DEF ResumeDevice, Change
  <2>3. CASE /\ dm' = [dm EXCEPT ![devOf[p]] = [dm[devOf[p]] EXCEPT !.state = "active"]]
             /\ step' = [step EXCEPT ![p] = "base"]
    BY <1>0, <2>1, <2>2, <2>3 DEF DevAt, IsOn, DevStates, WithDev, KernelType, StepType
  <2>4. CASE /\ dm' = [dm EXCEPT ![devOf[p]] = dm[devOf[p]]]
             /\ step' = [step EXCEPT ![p] = "cleanup"]
    BY <1>0, <2>1, <2>2, <2>4 DEF DevAt, IsOn, DevStates, WithDev, KernelType, StepType
  <2>. QED BY <1>6, <2>3, <2>4 DEF ResumeDevice, Change, Goto
<1>7. CASE RemoveOnError(p) \/ DropDevice(p)
  BY <1>0, <1>7 DEF RemoveOnError, DropDevice, Change, Goto, WithDev, StepType, TaskType
<1>8. CASE MountBase(p) \/ MountOverlay(p) \/ RollbackBase(p)
  <2>1. devOf[p] \in Devs /\ IsOn(p, "active") /\ ~dm[devOf[p]].deferred
    BY <1>0, <1>8 DEF MountBase, MountOverlay, RollbackBase, DevInv, DevAt, WithDev
  <2>2. devOf' = devOf /\ held' = held /\ dm' = dm
    BY <1>8 DEF MountBase, MountOverlay, RollbackBase, Mount
  <2>3. step'[p] \in {"overlay", "rollback", "drop_dm"}
    BY <1>0, <1>8 DEF MountBase, MountOverlay, RollbackBase, Mount, Goto, StepType
  <2>. QED BY <2>1, <2>2, <2>3 DEF DevAt, IsOn, WithDev
<1>9. CASE Served(p)
  <2>1. step[p] = "attach" /\ devOf' = devOf
    BY <1>9, ServedWaits DEF Served, PickLoop, TryAttach
  <2>2. step'[p] \in {"lost", "create"}
    BY <1>0, <1>9 DEF Served, PickLoop, TryAttach, AttachLoop, RetryOn, Answer, Goto, StepType
  <2>. QED BY <1>1, <2>1, <2>2 DEF WithDev
<1>10. CASE \/ Setup(p) \/ Replace(p) \/ DropLoop(p) \/ Lost(p) \/ UnmountForRetry(p)
            \/ Teardown(p)
  <2>1. step[p] \notin WithDev /\ devOf' = devOf
    BY <1>10 DEF Setup, Replace, DropLoop, Lost, UnmountForRetry, Teardown, WithDev
  <2>2. step' = step \/ \E s \in Resting \cup {"attach", "lost", "unmount", "teardown"} :
                           step' = [step EXCEPT ![p] = s]
    BY <1>10 DEF Setup, Replace, DropLoop, Lost, UnmountForRetry, Teardown, Umount,
       MountPkgfs, Goto, Resting
  <2>3. step'[p] \notin WithDev
    BY <1>0, <2>1, <2>2 DEF WithDev, Resting, StepType
  <2>. QED BY <1>1, <2>1, <2>3
<1>11. Own(p) => \/ CreateDevice(p) \/ LoadTable(p) \/ ResumeDevice(p) \/ RemoveOnError(p)
                 \/ DropDevice(p) \/ MountBase(p) \/ MountOverlay(p) \/ RollbackBase(p)
                 \/ Served(p) \/ Setup(p) \/ Replace(p) \/ DropLoop(p) \/ Lost(p)
                 \/ UnmountForRetry(p) \/ Teardown(p)
  BY DEF Own, Task
<1>. QED BY <1>0, <1>2, <1>3, <1>4, <1>5, <1>6, <1>7, <1>8, <1>9, <1>10, <1>11, TaskStep

LEMMA OwnDevStep == IInv /\ Next => OwnDevInv'
<1>. SUFFICES ASSUME IInv, Next, NEW p \in Pkgs, NEW q \in Pkgs, p # q, devOf'[p] \in Devs
              PROVE  devOf'[q] # devOf'[p]
  BY DEF OwnDevInv
<1>0. OwnDevInv /\ TaskType
  BY Parts DEF Types
<1>1. CASE /\ devOf'[p] \in {devOf[p], "none"} /\ devOf'[q] \in {devOf[q], "none"}
  BY <1>0, <1>1, NobodyIsNoPackage DEF OwnDevInv
<1>2. ASSUME NEW r \in Pkgs, CreateDevice(r)
      PROVE  devOf'[q] # devOf'[p]
  <2>1. CASE \E d \in Devs : dm[d] = NoDev /\ devOf' = [devOf EXCEPT ![r] = d]
    <3>1. PICK d \in Devs : dm[d] = NoDev /\ devOf' = [devOf EXCEPT ![r] = d]
      BY <2>1
    <3>2. devOf[p] # d /\ devOf[q] # d
      BY <3>1, DevOfExists
    <3>. QED BY <1>0, <3>1, <3>2 DEF OwnDevInv, TaskType
  <2>. QED BY <1>1, <1>2, <2>1 DEF CreateDevice
<1>3. \/ UNCHANGED devOf \/ devOf' = [r \in Pkgs |-> "none"]
      \/ \E r \in Pkgs : CreateDevice(r) \/ devOf' = [devOf EXCEPT ![r] = "none"]
  BY DEF Next, Reap, Host, ReapDev, ReapLoop, HostBinds, HostReleases, tasks, LoopActor,
     PickLoop, TryAttach, Crash, Setup, Task, Replace, LoadTable, ResumeDevice,
     RemoveOnError, MountBase, MountOverlay, RollbackBase, DropDevice, DropLoop, Lost,
     UnmountForRetry, Teardown, Change, Mount
<1>. QED BY <1>0, <1>1, <1>2, <1>3 DEF TaskType

\* What a step does to a stack: nothing, all of it goes, its top goes, the base is
\* mounted, the overlay is.
TopGone(p)   == /\ step[p] \in {"unmount", "teardown"} /\ IsMounted(p)
                /\ Len(stack'[p]) = Len(stack[p]) - 1
                /\ stack'[p] # <<>> => stack'[p][1] = stack[p][1]
BaseOn(p)    == /\ MountBase(p) /\ stack[p] = <<>> /\ devOf[p] \in Devs
                /\ Len(stack'[p]) = 1 /\ stack'[p][1] = devOf[p]
OverlayOn(p) == /\ MountOverlay(p) /\ Overlay /\ Len(stack[p]) = 1
                /\ Len(stack'[p]) = 2 /\ stack'[p][1] = stack[p][1]

LEMMA StackStep ==
  ASSUME IInv, Next, NEW p \in Pkgs
  PROVE  stack'[p] = stack[p] \/ stack'[p] = <<>> \/ TopGone(p) \/ BaseOn(p) \/ OverlayOn(p)
<1>0. TypeOK /\ KernelType /\ DevInv /\ StepInv
  BY Parts DEF Types, IInv
<1>1. CASE Rests(p) \/ Crash
  BY <1>1 DEF Rests, Crash, kernel
<1>2. CASE Own(p) /\ UNCHANGED stack
  BY <1>2
<1>3. CASE UnmountForRetry(p) \/ Teardown(p)
  <2>1. UNCHANGED stack \/ (IsMounted(p) /\ Umount(p) /\ step[p] \in {"unmount", "teardown"})
    BY <1>3 DEF UnmountForRetry, Teardown
  <2>. QED BY <1>0, <2>1, UmountEffect DEF TopGone
<1>4. CASE MountBase(p)
  <2>1. devOf[p] \in Devs /\ stack[p] = <<>>
    BY <1>0, <1>4 DEF MountBase, DevInv, StepInv, WithDev
  <2>2. \A d \in Devs : Len(Append(<<>>, d)) = 1 /\ Append(<<>>, d)[1] = d
    OBVIOUS
  <2>3. stack'[p] = <<>> \/ stack'[p] = Append(<<>>, devOf[p])
    BY <1>0, <1>4, <2>1 DEF MountBase, Mount, KernelType
  <2>. QED BY <1>4, <2>1, <2>2, <2>3 DEF BaseOn
<1>5. CASE MountOverlay(p)
  <2>1. Overlay /\ Len(stack[p]) = 1 /\ stack[p] \in Seq(Devs \cup {"overlay"})
    BY <1>0, <1>5 DEF MountOverlay, StepInv, KernelType
  <2>2. /\ Len(Append(stack[p], "overlay")) = 2
        /\ Append(stack[p], "overlay")[1] = stack[p][1]
    <3>1. "overlay" \in Devs \cup {"overlay"} /\ stack[p] \in Seq(Devs \cup {"overlay"})
      BY <1>0 DEF KernelType
    <3>2. Len(Append(stack[p], "overlay")) = Len(stack[p]) + 1
          /\ \A i \in 1..Len(stack[p]) : Append(stack[p], "overlay")[i] = stack[p][i]
      BY <3>1, TopOfStack
    <3>. QED BY <2>1, <3>2
  <2>3. stack'[p] = Append(stack[p], "overlay") \/ stack'[p] = stack[p]
    BY <1>0, <1>5 DEF MountOverlay, Mount, KernelType
  <2>. QED BY <1>5, <2>1, <2>2, <2>3 DEF OverlayOn
<1>6. CASE RollbackBase(p)
  BY <1>0, <1>6 DEF RollbackBase, KernelType
<1>7. Own(p) => \/ UNCHANGED stack \/ UnmountForRetry(p) \/ Teardown(p) \/ MountBase(p)
                \/ MountOverlay(p) \/ RollbackBase(p)
  BY DEF Own, Served, PickLoop, TryAttach, kernel, Setup, Task, Replace, CreateDevice,
     LoadTable, ResumeDevice, RemoveOnError, DropDevice, DropLoop, Lost, Change
<1>. QED BY <1>1, <1>2, <1>3, <1>4, <1>5, <1>6, <1>7, TaskStep, Parts

LEMMA StackTypes ==
  ASSUME Types, NEW p \in Pkgs
  PROVE  /\ stack[p] \in Seq(Devs \cup {"overlay"}) /\ Len(stack[p]) \in Nat
         /\ stack[p] = <<>> <=> Len(stack[p]) = 0
         /\ IsMounted(p) => p \in MountsOf(stack[p][1])
<1>1. stack[p] \in Seq(Devs \cup {"overlay"})
  BY DEF Types, KernelType
<1>2. IsMounted(p) => 1 \in DOMAIN stack[p]
  BY <1>1 DEF IsMounted
<1>. QED BY <1>1, <1>2 DEF MountsOf

LEMMA ShapeStep == IInv /\ Next => ShapeInv'
<1>. SUFFICES ASSUME IInv, Next, NEW p \in Pkgs
              PROVE  Len(stack'[p]) \in 0..FullDepth /\ (stack'[p] # <<>> => stack'[p][1] \in Devs)
  BY DEF ShapeInv, IsMounted, FullDepth
<1>1. /\ Len(stack[p]) \in 0..FullDepth /\ (stack[p] # <<>> => stack[p][1] \in Devs)
      /\ Len(stack[p]) \in Nat /\ (stack[p] = <<>> <=> Len(stack[p]) = 0)
  BY Parts, StackTypes DEF ShapeInv, IsMounted
<1>2. FullDepth \in 1..2 /\ (Overlay => FullDepth = 2)
  BY DeviceConstantsOK DEF FullDepth
<1>3. CASE stack'[p] = stack[p] \/ stack'[p] = <<>>
  <2>1. \/ Len(stack'[p]) = Len(stack[p]) /\ stack'[p] = stack[p]
        \/ Len(stack'[p]) = 0
    BY <1>3
  <2>. QED BY <1>1, <1>2, <1>3, <2>1
<1>4. CASE TopGone(p)
  BY <1>1, <1>2, <1>4 DEF TopGone, IsMounted
<1>5. CASE BaseOn(p)
  BY <1>2, <1>5 DEF BaseOn
<1>6. CASE OverlayOn(p)
  BY <1>1, <1>2, <1>6 DEF OverlayOn
<1>. QED BY <1>3, <1>4, <1>5, <1>6, StackStep

\* Where a step of its own takes a setup.
LEMMA OwnStep ==
  ASSUME IInv, Next, NEW p \in Pkgs, Own(p)
  PROVE  \/ step'[p] = step[p]
         \/ step[p] = "verified" /\ step'[p] = (IF IsMounted(p) THEN "up" ELSE "attach")
         \/ step[p] = "attach" /\ step'[p] \in {"lost", "create"}
         \/ step[p] = "create" /\ step'[p] \in {"load", "drop_loop"}
         \/ step[p] = "load" /\ step'[p] \in {"resume", "cleanup"}
         \/ step[p] = "resume" /\ step'[p] \in {"base", "cleanup"}
         \/ step[p] = "cleanup" /\ step'[p] = "drop_loop"
         \/ MountBase(p) /\ step'[p] \in {"overlay", "drop_dm"}
         \/ MountOverlay(p) /\ step'[p] \in {"rollback", "drop_dm"}
         \/ step[p] = "rollback" /\ step'[p] = "drop_dm"
         \/ step[p] = "drop_dm" /\ step'[p] = "drop_loop"
         \/ step[p] = "drop_loop" /\ step'[p] = (IF made[p] THEN "up" ELSE "lost")
         \/ step[p] = "lost" /\ step'[p] \in {"failed", "unmount"}
         \/ step[p] = "unmount" /\ step'[p] = "failed"
         \/ step[p] = "unmount" /\ step'[p] = "attach" /\ ~IsMounted(p)
         \/ step[p] \in {"up", "failed"} /\ step'[p] = "teardown"
         \/ step[p] = "teardown" /\ step'[p] = "failed"
         \/ step[p] = "teardown" /\ step'[p] = "verified" /\ ~IsMounted(p)
<1>0. StepType
  BY Parts DEF Types
<1>1. ASSUME NEW s, Goto(p, s)
      PROVE  step'[p] = s
  BY <1>0, <1>1 DEF Goto, StepType
<1>2. CASE Setup(p) \/ UnmountForRetry(p) \/ Teardown(p) \/ Replace(p)
  BY <1>1, <1>2 DEF Setup, UnmountForRetry, Teardown, Replace, MountPkgfs, Umount
<1>3. CASE CreateDevice(p) \/ LoadTable(p) \/ ResumeDevice(p) \/ RemoveOnError(p)
  BY <1>1, <1>3 DEF CreateDevice, LoadTable, ResumeDevice, RemoveOnError, Change
<1>4. CASE MountBase(p) \/ MountOverlay(p) \/ RollbackBase(p)
  BY <1>1, <1>4 DEF MountBase, MountOverlay, RollbackBase, Mount
<1>5. CASE DropDevice(p) \/ DropLoop(p) \/ Lost(p)
  BY <1>1, <1>5 DEF DropDevice, DropLoop, Lost
<1>6. CASE Served(p)
  BY <1>1, <1>6, ServedWaits
     DEF Served, PickLoop, TryAttach, AttachLoop, RetryOn, Answer
<1>. QED BY <1>2, <1>3, <1>4, <1>5, <1>6 DEF Own, Task

LEMMA StepInvStep == IInv /\ Next => StepInv'
<1>. DEFINE Bare == {"attach", "create", "load", "resume", "cleanup", "base"}
<1>. SUFFICES ASSUME IInv, Next, NEW p \in Pkgs
              PROVE  /\ step'[p] \in Bare => stack'[p] = <<>>
                     /\ step'[p] \in {"overlay", "rollback"} => Overlay /\ Len(stack'[p]) = 1
                     /\ made'[p] => /\ step'[p] \in {"drop_dm", "drop_loop"}
                                    /\ Len(stack'[p]) = FullDepth
  BY DEF StepInv, FullDepth
<1>0. StepInv /\ Types /\ KernelType /\ StepType /\ TaskType
  BY Parts DEF Types
<1>1. CASE Rests(p)
  BY <1>0, <1>1 DEF StepInv, Rests
<1>2. CASE Crash
  BY <1>2 DEF Crash
<1>3. CASE MountBase(p)
  <2>0. stack[p] = <<>> /\ (FullDepth = IF Overlay THEN 2 ELSE 1)
    BY <1>0, <1>3 DEF MountBase, StepInv, FullDepth
  <2>1. CASE Mount(p, Append(stack[p], devOf[p]), IF Overlay THEN "overlay" ELSE "drop_dm")
    <3>1. stack'[p] = Append(<<>>, devOf[p]) /\ Len(Append(<<>>, devOf[p])) = 1
      BY <1>0, <2>0, <2>1 DEF Mount, KernelType
    <3>2. step'[p] = (IF Overlay THEN "overlay" ELSE "drop_dm") /\ (made'[p] => ~Overlay)
      BY <1>0, <2>1 DEF Mount, Goto, StepType, TaskType
    <3>. QED BY <2>0, <3>1, <3>2, DeviceConstantsOK
  <2>2. CASE Mount(p, <<>>, "drop_dm")
    BY <1>0, <2>2 DEF Mount, Goto, KernelType, StepType, TaskType
  <2>. QED BY <1>3, <2>1, <2>2 DEF MountBase
<1>4. CASE MountOverlay(p)
  <2>0. Overlay /\ Len(stack[p]) = 1 /\ FullDepth = 2
        /\ stack[p] \in Seq(Devs \cup {"overlay"})
    BY <1>0, <1>4, DeviceConstantsOK DEF MountOverlay, StepInv, FullDepth, KernelType
  <2>1. CASE Mount(p, Append(stack[p], "overlay"), "drop_dm")
    <3>1. stack'[p] = Append(stack[p], "overlay") /\ step'[p] = "drop_dm"
      BY <1>0, <2>1 DEF Mount, Goto, KernelType, StepType
    <3>2. Len(stack'[p]) = 2
      BY <2>0, <3>1
    <3>. QED BY <2>0, <3>1, <3>2
  <2>2. CASE Mount(p, stack[p], "rollback")
    <3>1. stack'[p] = stack[p] /\ step'[p] = "rollback" /\ ~made'[p]
      BY <1>0, <2>2 DEF Mount, Goto, KernelType, StepType, TaskType
    <3>. QED BY <2>0, <3>1
  <2>. QED BY <1>4, <2>1, <2>2 DEF MountOverlay
<1>5. CASE Own(p) /\ ~MountBase(p) /\ ~MountOverlay(p)
  <2>1. CASE RollbackBase(p)
    <3>1. step[p] = "rollback" /\ step' = [step EXCEPT ![p] = "drop_dm"] /\ made' = made
      BY <2>1 DEF RollbackBase, Goto
    <3>2. step'[p] = "drop_dm" /\ ~made'[p]
      BY <1>0, <3>1 DEF StepInv, StepType
    <3>. QED BY <3>2
  <2>2. CASE UnmountForRetry(p) \/ Teardown(p)
    <3>1. step[p] \in {"unmount", "teardown"} /\ made' = made
      BY <2>2 DEF UnmountForRetry, Teardown
    <3>2. \/ step'[p] \in {"unmount", "teardown", "failed", "verified"}
          \/ step'[p] = "attach" /\ stack' = stack /\ ~IsMounted(p)
      <4>1. ASSUME NEW s, Goto(p, s)
            PROVE  step'[p] = s
        BY <1>0, <4>1 DEF Goto, StepType
      <4>2. CASE UnmountForRetry(p)
        BY <4>1, <4>2 DEF UnmountForRetry, Umount, MountPkgfs
      <4>3. CASE Teardown(p)
        BY <4>1, <4>3 DEF Teardown, Umount
      <4>. QED BY <2>2, <4>2, <4>3
    <3>. QED BY <1>0, <3>1, <3>2 DEF StepInv, IsMounted
  <2>3. CASE DropLoop(p)
    <3>1. ~made'[p] /\ step'[p] \in {"up", "lost"}
      BY <1>0, <2>3 DEF DropLoop, Goto, StepType, TaskType
    <3>. QED BY <3>1
  <2>4. CASE ~RollbackBase(p) /\ ~UnmountForRetry(p) /\ ~Teardown(p) /\ ~DropLoop(p)
    <3>1. stack' = stack /\ made' = made /\ step[p] # "drop_loop"
      BY <1>5, <2>4, ServedWaits
         DEF Own, Served, PickLoop, TryAttach, Setup, Task, Replace, CreateDevice, LoadTable,
             ResumeDevice, RemoveOnError, DropDevice, Lost, Change, kernel
    <3>2. step[p] \notin {"rollback", "unmount", "base", "overlay"}
      BY <1>5, <2>4, ServedWaits
         DEF Own, Served, Setup, Task, Replace, CreateDevice, LoadTable, ResumeDevice,
             RemoveOnError, DropDevice, Lost
    <3>3. \/ step'[p] = step[p]
          \/ step[p] = "verified" /\ step'[p] = "attach" /\ stack[p] = <<>>
          \/ step[p] \in Bare \ {"cleanup", "base"} /\ step'[p] \in Bare /\ step'[p] # "attach"
          \/ step[p] = "drop_dm" /\ step'[p] = "drop_loop"
          \/ step[p] # "drop_dm" /\ step'[p] \notin Bare \cup {"overlay", "rollback"}
      BY <1>5, <3>1, <3>2, OwnStep DEF IsMounted, MountBase, MountOverlay
    <3>4. stack'[p] = stack[p] /\ made'[p] = made[p] /\ step[p] # "drop_loop"
      BY <3>1
    <3>. QED BY <1>0, <3>3, <3>4 DEF StepInv
  <2>. QED BY <2>1, <2>2, <2>3, <2>4
<1>. QED BY <1>0, <1>1, <1>2, <1>3, <1>4, <1>5, TaskStep

\* Who waits for the actor goes on waiting until it is served, and who joins the
\* queue was not in it.
LEMMA MailStep == IInv /\ Next => MailInv'
<1>. SUFFICES ASSUME IInv, Next PROVE MailInv'
  OBVIOUS
<1>0. Types /\ MailInv /\ StepType /\ ActorType /\ mailbox \in Seq(Pkgs)
  BY Parts DEF Types, ActorType
<1>1. CASE UNCHANGED mailbox
  <2>1. ASSUME NEW i \in DOMAIN mailbox
        PROVE  step'[mailbox[i]] = "attach"
    <3>1. mailbox[i] \in Pkgs /\ step[mailbox[i]] = "attach"
      BY <1>0 DEF MailInv
    <3>2. CASE Own(mailbox[i])
      <4>1. \/ Setup(mailbox[i]) \/ Task(mailbox[i]) \/ Replace(mailbox[i])
            \/ Served(mailbox[i])
        BY <3>2 DEF Own
      <4>2. Served(mailbox[i])
        BY <3>1, <4>1 DEF Setup, Task, Replace, CreateDevice, LoadTable, ResumeDevice,
           RemoveOnError, MountBase, MountOverlay, RollbackBase, DropDevice, DropLoop, Lost,
           UnmountForRetry, Teardown
      <4>3. mailbox # <<>> /\ mailbox' = Tail(mailbox)
        BY <4>2 DEF Served, PickLoop, TryAttach, AttachLoop, RetryOn, Answer
      <4>. QED BY <1>0, <1>1, <4>3
    <3>3. CASE Crash
      BY <1>1, <2>1, <3>3 DEF Crash
    <3>. QED BY <3>1, <3>2, <3>3, <1>0, TaskStep DEF Rests
  <2>. QED BY <1>0, <1>1, <2>1 DEF MailInv
<1>2. ASSUME NEW p \in Pkgs, step[p] # "attach", step' = [step EXCEPT ![p] = "attach"],
             mailbox' = Append(mailbox, p)
      PROVE  MailInv'
  <2>1. /\ Len(mailbox') = Len(mailbox) + 1 /\ mailbox'[Len(mailbox) + 1] = p
        /\ \A i \in 1..Len(mailbox) : mailbox'[i] = mailbox[i]
        /\ mailbox' \in Seq(Pkgs)
    BY <1>0, <1>2, TopOfStack
  <2>2. \A i \in DOMAIN mailbox : mailbox[i] \in Pkgs /\ step[mailbox[i]] = "attach"
    BY <1>0 DEF MailInv
  <2>3. \A i \in DOMAIN mailbox : mailbox[i] # p /\ step'[mailbox[i]] = "attach"
    BY <1>0, <1>2, <2>2 DEF StepType
  <2>4. DOMAIN mailbox = 1..Len(mailbox) /\ DOMAIN mailbox' = 1..(Len(mailbox) + 1)
        /\ Len(mailbox) \in Nat
    BY <1>0, <2>1
  <2>5. step'[p] = "attach"
    BY <1>0, <1>2 DEF StepType
  <2>6. \A i \in DOMAIN mailbox' : \/ i \in DOMAIN mailbox /\ mailbox'[i] = mailbox[i]
                                   \/ i = Len(mailbox) + 1 /\ mailbox'[i] = p
    BY <2>1, <2>4
  <2>. QED BY <1>0, <2>3, <2>5, <2>6 DEF MailInv
<1>3. ASSUME mailbox # <<>>, NEW s, Answer(s)
      PROVE  MailInv'
  <2>1. /\ Serving = mailbox[1] /\ 1 \in DOMAIN mailbox
        /\ \A i \in DOMAIN Tail(mailbox) :
               i + 1 \in DOMAIN mailbox /\ Tail(mailbox)[i] = mailbox[i + 1]
    BY <1>0, <1>3, ServingIsFirst
  <2>2. ASSUME NEW i \in DOMAIN Tail(mailbox)
        PROVE  step'[Tail(mailbox)[i]] = "attach"
    <3>1. mailbox[i + 1] \in Pkgs /\ step[mailbox[i + 1]] = "attach"
      BY <1>0, <2>1 DEF MailInv
    <3>2. i + 1 # 1
      BY <1>0, <1>3
    <3>3. mailbox[i + 1] # Serving
      BY <1>0, <2>1, <3>2 DEF MailInv
    <3>. QED BY <1>0, <1>3, <2>1, <3>1, <3>3 DEF Answer, Goto, StepType
  <2>3. ASSUME NEW i \in DOMAIN Tail(mailbox), NEW j \in DOMAIN Tail(mailbox),
               Tail(mailbox)[i] = Tail(mailbox)[j]
        PROVE  i = j
    <3>1. i + 1 = j + 1
      BY <1>0, <2>1, <2>3 DEF MailInv
    <3>2. i \in Nat /\ j \in Nat
      BY <1>0, <1>3
    <3>. QED BY <3>1, <3>2
  <2>. QED BY <1>3, <2>2, <2>3 DEF MailInv, Answer
<1>4. CASE Crash
  BY <1>4 DEF Crash, MailInv
<1>5. \/ UNCHANGED mailbox \/ Crash \/ (mailbox # <<>> /\ \E s : Answer(s))
      \/ \E p \in Pkgs : (Setup(p) \/ UnmountForRetry(p)) /\ Goto(p, "attach")
                             /\ mailbox' = Append(mailbox, p)
  BY DEF Next, Reap, Host, ReapDev, ReapLoop, HostBinds, HostReleases, actor, LoopActor,
     PickLoop, TryAttach, AttachLoop, RetryOn, Setup, Task, Replace, CreateDevice, LoadTable,
     ResumeDevice, RemoveOnError, MountBase, MountOverlay, RollbackBase, DropDevice,
     DropLoop, Lost, UnmountForRetry, Teardown, Change, Mount, MountPkgfs
<1>. QED BY <1>1, <1>2, <1>3, <1>4, <1>5 DEF Setup, UnmountForRetry, Goto

-----------------------------------------------------------------------------
(* The chains *)

\* Nothing takes the devices under a mount away.
LEMMA ChainKept ==
  ASSUME IInv, Next, NEW p \in Pkgs, NEW d, NEW l,
         IsMounted(p), d = stack[p][1], l = dm[d].on
  PROVE  /\ d \in Devs /\ l \in Loops
         /\ dm'[d].state = "active" /\ dm'[d].on = l /\ loop'[l].user = p
         /\ loop'[l].latest = loop[l].latest \/ Outdated(l, p)
<1>0. Types /\ KernelType /\ DevInv
  BY Parts DEF Types
<1>1. /\ d \in Devs /\ l \in Loops /\ p \in MountsOf(d)
      /\ dm[d].state = "active" /\ loop[l].user = p /\ d \in UsersOf(l)
      /\ dm[d] \in DevStates /\ loop[l] \in LoopStates
  BY <1>0, Parts, StackTypes DEF ShapeInv, ChainInv, UsersOf, KernelType
<1>2. dm'[d].state = "active" /\ dm'[d].on = l
  <2>1. ~ReapedDev(d) /\ \A q \in Pkgs : ~MadeDev(d, q)
    BY <1>1 DEF ReapedDev, MadeDev, NoDev, Created
  <2>2. ASSUME NEW q \in Pkgs, WorkedOn(d, q)
        PROVE  FALSE
    <3>1. devOf[q] = d /\ step[q] \in {"load", "resume", "cleanup"}
      BY <2>2 DEF WorkedOn, LoadTable, ResumeDevice, RemoveOnError
    <3>2. DevAt(q)
      BY <1>0, <3>1 DEF DevInv, WithDev
    <3>. QED BY <1>1, <3>1, <3>2 DEF DevAt, IsOn, Created
  <2>3. ASSUME NEW q \in Pkgs, LetGo(d, q)
        PROVE  dm'[d].state = dm[d].state /\ dm'[d].on = dm[d].on
    <3>1. dm'[d] = [dm[d] EXCEPT !.deferred = TRUE]
      BY <1>1, <2>3 DEF LetGo, Removed
    <3>. QED BY <1>1, <3>1 DEF DevStates
  <2>. QED BY <1>0, <1>1, <2>1, <2>2, <2>3, DevStep
<1>3. loop'[l].user = p /\ (loop'[l].latest = loop[l].latest \/ Outdated(l, p))
  <2>1. ~FreedByKernel(l) /\ ~OfTheHost(l) /\ ~Attached(l)
    BY <1>1, NobodyIsNoPackage DEF FreedByKernel, OfTheHost, Attached, Unbound, BoundTo
  <2>2. ASSUME NEW q \in Pkgs, Dropped(l, q)
        PROVE  loop'[l].user = p /\ loop'[l].latest = loop[l].latest
    <3>1. loop'[l] = [loop[l] EXCEPT !.clear = TRUE]
      BY <1>1, <2>2 DEF Dropped, Cleared
    <3>. QED BY <1>1, <3>1 DEF LoopStates
  <2>3. ASSUME NEW q \in Pkgs, Outdated(l, q)
        PROVE  loop'[l].user = p /\ q = p
    BY <1>1, <2>3 DEF Outdated, LoopStates
  <2>. QED BY <1>0, <1>1, <2>1, <2>2, <2>3, LoopStep
<1>. QED BY <1>1, <1>2, <1>3

\* What a mount of the base stands on.
LEMMA BaseStands ==
  ASSUME IInv, NEW p \in Pkgs, BaseOn(p)
  PROVE  /\ dm' = dm /\ loop' = loop
         /\ dm[devOf[p]].state = "active" /\ dm[devOf[p]].on = held[p]
         /\ held[p] \in Loops /\ loop[held[p]].user = p /\ loop[held[p]].latest
<1>1. step[p] = "base" /\ dm' = dm /\ loop' = loop
  BY DEF BaseOn, MountBase, Mount
<1>2. DevAt(p) /\ held[p] \in Loops /\ loop[held[p]] = BoundTo(p)
  BY <1>1, Parts DEF DevInv, HoldInv, WithLoop, WithDev
<1>. QED BY <1>1, <1>2 DEF DevAt, IsOn, BoundTo

LEMMA ChainStep == IInv /\ Next => ChainInv'
<1>. SUFFICES ASSUME IInv, Next, NEW p \in Pkgs, stack'[p] # <<>>
              PROVE  /\ dm'[stack'[p][1]].state = "active" /\ dm'[stack'[p][1]].on \in Loops
                     /\ loop'[dm'[stack'[p][1]].on].user = p
  BY DEF ChainInv, IsMounted
<1>1. CASE BaseOn(p)
  BY <1>1, BaseStands DEF BaseOn
<1>2. CASE IsMounted(p) /\ stack'[p][1] = stack[p][1]
  BY <1>2, ChainKept
<1>3. CASE stack'[p] = stack[p]
  BY <1>2, <1>3 DEF IsMounted
<1>4. CASE TopGone(p)
  BY <1>2, <1>4 DEF TopGone
<1>5. CASE OverlayOn(p)
  <2>1. stack[p] # <<>>
    BY <1>5, Parts, StackTypes DEF OverlayOn
  <2>. QED BY <1>2, <1>5, <2>1 DEF OverlayOn, IsMounted
<1>. QED BY <1>1, <1>3, <1>4, <1>5, StackStep

LEMMA UpStep == IInv /\ Next /\ "crash" \notin faults => UpInv'
<1>. SUFFICES ASSUME IInv, Next, "crash" \notin faults, NEW p \in Pkgs
              PROVE  /\ step'[p] = "verified" => stack'[p] = <<>>
                     /\ step'[p] = "up" => Len(stack'[p]) = FullDepth
                     /\ stack'[p] # <<>> => loop'[dm'[stack'[p][1]].on].latest
  BY DEF UpInv, IsMounted, FullDepth
<1>0. UpInv /\ Types /\ StepInv /\ StepType /\ KernelType /\ ~Crash
  BY Parts DEF IInv, Types, Crash
<1>1. stack'[p] # <<>> => loop'[dm'[stack'[p][1]].on].latest
  <2>1. CASE BaseOn(p)
    BY <2>1, BaseStands DEF BaseOn
  <2>2. CASE IsMounted(p) /\ stack'[p][1] = stack[p][1]
    <3>1. loop[dm[stack[p][1]].on].latest
      BY <1>0, <2>2 DEF UpInv
    <3>2. \A l : ~Outdated(l, p)
      BY <1>0, <2>2 DEF UpInv, Outdated, IsMounted
    <3>. QED BY <2>2, <3>1, <3>2, ChainKept
  <2>3. CASE OverlayOn(p)
    <3>1. stack[p] # <<>>
      BY <2>3, Parts, StackTypes DEF OverlayOn
    <3>. QED BY <2>2, <2>3, <3>1 DEF OverlayOn, IsMounted
  <2>. QED BY <2>1, <2>2, <2>3, StackStep DEF TopGone, IsMounted
<1>2. CASE Rests(p)
  BY <1>0, <1>1, <1>2 DEF Rests, UpInv
<1>3. CASE Own(p)
  <2>1. CASE step'[p] = step[p] /\ step[p] \in {"verified", "up"}
    <3>1. stack' = stack
      BY <1>0, <1>3, <2>1, ServedWaits
         DEF Own, Served, PickLoop, TryAttach, Setup, Task, Replace, CreateDevice,
             LoadTable, ResumeDevice, RemoveOnError, MountBase, MountOverlay, RollbackBase,
             DropDevice, DropLoop, Lost, UnmountForRetry, Teardown, Change, kernel
    <3>. QED BY <1>0, <1>1, <2>1, <3>1 DEF UpInv
  <2>2. CASE step'[p] = "verified" /\ step[p] = "teardown" /\ ~IsMounted(p)
    <3>1. stack'[p] = stack[p] \/ stack'[p] = <<>>
      BY <2>2, StackStep DEF TopGone, BaseOn, OverlayOn, MountBase, MountOverlay
    <3>. QED BY <1>1, <2>2, <3>1 DEF IsMounted
  <2>3. CASE step'[p] = "up" /\ step[p] = "drop_loop" /\ made[p]
    <3>1. DropLoop(p)
      BY <1>3, <2>3, ServedWaits
         DEF Own, Served, Setup, Task, Replace, CreateDevice, LoadTable, ResumeDevice,
             RemoveOnError, MountBase, MountOverlay, RollbackBase, DropDevice, Lost,
             UnmountForRetry, Teardown
    <3>2. stack' = stack /\ Len(stack[p]) = FullDepth
      BY <1>0, <2>3, <3>1 DEF DropLoop, StepInv
    <3>. QED BY <1>1, <2>3, <3>2
  <2>4. CASE step[p] = "verified" /\ step'[p] = "up" /\ IsMounted(p)
    BY <1>0, <2>4 DEF UpInv, IsMounted
  <2>5. CASE step'[p] \notin {"verified", "up"}
    BY <1>1, <2>5
  <2>. QED BY <1>3, <2>1, <2>2, <2>3, <2>4, <2>5, OwnStep
           DEF MountBase, MountOverlay
<1>. QED BY <1>0, <1>2, <1>3, TaskStep

\* A setup lets go of a device only to the kernel.
LEMMA LetGoStep ==
  IInv /\ Next /\ faults \cap {"crash", "release"} = {} => LetGoInv'
<1>. SUFFICES ASSUME IInv, Next, faults \cap {"crash", "release"} = {} PROVE LetGoInv'
  OBVIOUS
<1>0. LetGoInv /\ Types /\ KernelType /\ TaskType /\ ~Crash
  BY Parts DEF IInv, Types, Crash
<1>r. Outcomes("release") = {TRUE}
  BY DEF Outcomes
<1>1. ASSUME NEW p \in Pkgs, NEW d \in Devs, devOf[p] = d, devOf'[p] # d
      PROVE  dm'[d] = NoDev \/ dm'[d].deferred
  <2>1. RemoveOnError(p) \/ DropDevice(p) \/ CreateDevice(p)
    BY <1>0, <1>1, TaskStep
       DEF Rests, Own, Served, PickLoop, TryAttach, Setup, Task, Replace, LoadTable,
           ResumeDevice, MountBase, MountOverlay, RollbackBase, DropLoop, Lost,
           UnmountForRetry, Teardown, Change, Mount
  <2>2. ~CreateDevice(p)
    BY <1>1, DevOfExists DEF CreateDevice, WithDev
  <2>3. CASE RemoveOnError(p)
    <3>1. dm' = [dm EXCEPT ![d] = NoDev]
      BY <1>r, <1>1, <2>3 DEF RemoveOnError, Change
    <3>. QED BY <1>0, <3>1 DEF KernelType
  <2>4. CASE DropDevice(p)
    <3>1. dm' = [dm EXCEPT ![d] = Removed(d)]
      BY <1>r, <1>1, <2>4 DEF DropDevice
    <3>2. dm'[d] = Removed(d) /\ dm[d] \in DevStates
      BY <1>0, <3>1 DEF KernelType
    <3>. QED BY <3>2 DEF Removed, DevStates
  <2>. QED BY <2>1, <2>2, <2>3, <2>4
<1>2. ASSUME NEW d \in Devs
      PROVE  dm'[d] = NoDev \/ dm'[d].deferred \/ \E p \in Pkgs : devOf'[p] = d
  <2>1. CASE dm'[d] = dm[d]
    BY <1>0, <1>1, <2>1 DEF LetGoInv
  <2>2. CASE ReapedDev(d) \/ \E p \in Pkgs : MadeDev(d, p)
    BY <2>2 DEF ReapedDev, MadeDev
  <2>3. CASE \E p \in Pkgs : WorkedOn(d, p) \/ LetGo(d, p)
    BY <1>1, <2>3 DEF WorkedOn, LetGo
  <2>. QED BY <1>0, <2>1, <2>2, <2>3, DevStep
<1>3. ASSUME NEW l \in Loops, loop'[l].user \in Pkgs
      PROVE  loop'[l].clear \/ held'[loop'[l].user] = l
  <2>0. loop[l] \in LoopStates
    BY <1>0 DEF KernelType
  <2>1. ~FreedByKernel(l) /\ ~OfTheHost(l)
    BY <1>3, NobodyIsNoPackage DEF FreedByKernel, OfTheHost, Unbound, BoundTo
  <2>2. CASE Attached(l)
    <3>1. held' = [held EXCEPT ![Serving] = l] /\ Serving \in Pkgs /\ loop'[l].user = Serving
      BY <2>2, ServedWaits DEF Attached, AttachLoop, BoundTo
    <3>. QED BY <1>0, <3>1 DEF TaskType
  <2>3. ASSUME NEW p \in Pkgs, DropLoop(p), held[p] = l
        PROVE  loop'[l].clear
    <3>1. loop' = [loop EXCEPT ![l] = Cleared(l)]
      BY <1>r, <2>3 DEF DropLoop
    <3>2. loop'[l] = Cleared(l)
      BY <1>0, <3>1 DEF KernelType
    <3>3. Cleared(l) # Unbound
      BY <1>3, <3>2, NobodyIsNoPackage DEF Unbound, BoundTo
    <3>. QED BY <2>0, <3>2, <3>3 DEF Cleared, LoopStates
  <2>4. CASE loop'[l] = loop[l]
    <3>1. PICK p \in Pkgs : p = loop[l].user
      BY <1>3, <2>4
    <3>2. loop[l].clear \/ held[p] = l
      BY <1>0, <3>1 DEF LetGoInv
    <3>3. CASE held[p] = l /\ held'[p] # l
      <4>1. DropLoop(p) \/ Served(p)
        BY <1>0, <3>3, TaskStep
           DEF Rests, Own, Setup, Task, Replace, CreateDevice, LoadTable, ResumeDevice,
               RemoveOnError, MountBase, MountOverlay, RollbackBase, DropDevice, Lost,
               UnmountForRetry, Teardown, Change, Mount
      <4>2. ~Served(p)
        <5>1. step[p] \in WithLoop
          BY <3>3, Parts, NobodyIsNoPackage DEF HoldInv
        <5>. QED BY <5>1, ServedWaits DEF Served, WithLoop, WithDev
      <4>. QED BY <2>3, <3>3, <4>1, <4>2
    <3>. QED BY <2>4, <3>1, <3>2, <3>3
  <2>5. ASSUME NEW p \in Pkgs, Outdated(l, p)
        PROVE  loop'[l].clear
    <3>1. loop[l].user = p /\ loop'[l] = [loop[l] EXCEPT !.latest = FALSE]
          /\ step[p] \notin WithLoop
      BY <2>5 DEF Outdated, WithLoop, WithDev
    <3>2. held[p] = "none"
      BY <3>1, Parts DEF HoldInv
    <3>3. loop[l].clear
      BY <1>0, <3>1, <3>2, NobodyIsNoPackage DEF LetGoInv
    <3>. QED BY <2>0, <3>1, <3>3 DEF LoopStates
  <2>. QED BY <1>0, <2>1, <2>2, <2>3, <2>4, <2>5, LoopStep DEF Dropped
<1>. QED BY <1>2, <1>3 DEF LetGoInv

-----------------------------------------------------------------------------
(* The theorems *)

LEMMA InitIInv == Init => IInv
<1>. SUFFICES ASSUME Init PROVE IInv
  OBVIOUS
<1>1. KernelType /\ StepType /\ TaskType /\ ActorType
  <2>1. KernelType
    BY StatesOfDevices DEF Init, KernelType, Unbound
  <2>2. StepType /\ TaskType /\ ActorType
    BY DeviceConstantsOK DEF Init, StepType, TaskType, ActorType, Resting, NoTry
  <2>. QED BY <2>1, <2>2
<1>2. \A p \in Pkgs : /\ stack[p] = <<>> /\ step[p] = "verified" /\ held[p] = "none"
                      /\ devOf[p] = "none" /\ ~made[p]
  BY DEF Init
<1>3. ChainsInv /\ SetupInv
  <2>1. FullDepth \in 1..2
    BY DeviceConstantsOK DEF FullDepth
  <2>2. ShapeInv /\ ChainInv
    BY <1>2, <2>1 DEF ShapeInv, ChainInv, IsMounted
  <2>3. HoldInv /\ DevInv /\ OwnDevInv /\ StepInv
    BY <1>2, NobodyIsNoPackage DEF HoldInv, DevInv, OwnDevInv, StepInv, WithLoop, WithDev
  <2>4. MailInv
    BY DEF Init, MailInv
  <2>. QED BY <2>2, <2>3, <2>4 DEF ChainsInv, SetupInv
<1>4. LetGoInv /\ UpInv
  BY <1>2, NobodyIsNoPackage DEF Init, LetGoInv, UpInv, IsMounted, Unbound, BoundTo
<1>. QED BY <1>1, <1>3, <1>4, TypeParts DEF IInv

LEMMA StepIInv == IInv /\ [Next]_vars => IInv'
<1>. SUFFICES ASSUME IInv, [Next]_vars PROVE IInv'
  OBVIOUS
<1>1. CASE UNCHANGED vars
  <2>1. UNCHANGED <<loop, dm, stack, step, held, devOf, made, retried, mailbox, try, faults>>
    BY <1>1 DEF vars, kernel, tasks, actor
  <2>2. TypeOK'
    BY <2>1 DEF IInv, TypeOK
  <2>3. ChainsInv'
    BY <2>1 DEF IInv, ChainsInv, ShapeInv, ChainInv, IsMounted
  <2>4. HoldInv' /\ OwnDevInv' /\ StepInv' /\ MailInv'
    BY <2>1, Parts DEF HoldInv, OwnDevInv, StepInv, MailInv
  <2>5. DevInv'
    BY <2>1, Parts DEF DevInv, DevAt, IsOn
  <2>6. (LetGoInv => LetGoInv') /\ (UpInv => UpInv')
    BY <2>1 DEF LetGoInv, UpInv, IsMounted
  <2>. QED BY <2>1, <2>2, <2>3, <2>4, <2>5, <2>6 DEF IInv, SetupInv
<1>2. CASE Next
  <2>1. TypeOK' /\ ChainsInv' /\ SetupInv'
    BY <1>2, Parts, TypeStep, ShapeStep, ChainStep, HoldStep, DevInvStep, OwnDevStep,
       StepInvStep, MailStep DEF IInv, ChainsInv, SetupInv
  <2>2. faults' = faults
    BY <1>2 DEF Next, Reap, Host, ReapDev, ReapLoop, HostBinds, HostReleases, LoopActor,
       PickLoop, TryAttach, Crash, Setup, Task, Replace, CreateDevice, LoadTable,
       ResumeDevice, RemoveOnError, MountBase, MountOverlay, RollbackBase, DropDevice,
       DropLoop, Lost, UnmountForRetry, Teardown, Change, Mount
  <2>. QED BY <1>2, <2>1, <2>2, LetGoStep, UpStep DEF IInv
<1>. QED BY <1>1, <1>2

LEMMA InductiveInv == Spec => []IInv
  BY InitIInv, StepIInv, PTL DEF Spec

\* The state of the devices, mounts, setups and the actor is always well typed; what
\* is put on a mount point is a device the setup has, and the counts of the errors
\* of an attach stay within ATTACH_BUSY_MAX_RETRIES and ATTACH_WOULDBLOCK_MAX_RETRIES.
THEOREM DevicesTypeCorrect == Spec => []TypeOK
  BY InductiveInv, PTL DEF IInv

\* Whatever mount_pkgfs left mounted is over a live dm device over a loop device on
\* the package's own file, however setups overlap and whatever is let go or fails.
THEOREM ChainsAreBacked == Spec => []BaseIsBacked
<1>1. IInv => BaseIsBacked
  BY Parts DEF ShapeInv, ChainInv, BaseIsBacked, Backed
<1>. QED BY <1>1, InductiveInv, PTL

\* The idempotency gate of mount_pkgfs keeps a second chain off a mount point, also
\* after the daemon died in the middle of a setup.
THEOREM ChainsAreSingle == Spec => []NoRestack
<1>1. IInv => NoRestack
  <2>. SUFFICES ASSUME IInv, NEW p \in Pkgs
                PROVE  Len(stack[p]) <= FullDepth
    BY DEF NoRestack
  <2>1. FullDepth \in 1..2
    BY DeviceConstantsOK DEF FullDepth
  <2>2. Len(stack[p]) \in 0..FullDepth
    BY Parts DEF ShapeInv
  <2>. QED BY <2>1, <2>2
<1>. QED BY <1>1, InductiveInv, PTL

\* Once nothing is under way each device that is taken carries a mount: what
\* VerityDevice::drop and LoopDevice::drop let go of is freed with its last user.
THEOREM NothingLeaks == Spec => []NoLeak
<1>1. IInv => NoLeak
  <2>. SUFFICES ASSUME IInv, AtRest, faults \cap {"crash", "release"} = {}
                PROVE  /\ \A d \in Devs : dm[d] # NoDev => MountsOf(d) # {}
                       /\ \A l \in Loops : loop[l].user \in Pkgs => UsersOf(l) # {}
    BY DEF NoLeak
  <2>1. LetGoInv
    BY DEF IInv
  <2>2. \A p \in Pkgs : devOf[p] = "none" /\ held[p] = "none"
    BY Parts DEF AtRest, Resting, HoldInv, DevInv, WithLoop, WithDev
  <2>. QED BY <2>1, <2>2, NobodyIsNoPackage DEF LetGoInv, AtRest
<1>. QED BY <1>1, InductiveInv, PTL

\* A package setup() reports ready has all its layers, over the file that is
\* installed, as long as the daemon did not die.
THEOREM ReadyHasItsStack == Spec => []ReadyIsWholeOtherwise
<1>1. IInv => ReadyIsWholeOtherwise
  <2>. SUFFICES ASSUME IInv, "crash" \notin faults, NEW p \in Pkgs, step[p] = "up"
                PROVE  /\ Len(stack[p]) = FullDepth
                       /\ Backed(p) /\ loop[dm[stack[p][1]].on].latest
    BY DEF ReadyIsWholeOtherwise, ReadyIsWhole
  <2>1. Len(stack[p]) = FullDepth /\ FullDepth \in 1..2
    BY DeviceConstantsOK DEF IInv, UpInv, FullDepth
  <2>2. IsMounted(p)
    BY <2>1, Parts, StackTypes DEF IsMounted
  <2>. QED BY <2>1, <2>2, Parts DEF IInv, UpInv, ShapeInv, ChainInv, Backed
<1>. QED BY <1>1, InductiveInv, PTL
=============================================================================
