----------------------------- MODULE SsamDaemon -----------------------------
(***************************************************************************)
(* The daemon as a whole: the RPCs of its clients, the package manager     *)
(* actor that serves their messages one at a time, the packages, each with *)
(* the task that sets it up, and the end of the daemon on a signal.        *)
(*                                                                         *)
(* A package is what PackageService says it is.  It serves one request at  *)
(* a time and nobody sees it in between, so a request is one step here.    *)
(* The packages of one name, one after the other, share a file, a mount    *)
(* point and a unit, which outlive the daemon as well; a version stands    *)
(* for the contents of a package file.                                     *)
(***************************************************************************)
EXTENDS Naturals, Sequences, FiniteSets, PackageTransitions

CONSTANTS
    Names,       \* package names
    MaxVersion,  \* versions of packages: 1..MaxVersion
    Clients,     \* RPC connections
    Calls,       \* Calls[c]: the RPCs that c makes
    QueueMax,    \* messages in the manager's mailbox when a client calls
    LeftMax,     \* tasks of packages that left the store, when a client calls
    Autostart,   \* package.autostart
    Scenarios    \* what may happen together, of DaemonFaults, and the packages
                 \* whose file is there at first

DaemonFaults == {"work", "umount", "install", "recover", "actor", "exit",
                 "hangup", "crash"}

Versions == 1..MaxVersion
Ops      == {"start", "stop", "install", "remove", "list"}

ASSUME DaemonConstantsOK ==
    /\ "none" \notin Names \cup Clients /\ "signal" \notin Clients
    /\ MaxVersion \in Nat \ {0} /\ QueueMax \in Nat \ {0} /\ LeftMax \in Nat
    /\ \A c \in Clients :
           Calls[c] \subseteq [op : Ops, names : SUBSET Names, version : Versions]
    /\ Autostart \in BOOLEAN
    /\ Scenarios \subseteq [faults : SUBSET DaemonFaults, bundled : SUBSET Names]

\* A Package, and where the task is that initialize() spawned for it.
Shown   == {"Verified", "Ready", "active", "Upgrading", "Error"}
Created(n, v) == [name |-> n, version |-> v, status |-> "Verified", init |-> "setup"]
NoPackage == [Created("none", 0) EXCEPT !.init = "done"]

\* A message of the package manager, and who waits for its answer.
Message(from, op, n, v) == [from |-> from, op |-> op, name |-> n, version |-> v]

\* An RPC that is served: the names it asks the manager for, and whether it waits
\* for an answer.
NoRpc == [op |-> "none", names |-> {}, version |-> 1, waits |-> FALSE]

\* What the manager is at: the stage of the handler, the package it is about,
\* and those that are left to tear down.
Resting == [stage |-> "idle", name |-> "none", todo |-> {}]

VARIABLES
    proc,    \* "up", "draining" when only RPCs under way are served, "down"
    signal,  \* the task that waits for a signal: "waiting", "teardown", "done"
    rpc,     \* rpc[c]: the RPC of client c
    queue,   \* the manager's mailbox; the head is being served
    mgr,     \* the manager
    tx,      \* PackageTransactionActor is alive
    pkg,     \* pkg[n]: the package of name n in the store
    left,    \* packages no longer in the store that are still initializing
    file,    \* file[n]: the version of the package file, 0 for none
    mount,   \* mount[n]: the version mounted at the mount point of n
    unit,    \* unit[n]: the version that the unit of n runs
    skipped, \* history: the names of which a package was let go, or replaced with
             \* its mount in place, without a teardown: it was still Verified
    faults   \* what may happen in this behaviour

host    == <<file, mount, unit>>
service == <<proc, signal>>
vars    == <<service, rpc, queue, mgr, tx, pkg, left, host, skipped, faults>>

TypeOK ==
    /\ proc \in {"up", "draining", "down"}
    /\ signal \in {"waiting", "teardown", "done"}
    /\ rpc \in [Clients -> [op : Ops \cup {"none"}, names : SUBSET Names,
                            version : Versions, waits : BOOLEAN]]
    /\ queue \in Seq([from : Clients \cup {"none", "signal"},
                      op : Ops \cup {"names", "teardown"},
                      name : Names \cup {"none"}, version : Versions])
    /\ mgr \in [stage : {"idle", "query", "teardown", "replace", "purge", "next"},
                name : Names \cup {"none"}, todo : SUBSET Names]
    /\ tx \in BOOLEAN
    /\ pkg \in [Names -> {NoPackage} \cup
                    [name : Names, version : Versions, status : Shown,
                     init : {"setup", "start", "done"}]]
    /\ \A n \in Names : pkg[n] # NoPackage => pkg[n].name = n
    /\ left \subseteq [name : Names, version : Versions, status : Shown,
                       init : {"setup", "start"}]
    /\ {file, mount, unit} \subseteq [Names -> Versions \cup {0}]
    /\ skipped \subseteq Names
    /\ faults \subseteq DaemonFaults

Init ==
    /\ proc = "down" /\ signal = "waiting"
    /\ rpc = [c \in Clients |-> NoRpc]
    /\ queue = <<>> /\ mgr = Resting /\ tx = TRUE
    /\ pkg = [n \in Names |-> NoPackage] /\ left = {}
    /\ mount = [n \in Names |-> 0] /\ unit = [n \in Names |-> 0]
    /\ skipped = {}
    /\ \E s \in Scenarios :
          /\ faults = s.faults
          /\ file = [n \in Names |-> IF n \in s.bundled THEN 1 ELSE 0]

-----------------------------------------------------------------------------
(* Helpers *)

Stored == {n \in Names : pkg[n] # NoPackage}
May(fault) == fault \in faults

\* What a request comes to: a status, and what is mounted and runs after it.
Result(s, m, u) == [status |-> s, mount |-> m, unit |-> u]

\* The results of a request that is carried out are results a package promises.
Promised(n, p, r) ==
    {o \in [status : Shown, mount : {0, mount[n], p.version},
            unit : {0, unit[n], mount[n]}] :
        /\ o.status \in EndsIn(r, p.status)
        /\ (o.mount # 0) \in EndsMounted(r, o.status)}

\* The package file is mounted by the layout that its package was made with: the
\* file of another version does not verify.  What is there is not looked at.
SetUp(n, p) ==
    {o \in Promised(n, p, "SettingUp") :
        /\ o.unit = unit[n]
        /\ \/ /\ o.status = "Ready"
              /\ o.mount = IF mount[n] # 0 THEN mount[n] ELSE p.version
              /\ mount[n] # 0 \/ file[n] = p.version
           \/ /\ o.status = "Error"
              /\ May("work") \/ (mount[n] = 0 /\ file[n] # p.version)
              /\ o.mount # 0 => May("umount")}

\* A unit that is there is left as it is, and one is started from what is
\* mounted.
Started(n, p) ==
    {o \in Promised(n, p, "StartRequested") :
        /\ o.mount = mount[n]
        /\ IF unit[n] # 0 THEN o = Result("active", mount[n], unit[n])
           ELSE \/ o = Result("active", mount[n], mount[n]) /\ mount[n] # 0
                \/ o.status = "Error" /\ (May("work") \/ (mount[n] = 0 /\ o.unit = 0))}

Stopped(n, p) ==
    {o \in Promised(n, p, "StopRequested") :
        /\ o.mount = mount[n]
        /\ \/ o.status = "Ready" /\ o.unit = 0
           \/ o.status = "Error" /\ May("work") /\ o.unit \in {0, unit[n]}}

\* Upgrading and Teardown: the executor is stopped, and a stop that fails is not
\* looked at; then everything is unmounted.
Undone(n, p, r) ==
    {o \in Promised(n, p, r) :
        /\ \/ o.unit = 0
           \/ o.unit = unit[n] /\ (May("work") \/ p.status = "Error")
        /\ \/ o.mount = 0 /\ (r = "Upgrading" => o.status = "Upgrading")
           \/ /\ May("umount") /\ o.mount = mount[n] /\ o.mount # 0
              /\ r = "Upgrading" => o.status = "Error"}

\* All that a request to a package may come to.
Served(n, p, r) ==
    IF ~Applicable(p.status, r) \/ Ignored(p.status, r) \/ p.status = r
    THEN {Result(p.status, mount[n], unit[n])}
    ELSE CASE r = "SettingUp"      -> SetUp(n, p)
           [] r = "StartRequested" -> Started(n, p)
           [] r = "StopRequested"  -> Stopped(n, p)
           [] r = "Upgrading" ->
                  IF p.status = "Verified"
                  THEN {Result("Upgrading", mount[n], unit[n])}
                  ELSE Undone(n, p, r)

\* The host after it.
Leaves(n, o) ==
    /\ mount' = [mount EXCEPT ![n] = o.mount]
    /\ unit' = [unit EXCEPT ![n] = o.unit]

\* The next status of the task of initialize(), which goes on after an error.
Then(init) == IF init = "setup" /\ Autostart THEN "start" ELSE "done"

Requested(init) == IF init = "setup" THEN "SettingUp" ELSE "StartRequested"

\* Bug: a task is kept that has ended.
LingeringAll(n) == {pkg[n]}

\* What becomes of a package that leaves the store: its task goes on, to the end
\* of what the transition table lets it ask for.
Lingering(n) ==
    {p \in {pkg[n]} : p.init # "done" /\ Applicable(p.status, Requested(p.init))}

\* For skipped: n, if its package is yet to be set up, and the names of which
\* something is mounted or runs.
StillVerified(n) == {m \in {n} : pkg[m].status = "Verified"}
OnHost == {n \in Names : mount[n] # 0 \/ unit[n] # 0}

-----------------------------------------------------------------------------
(* Clients and the RPC server *)

\* The next message of an RPC: resolve_package_names asks for all names if there
\* is none, and then one name after the other is asked for, in any order.
Asks(c, r, op, n) ==
    /\ queue' = Append(queue, Message(c, op, n, r.version))
    /\ rpc' = [rpc EXCEPT ![c] = [r EXCEPT !.waits = TRUE]]

\* A connection is accepted until the server shuts down.
Call(c) ==
    /\ proc = "up" /\ rpc[c] = NoRpc /\ Len(queue) < QueueMax
    /\ Cardinality(left) <= LeftMax
    /\ \E call \in Calls[c] :
          LET r == [op |-> call.op, names |-> call.names, version |-> call.version,
                    waits |-> TRUE]
          IN  IF call.names = {}
              THEN Asks(c, r, IF call.op = "list" THEN "list" ELSE "names", "none")
              ELSE \E n \in call.names : Asks(c, r, call.op, n)
    /\ UNCHANGED <<service, mgr, tx, pkg, left, host, skipped, faults>>

Send(c) ==
    /\ ~rpc[c].waits
    /\ \E n \in rpc[c].names : Asks(c, rpc[c], rpc[c].op, n)
    /\ UNCHANGED <<service, mgr, tx, pkg, left, host, skipped, faults>>

\* The connection is lost: the RPC is dropped, its message is served all the same.
Hangup(c) ==
    /\ May("hangup") /\ rpc[c] # NoRpc
    /\ rpc' = [rpc EXCEPT ![c] = NoRpc]
    /\ queue' = [i \in DOMAIN queue |->
           IF queue[i].from = c THEN [queue[i] EXCEPT !.from = "none"] ELSE queue[i]]
    /\ UNCHANGED <<service, mgr, tx, pkg, left, host, skipped, faults>>

Client(c) == Call(c) \/ Hangup(c)

-----------------------------------------------------------------------------
(* The package manager *)

msg == Head(queue)

Serving(op) == mgr = Resting /\ queue # <<>> /\ msg.op = op

\* The answer, with the names the RPC has yet to ask for: it returns when there
\* are none.
Answer(names) ==
    /\ queue' = Tail(queue)
    /\ rpc' = IF msg.from \notin Clients THEN rpc
              ELSE [rpc EXCEPT ![msg.from] =
                        IF names = {} THEN NoRpc
                        ELSE [@ EXCEPT !.names = names, !.waits = FALSE]]
    /\ mgr' = Resting

\* Bug: the name that was asked for stays in the list.
OthersAndThis == IF msg.from \in Clients THEN rpc[msg.from].names ELSE {}

\* The names an RPC has yet to ask for when this one is answered.
Others == IF msg.from \in Clients THEN rpc[msg.from].names \ {msg.name} ELSE {}

ServeRead ==
    /\ \/ Serving("names") /\ Answer(Stored)
       \/ Serving("list") /\ Answer({})
    /\ UNCHANGED <<service, tx, pkg, left, host, skipped, faults>>

\* handle_start_package, handle_stop_package: the package is asked and waited for.
ServePackage ==
    /\ \E op \in {"start", "stop"} :
          /\ Serving(op)
          /\ IF pkg[msg.name] = NoPackage THEN UNCHANGED <<pkg, mount, unit>>
             ELSE \E o \in Served(msg.name, pkg[msg.name],
                                  IF op = "start" THEN "StartRequested"
                                                  ELSE "StopRequested") :
                     /\ pkg' = [pkg EXCEPT ![msg.name].status = o.status]
                     /\ Leaves(msg.name, o)
    /\ Answer(Others)
    /\ UNCHANGED <<service, tx, left, file, skipped, faults>>

\* Bug: the package that is installed is replaced as it is.
ServeInstallBlind ==
    /\ Serving("install")
    /\ mgr' = [Resting EXCEPT !.stage = "replace", !.name = msg.name]
    /\ UNCHANGED <<service, rpc, queue, tx, pkg, left, host, skipped, faults>>

\* handle_install_package: prepare_upgrade of the package that is installed, which
\* unmounts nothing of one that is still Verified ...
ServeInstall ==
    /\ Serving("install")
    /\ LET n == msg.name
       IN  IF pkg[n] = NoPackage
           THEN /\ mgr' = [Resting EXCEPT !.stage = "replace", !.name = n]
                /\ UNCHANGED <<queue, rpc, pkg, mount, unit, skipped>>
           ELSE /\ \E o \in Served(n, pkg[n], "Upgrading") :
                      /\ pkg' = [pkg EXCEPT ![n].status = o.status]
                      /\ Leaves(n, o)
                      /\ IF o.status = "Upgrading"
                         THEN /\ mgr' = [Resting EXCEPT !.stage = "replace",
                                                        !.name = n]
                              /\ UNCHANGED <<queue, rpc>>
                         ELSE Answer({})
                /\ skipped' = skipped \cup (StillVerified(n) \cap OnHost)
    /\ UNCHANGED <<service, tx, left, file, faults>>

\* The package n of the store is replaced by a new one of version v, or by none.
Store(n, p) ==
    /\ pkg' = [pkg EXCEPT ![n] = p]
    /\ left' = left \cup Lingering(n)

\* try_recover: the package is created again from the file that is there; when
\* that fails too it is no longer in the store.
Recover(n) ==
    \/ tx /\ file[n] # 0 /\ Store(n, Created(n, file[n]))
    \/ (~tx \/ May("recover") \/ file[n] = 0) /\ Store(n, NoPackage)

\* ... and the transaction, which installs the file and creates the package, or
\* leaves the file that was there.
Replace ==
    /\ mgr.stage = "replace"
    /\ LET n == mgr.name
       IN  \/ /\ tx
              /\ file' = [file EXCEPT ![n] = msg.version]
              /\ Store(n, Created(n, msg.version))
           \/ /\ ~tx \/ May("install")
              /\ IF pkg[n] = NoPackage THEN UNCHANGED <<pkg, left>> ELSE Recover(n)
              /\ UNCHANGED file
    /\ Answer({})
    /\ UNCHANGED <<service, tx, mount, unit, skipped, faults>>

ServeRemove ==
    /\ Serving("remove")
    /\ IF pkg[msg.name] = NoPackage THEN Answer({})
       ELSE /\ mgr' = [Resting EXCEPT !.stage = "query", !.name = msg.name]
            /\ UNCHANGED <<queue, rpc>>
    /\ UNCHANGED <<service, tx, pkg, left, host, skipped, faults>>

\* teardown_all: one package after the other, whatever comes of it.
ServeTeardown ==
    /\ Serving("teardown")
    /\ mgr' = [Resting EXCEPT !.stage = "next", !.todo = Stored]
    /\ UNCHANGED <<service, rpc, queue, tx, pkg, left, host, skipped, faults>>

NextPackage ==
    /\ mgr.stage = "next"
    /\ \E n \in mgr.todo :
          mgr' = [stage |-> "query", name |-> n, todo |-> mgr.todo \ {n}]
    /\ UNCHANGED <<service, rpc, queue, tx, pkg, left, host, skipped, faults>>

\* The package is torn down, or could not be: of a removal the package stays
\* then, and teardown_all goes on with the next.
TornDown(ok) ==
    IF msg.op = "remove" /\ ~ok THEN Answer({})
    ELSE /\ mgr' = [mgr EXCEPT !.stage = IF msg.op = "remove" THEN "purge" ELSE "next"]
         /\ UNCHANGED <<queue, rpc>>

\* Package::teardown reads the status first, and has nothing to do for a package
\* whose setup is still to come ...
Query ==
    /\ mgr.stage = "query"
    /\ LET n == mgr.name
       IN  /\ IF pkg[n].status \in {"Verified", "Upgrading"}
              THEN TornDown(TRUE)
              ELSE mgr' = [mgr EXCEPT !.stage = "teardown"] /\ UNCHANGED <<queue, rpc>>
           /\ skipped' = skipped \cup StillVerified(n)
    /\ UNCHANGED <<service, tx, pkg, left, host, faults>>

\* Bug: only the file system is released, the container runs on.
UnmountOnly ==
    /\ mgr.stage = "teardown"
    /\ \E o \in Undone(mgr.name, pkg[mgr.name], "Teardown") :
          /\ mount' = [mount EXCEPT ![mgr.name] = o.mount]
          /\ TornDown(o.mount = 0)
    /\ UNCHANGED <<service, tx, pkg, left, file, unit, skipped, faults>>

\* ... and tears it down later, in whatever status it is by then.
Teardown ==
    /\ mgr.stage = "teardown"
    /\ \E o \in Undone(mgr.name, pkg[mgr.name], "Teardown") :
          Leaves(mgr.name, o) /\ TornDown(o.mount = 0)
    /\ UNCHANGED <<service, tx, pkg, left, file, skipped, faults>>

\* The package leaves the store; a volume that cannot be purged brings it back.
PurgeAndRemove ==
    /\ mgr.stage = "purge"
    /\ LET n == mgr.name
       IN  \/ /\ tx
              /\ Store(n, NoPackage)
              /\ file' = [file EXCEPT ![n] = 0]
           \/ /\ ~tx \/ May("install")
              /\ Recover(n)
              /\ UNCHANGED file
    /\ Answer({})
    /\ UNCHANGED <<service, tx, mount, unit, skipped, faults>>

\* Bug: the store is cleared with packages left to tear down.
ClearEarly ==
    /\ mgr.stage = "next"
    /\ pkg' = [n \in Names |-> NoPackage]
    /\ left' = left \cup UNION {Lingering(n) : n \in Stored}
    /\ signal' = "done"
    /\ Answer({})
    /\ UNCHANGED <<proc, tx, host, skipped, faults>>

\* The store is cleared, and the task that waited for the signal goes on.
Clear ==
    /\ mgr.stage = "next" /\ mgr.todo = {}
    /\ pkg' = [n \in Names |-> NoPackage]
    /\ left' = left \cup UNION {Lingering(n) : n \in Stored}
    /\ signal' = "done"
    /\ Answer({})
    /\ UNCHANGED <<proc, tx, host, skipped, faults>>

Manager == ServeRead \/ ServePackage \/ ServeInstall \/ Replace \/ ServeRemove
               \/ ServeTeardown \/ NextPackage \/ Query \/ Teardown \/ PurgeAndRemove \/ Clear

-----------------------------------------------------------------------------
(* Packages *)

\* The task of the package in the store ...
Initialize(n) ==
    /\ proc # "down" /\ pkg[n].init # "done"
    /\ \E o \in Served(n, pkg[n], Requested(pkg[n].init)) :
          /\ pkg' = [pkg EXCEPT ![n].status = o.status,
                                ![n].init = Then(@)]
          /\ Leaves(n, o)
    /\ UNCHANGED <<service, rpc, queue, mgr, tx, left, file, skipped, faults>>

\* ... and of one that was replaced, removed or cleared.
InitializeLeft(p) ==
    /\ proc # "down"
    /\ \E o \in Served(p.name, p, Requested(p.init)) :
          /\ left' = (left \ {p}) \cup
                 (IF Then(p.init) = "done" THEN {}
                  ELSE {[p EXCEPT !.status = o.status, !.init = Then(@)]})
          /\ Leaves(p.name, o)
    /\ UNCHANGED <<service, rpc, queue, mgr, tx, pkg, file, skipped, faults>>

\* The unit ends by itself, and the package gets to know.
UnitExits(n) ==
    /\ May("exit") /\ unit[n] # 0
    /\ unit' = [unit EXCEPT ![n] = 0]
    /\ UNCHANGED <<service, rpc, queue, mgr, tx, pkg, left, file, mount, skipped, faults>>

Notice(n) ==
    /\ proc # "down"
    /\ \/ pkg[n].status = "active" /\ unit[n] = 0
          /\ pkg' = [pkg EXCEPT ![n].status = "Ready"]
       \/ pkg[n].status = "Ready" /\ unit[n] # 0
          /\ pkg' = [pkg EXCEPT ![n].status = "active"]
    /\ UNCHANGED <<service, rpc, queue, mgr, tx, left, host, skipped, faults>>

Package == \E n \in Names : Initialize(n) \/ Notice(n)
Leaving == \E p \in left : InitializeLeft(p)

-----------------------------------------------------------------------------
(* Start and end of the daemon *)

\* The packages are loaded, then the server starts.
Start ==
    /\ proc = "down"
    /\ proc' = "up" /\ signal' = "waiting" /\ tx' = TRUE
    /\ pkg' = [n \in Names |-> IF file[n] = 0 THEN NoPackage
                                              ELSE Created(n, file[n])]
    /\ UNCHANGED <<rpc, queue, mgr, left, host, skipped, faults>>

\* SIGTERM or SIGINT: the manager is asked to tear down like anybody asks it.
Signalled ==
    /\ proc = "up" /\ signal = "waiting"
    /\ signal' = "teardown"
    /\ queue' = Append(queue, Message("signal", "teardown", "none", 1))
    /\ UNCHANGED <<proc, rpc, mgr, tx, pkg, left, host, skipped, faults>>

\* Bug: the server goes on accepting connections.
DrainOpen ==
    /\ proc = "up" /\ signal = "done" /\ \A c \in Clients : rpc[c] = NoRpc
    /\ proc' = "draining"
    /\ UNCHANGED <<signal, rpc, queue, mgr, tx, pkg, left, host, skipped, faults>>

\* serve_with_shutdown: no more connections ...
Drain ==
    /\ proc = "up" /\ signal = "done"
    /\ proc' = "draining"
    /\ UNCHANGED <<signal, rpc, queue, mgr, tx, pkg, left, host, skipped, faults>>

\* The process ends with all its tasks.
Ends ==
    /\ proc' = "down" /\ signal' = "waiting"
    /\ rpc' = [c \in Clients |-> NoRpc]
    /\ queue' = <<>> /\ mgr' = Resting /\ tx' = TRUE
    /\ pkg' = [n \in Names |-> NoPackage] /\ left' = {}
    /\ UNCHANGED <<host, skipped, faults>>

\* ... and the end when the RPCs under way are answered.
Exit  == proc = "draining" /\ (\A c \in Clients : rpc[c] = NoRpc) /\ Ends
Crash == proc # "down" /\ May("crash") /\ Ends

\* An actor whose end is ignored: PackageTransactionActor.
ActorDies ==
    /\ proc # "down" /\ tx /\ May("actor")
    /\ tx' = FALSE
    /\ UNCHANGED <<service, rpc, queue, mgr, pkg, left, host, skipped, faults>>

-----------------------------------------------------------------------------

Next == Start \/ Signalled \/ Drain \/ Exit \/ Crash \/ ActorDies
            \/ Manager \/ Package \/ Leaving
            \/ (\E c \in Clients : Client(c) \/ Send(c))
            \/ (\E n \in Names : UnitExits(n))

Spec == Init /\ [][Next]_vars

\* Every task that can go on does, and every request to a package returns (see
\* AsksAnswered of PackageLifecycle).  Nobody has to call, and no signal to come.
Fairness ==
    /\ WF_vars(Manager) /\ WF_vars(Drain \/ Exit)
    /\ \A c \in Clients : WF_vars(Send(c))

FairSpec == Spec /\ Fairness

-----------------------------------------------------------------------------
(* Safety *)

\* Between two messages, until the store is cleared.
Settled == proc = "up" /\ signal # "done" /\ mgr = Resting

\* No unmount fails, and no stop of a unit either: a teardown and an upgrade go on
\* after a stop that failed, and the container runs on.
EveryUnmountWorks == ~May("umount")
EveryStopWorks    == faults \cap {"work", "umount"} = {}

\* A package that is up stands on the version that is installed, and so does its
\* container, across upgrades, recoveries, crashes and restarts.  It is not so
\* once a package of its name was upgraded or removed while it was still Verified
\* (skipped): the mount of a daemon that died stays, or the setup is made after.
RunsWhatIsInstalled ==
    Settled => \A n \in Stored \ skipped : pkg[n].status \in Live =>
        /\ pkg[n].version = file[n]
        /\ EveryUnmountWorks => mount[n] \in {0, file[n]}
        /\ EveryStopWorks => unit[n] \in {0, file[n]}

\* What is mounted or runs belongs to a package of the store, also when a package
\* was lost because it could not be recovered, or its transaction has no actor.
\* The one way to an orphan is a package let go while it was still Verified
\* (skipped): Package::teardown does nothing then, and its setup is yet to come.
NoOrphan ==
    Settled => \A n \in Names \ (Stored \cup skipped) :
        /\ EveryUnmountWorks => mount[n] = 0
        /\ EveryStopWorks => unit[n] = 0

\* A daemon that ends on a signal leaves nothing mounted and nothing running,
\* except of packages that were installed behind the teardown, and of those that
\* teardown_all met while they were still Verified (skipped), which are set up and
\* started behind it.
EndLeavesNothing ==
    [][Exit => \A n \in Names \ (Stored \cup skipped) :
           /\ EveryUnmountWorks => mount[n] = 0
           /\ EveryStopWorks => unit[n] = 0]_vars

(* Liveness *)

\* A signal ends the daemon, whatever RPCs are under way and whoever still calls.
SignalEnds == signal = "teardown" ~> proc = "down"

\* Every RPC is answered or its client is gone.
RpcAnswered == \A c \in Clients : rpc[c] # NoRpc ~> rpc[c] = NoRpc
=============================================================================
