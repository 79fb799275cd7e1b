-------------------------- MODULE SsamDaemonProofs --------------------------
(***************************************************************************)
(* What holds of SsamDaemon for any packages, versions, clients, calls,    *)
(* bounds and faults.                                                      *)
(***************************************************************************)
EXTENDS SsamDaemon, TLAPS

-----------------------------------------------------------------------------
(* The types of the parts *)

PackageRecords == [name : Names, version : Versions, status : Shown,
                   init : {"setup", "start", "done"}]
Messages       == [from : Clients \cup {"none", "signal"},
                   op : Ops \cup {"names", "teardown"},
                   name : Names \cup {"none"}, version : Versions]
Rpcs           == [op : Ops \cup {"none"}, names : SUBSET Names,
                   version : Versions, waits : BOOLEAN]

ServiceType == /\ proc \in {"up", "draining", "down"}
               /\ signal \in {"waiting", "teardown", "done"}
               /\ tx \in BOOLEAN
               /\ skipped \subseteq Names
               /\ faults \subseteq DaemonFaults
MailType    == rpc \in [Clients -> Rpcs] /\ queue \in Seq(Messages)
MgrType     == mgr \in [stage : {"idle", "query", "teardown", "replace", "purge", "next"},
                        name : Names \cup {"none"}, todo : SUBSET Names]
StoreType   == /\ pkg \in [Names -> {NoPackage} \cup PackageRecords]
               /\ \A n \in Names : pkg[n] # NoPackage => pkg[n].name = n
               /\ left \subseteq [name : Names, version : Versions, status : Shown,
                                  init : {"setup", "start"}]
HostType    == /\ file \in [Names -> Versions \cup {0}]
               /\ mount \in [Names -> Versions \cup {0}]
               /\ unit \in [Names -> Versions \cup {0}]

\* TypeOK is made of the types of its parts.
LEMMA TypeParts ==
    TypeOK <=> ServiceType /\ MailType /\ MgrType /\ StoreType /\ HostType
  BY DEF TypeOK, ServiceType, MailType, MgrType, StoreType, HostType,
         PackageRecords, Messages, Rpcs

-----------------------------------------------------------------------------
(* The inductive invariant *)

\* A client has at most one message in the queue, and waits for its answer.
RpcInv ==
    /\ \A i \in DOMAIN queue : queue[i].from \in Clients => rpc[queue[i].from].waits
    /\ \A i, j \in DOMAIN queue :
           queue[i].from \in Clients /\ queue[i].from = queue[j].from => i = j
    /\ \A c \in Clients : rpc[c].op = "none" => rpc[c].names = {} /\ ~rpc[c].waits

\* What is asked of a package has its name.
AskInv ==
    \A i \in DOMAIN queue :
        queue[i].op \in {"start", "stop", "install", "remove"} => queue[i].name \in Names

\* The package that a teardown is at.
Under == IF mgr.stage \in {"query", "teardown"} THEN {mgr.name} ELSE {}

\* Package n is set up, or a teardown let it go before that.
PastSetup(n) == pkg[n].status # "Verified" \/ n \in skipped

\* The message that is served stays at the head until it is answered, and a
\* teardown works on packages of the store and is through with those that are
\* past their setup.
StageInv ==
    /\ mgr.stage # "idle" => queue # <<>>
    /\ mgr.stage = "idle" => mgr = Resting
    /\ mgr.stage \in {"query", "teardown"} => msg.op \in {"remove", "teardown"}
    /\ mgr.stage = "next" => msg.op = "teardown"
    /\ mgr.stage \in {"query", "teardown", "purge", "replace"} => mgr.name \in Names
    /\ mgr.stage \in {"query", "teardown", "purge"} => mgr.name \in Stored
    /\ mgr.todo \subseteq Stored
    /\ mgr.stage \in {"teardown", "purge"} => PastSetup(mgr.name)
    /\ mgr.stage = "replace" /\ mgr.name \in Stored =>
           pkg[mgr.name].status = "Upgrading"
    /\ mgr.stage # "idle" /\ msg.op = "teardown" =>
           \A n \in Stored \ (mgr.todo \cup Under) : PastSetup(n)

\* A package is of the version that is installed, and one that left the store
\* before its setup was let go by a teardown.
StoreInv ==
    /\ \A n \in Stored : pkg[n].version = file[n]
    /\ \A p \in left : p.init = "setup" => p.name \in skipped

\* A daemon that is not there has no task.
DownInv == proc = "down" =>
    /\ queue = <<>> /\ mgr = Resting /\ \A c \in Clients : rpc[c] = NoRpc
    /\ Stored = {} /\ left = {}

\* What is mounted is of the version that is installed, is there for a package in
\* the store, and is not there when the package is to be replaced.
MountOf(n) ==
    /\ mount[n] \in {0, file[n]}
    /\ proc # "down" /\ n \notin Stored => mount[n] = 0
    /\ n \in Stored /\ pkg[n].status = "Upgrading" => mount[n] = 0

\* What runs is mounted, and a package that failed is not.
UnitOf(n) ==
    /\ unit[n] \in {0, mount[n]}
    /\ n \in Stored /\ pkg[n].status = "Error" => mount[n] = 0

HostOf(n) == /\ EveryUnmountWorks => MountOf(n)
             /\ EveryStopWorks => UnitOf(n)
HostInv == \A n \in Names \ skipped : HostOf(n)

\* Nothing is mounted of a package that a teardown is through with.
DoneInv == EveryUnmountWorks =>
    /\ mgr.stage = "purge" /\ mgr.name \notin skipped => mount[mgr.name] = 0
    /\ mgr.stage # "idle" /\ msg.op = "teardown" =>
           \A n \in Stored \ (mgr.todo \cup Under \cup skipped) : mount[n] = 0

MailInv == MailType /\ RpcInv /\ AskInv

IInv == /\ ServiceType /\ MailInv /\ MgrType /\ StoreType /\ HostType
        /\ StageInv /\ StoreInv /\ DownInv /\ HostInv /\ DoneInv

-----------------------------------------------------------------------------
(* Sequences *)

LEMMA HeadOf ==
    ASSUME NEW S, NEW s \in Seq(S), s # <<>>
    PROVE  Head(s) \in S /\ Head(s) = s[1] /\ 1 \in DOMAIN s /\ Len(s) \in Nat \ {0}
  OBVIOUS

LEMMA TailOf ==
    ASSUME NEW S, NEW s \in Seq(S), s # <<>>
    PROVE  /\ Tail(s) \in Seq(S)
           /\ \A i \in DOMAIN Tail(s) :
                 i \in Nat /\ i + 1 \in DOMAIN s /\ i # 0 /\ Tail(s)[i] = s[i + 1]
  OBVIOUS

LEMMA AppendOf ==
    ASSUME NEW S, NEW s \in Seq(S), NEW e \in S
    PROVE  /\ Append(s, e) \in Seq(S) /\ Append(s, e) # <<>>
           /\ \A i \in DOMAIN Append(s, e) :
                 \/ i \in DOMAIN s /\ Append(s, e)[i] = s[i]
                 \/ i \notin DOMAIN s /\ i = Len(s) + 1 /\ Append(s, e)[i] = e
           /\ s # <<>> => Head(Append(s, e)) = Head(s)
  <1>1. Append(s, e) \in Seq(S) /\ Append(s, e) # <<>>
    <2>1. Append(s, e) \in Seq(S)
      OBVIOUS
    <2>2. Len(Append(s, e)) = Len(s) + 1 /\ Len(s) + 1 # 0
      OBVIOUS
    <2> QED
      BY <2>1, <2>2
  <1>2. \A i \in 1..Len(s) : Append(s, e)[i] = s[i]
    OBVIOUS
  <1>3. Append(s, e)[Len(s) + 1] = e
    OBVIOUS
  <1>4. /\ DOMAIN Append(s, e) = 1..(Len(s) + 1)
        /\ Len(s) \in Nat /\ DOMAIN s = 1..Len(s)
    OBVIOUS
  <1>5. s # <<>> => Head(Append(s, e)) = Head(s)
    OBVIOUS
  <1>6. \A i \in 1..(Len(s) + 1) : i \in 1..Len(s) \/ (i \notin 1..Len(s) /\ i = Len(s) + 1)
    BY <1>4
  <1> QED
    BY <1>1, <1>2, <1>3, <1>4, <1>5, <1>6

LEMMA MappedSequence ==
    ASSUME NEW S, NEW s \in Seq(S), NEW t, t \in [DOMAIN s -> S]
    PROVE  /\ t \in Seq(S)
           /\ s # <<>> => t # <<>>
  <1>1. Len(s) \in Nat /\ DOMAIN s = 1..Len(s)
    OBVIOUS
  <1>2. t \in [1..Len(s) -> S]
    BY <1>1
  <1>3. t \in Seq(S) /\ Len(t) = Len(s)
    BY <1>1, <1>2
  <1>4. s # <<>> => Len(s) # 0
    OBVIOUS
  <1>5. Len(s) # 0 => t # <<>>
    BY <1>3
  <1> QED
    BY <1>3, <1>4, <1>5

-----------------------------------------------------------------------------
(* The mailbox *)

\* The message at the head stays there.
HeadKept == queue # <<>> => queue' # <<>> /\ msg'.op = msg.op

\* A message is asked for by a client that waits for nothing else.
LEMMA Asked ==
    ASSUME MailInv, NEW c \in Clients, NEW r \in Rpcs, NEW op, NEW n,
           Asks(c, r, op, n), ~rpc[c].waits, r.op # "none",
           op \in Ops \cup {"names"}, n \in Names \cup {"none"},
           op \in {"start", "stop", "install", "remove"} => n \in Names
    PROVE  MailInv' /\ HeadKept
  <1> DEFINE m == Message(c, op, n, r.version)
  <1>1. m \in Messages /\ m.from = c /\ m.op = op /\ m.name = n
    BY DEF Message, Messages, Rpcs
  <1>2. queue \in Seq(Messages) /\ rpc \in [Clients -> Rpcs]
    BY DEF MailInv, MailType
  <1>3. queue' = Append(queue, m) /\ rpc' = [rpc EXCEPT ![c] = [r EXCEPT !.waits = TRUE]]
    BY DEF Asks
  <1> HIDE DEF m
  <1>4. /\ queue' \in Seq(Messages) /\ queue' # <<>>
        /\ \A i \in DOMAIN queue' :
              \/ i \in DOMAIN queue /\ queue'[i] = queue[i]
              \/ i \notin DOMAIN queue /\ i = Len(queue) + 1 /\ queue'[i] = m
        /\ queue # <<>> => Head(queue') = Head(queue)
    BY <1>1, <1>2, <1>3, AppendOf
  <1>5. [r EXCEPT !.waits = TRUE] \in Rpcs
    BY DEF Rpcs
  <1>6. /\ rpc' \in [Clients -> Rpcs] /\ rpc'[c].waits /\ rpc'[c].op = r.op
        /\ \A d \in Clients \ {c} : rpc'[d] = rpc[d]
    BY <1>2, <1>3, <1>5 DEF Rpcs
  <1>7. \A i \in DOMAIN queue : queue[i].from # c
    BY DEF MailInv, RpcInv
  <1>8. RpcInv'
    <2>1. \A i \in DOMAIN queue' : queue'[i].from \in Clients => rpc'[queue'[i].from].waits
      BY <1>1, <1>4, <1>6, <1>7 DEF MailInv, RpcInv
    <2>2. ASSUME NEW i \in DOMAIN queue', NEW j \in DOMAIN queue',
                 queue'[i].from \in Clients, queue'[i].from = queue'[j].from
          PROVE  i = j
      BY <1>1, <1>4, <1>7, <2>2 DEF MailInv, RpcInv
    <2>3. ASSUME NEW d \in Clients, rpc'[d].op = "none"
          PROVE  rpc'[d].names = {} /\ ~rpc'[d].waits
      BY <1>6, <2>3 DEF MailInv, RpcInv
    <2> QED
      BY <2>1, <2>2, <2>3 DEF RpcInv
  <1>9. AskInv'
    BY <1>1, <1>4 DEF MailInv, AskInv
  <1> QED
    BY <1>4, <1>6, <1>8, <1>9 DEF MailInv, MailType, HeadKept, msg

\* A call, and the next message of one.
LEMMA CallAsks ==
    ASSUME DaemonConstantsOK, MailInv, NEW c \in Clients, Call(c)
    PROVE  MailInv' /\ HeadKept
  <1>1. rpc[c] = NoRpc /\ ~rpc[c].waits
    BY DEF Call, NoRpc
  <1>2. PICK call \in Calls[c] :
           LET r == [op |-> call.op, names |-> call.names, version |-> call.version,
                     waits |-> TRUE]
           IN  IF call.names = {}
               THEN Asks(c, r, IF call.op = "list" THEN "list" ELSE "names", "none")
               ELSE \E n \in call.names : Asks(c, r, call.op, n)
    BY DEF Call
  <1>3. call \in [op : Ops, names : SUBSET Names, version : Versions]
    BY DEF DaemonConstantsOK
  <1> DEFINE r == [op |-> call.op, names |-> call.names, version |-> call.version,
                   waits |-> TRUE]
  <1>4. r \in Rpcs /\ r.op \in Ops /\ r.op # "none"
    BY <1>3 DEF Rpcs, Ops
  <1>5. \/ Asks(c, r, "list", "none")
        \/ Asks(c, r, "names", "none")
        \/ \E n \in call.names : Asks(c, r, call.op, n)
    BY <1>2
  <1> HIDE DEF r
  <1>6. CASE Asks(c, r, "list", "none")
    BY <1>1, <1>4, <1>6, Asked DEF Ops
  <1>7. CASE Asks(c, r, "names", "none")
    BY <1>1, <1>4, <1>7, Asked DEF Ops
  <1>8. CASE \E n \in call.names : Asks(c, r, call.op, n)
    <2>1. PICK n \in call.names : Asks(c, r, call.op, n)
      BY <1>8
    <2>2. n \in Names /\ call.op \in Ops
      BY <1>3
    <2> QED
      BY <1>1, <1>4, <2>1, <2>2, Asked
  <1> QED
    BY <1>5, <1>6, <1>7, <1>8

LEMMA SendAsks ==
    ASSUME MailInv, NEW c \in Clients, Send(c)
    PROVE  MailInv' /\ HeadKept
  <1>1. PICK n \in rpc[c].names : Asks(c, rpc[c], rpc[c].op, n)
    BY DEF Send
  <1>2. rpc[c] \in Rpcs /\ ~rpc[c].waits
    BY DEF Send, MailInv, MailType
  <1>3. rpc[c].op # "none" /\ rpc[c].op \in Ops /\ n \in Names
    BY <1>1, <1>2 DEF MailInv, RpcInv, Rpcs
  <1> QED
    BY <1>1, <1>2, <1>3, Asked

\* The message of a client that is gone is from nobody.
LEMMA HangupLeaves ==
    ASSUME DaemonConstantsOK, MailInv, NEW c \in Clients, Hangup(c)
    PROVE  MailInv' /\ HeadKept
  <1> DEFINE F(e) == IF e.from = c THEN [e EXCEPT !.from = "none"] ELSE e
  <1>1. queue \in Seq(Messages) /\ rpc \in [Clients -> Rpcs]
    BY DEF MailInv, MailType
  <1>2. \A e \in Messages :
           /\ F(e) \in Messages /\ F(e).op = e.op /\ F(e).name = e.name
           /\ F(e).from = IF e.from = c THEN "none" ELSE e.from
    BY DEF Messages
  <1>3. queue' = [i \in DOMAIN queue |-> F(queue[i])]
    BY DEF Hangup
  <1>4. rpc' = [rpc EXCEPT ![c] = NoRpc]
    BY DEF Hangup
  <1> HIDE DEF F
  <1>5. queue' \in Seq(Messages) /\ (queue # <<>> => queue' # <<>>)
    <2>1. \A i \in DOMAIN queue : queue[i] \in Messages
      BY <1>1
    <2>2. queue' \in [DOMAIN queue -> Messages]
      BY <1>2, <1>3, <2>1
    <2> QED
      BY <1>1, <2>2, MappedSequence
  <1>6. DOMAIN queue' = DOMAIN queue /\ \A i \in DOMAIN queue : queue[i] \in Messages
    BY <1>1, <1>3
  <1>7. \A i \in DOMAIN queue' :
           /\ queue'[i].op = queue[i].op /\ queue'[i].name = queue[i].name
           /\ queue'[i].from = IF queue[i].from = c THEN "none" ELSE queue[i].from
    BY <1>2, <1>3, <1>6
  <1>8. /\ rpc' \in [Clients -> Rpcs] /\ rpc'[c] = NoRpc
        /\ \A d \in Clients \ {c} : rpc'[d] = rpc[d]
    <2>1. NoRpc \in Rpcs
      BY DaemonConstantsOK DEF NoRpc, Rpcs, DaemonConstantsOK, Versions
    <2> QED
      BY <1>1, <1>4, <2>1
  <1>9. RpcInv'
    <2>1. "none" \notin Clients
      BY DEF DaemonConstantsOK
    <2>2. \A i \in DOMAIN queue' : queue'[i].from \in Clients =>
             queue'[i].from = queue[i].from /\ queue[i].from # c
      BY <1>7, <2>1
    <2>3. \A i \in DOMAIN queue' : queue'[i].from \in Clients => rpc'[queue'[i].from].waits
      BY <1>6, <1>8, <2>2 DEF MailInv, RpcInv
    <2>4. \A i, j \in DOMAIN queue' :
             queue'[i].from \in Clients /\ queue'[i].from = queue'[j].from => i = j
      BY <1>6, <2>2 DEF MailInv, RpcInv
    <2>5. \A d \in Clients : rpc'[d].op = "none" => rpc'[d].names = {} /\ ~rpc'[d].waits
      BY <1>8 DEF NoRpc, MailInv, RpcInv
    <2> QED
      BY <2>3, <2>4, <2>5 DEF RpcInv
  <1>10. AskInv'
    BY <1>6, <1>7 DEF MailInv, AskInv
  <1>11. HeadKept
    <2> SUFFICES ASSUME queue # <<>> PROVE queue' # <<>> /\ Head(queue').op = Head(queue).op
      BY DEF HeadKept, msg
    <2>1. Head(queue) = queue[1] /\ 1 \in DOMAIN queue
      BY <1>1, HeadOf
    <2>2. Head(queue') = queue'[1]
      BY <1>5, HeadOf
    <2> QED
      BY <1>5, <1>6, <1>7, <2>1, <2>2
  <1> QED
    BY <1>5, <1>8, <1>9, <1>10, <1>11 DEF MailInv, MailType

\* The message that is served is of a record type.
LEMMA ServedMessage ==
    ASSUME MailInv, queue # <<>>
    PROVE  /\ msg \in Messages /\ msg = queue[1] /\ 1 \in DOMAIN queue
           /\ msg.op \in {"start", "stop", "install", "remove"} => msg.name \in Names
  BY HeadOf DEF MailInv, MailType, AskInv, msg

\* An answer takes its message from the mailbox and lets its client go on.
LEMMA Answered ==
    ASSUME DaemonConstantsOK, MailInv, queue # <<>>, NEW names \in SUBSET Names,
           Answer(names)
    PROVE  MailInv' /\ mgr' = Resting
  <1>1. queue \in Seq(Messages) /\ rpc \in [Clients -> Rpcs]
    BY DEF MailInv, MailType
  <1>2. queue' = Tail(queue) /\ mgr' = Resting
    BY DEF Answer
  <1>3. /\ queue' \in Seq(Messages)
        /\ \A i \in DOMAIN queue' :
              i \in Nat /\ i + 1 \in DOMAIN queue /\ i # 0 /\ queue'[i] = queue[i + 1]
    BY <1>1, <1>2, TailOf
  <1>4. msg = queue[1] /\ 1 \in DOMAIN queue
    BY ServedMessage
  <1>5. \A i \in DOMAIN queue' : queue'[i].from \in Clients => queue'[i].from # msg.from
    <2> SUFFICES ASSUME NEW i \in DOMAIN queue', queue'[i].from \in Clients,
                        queue'[i].from = msg.from
                 PROVE  FALSE
      OBVIOUS
    <2>1. i + 1 \in DOMAIN queue /\ queue[i + 1].from = queue[1].from
          /\ queue[i + 1].from \in Clients
      BY <1>3, <1>4
    <2>2. i + 1 = 1
      BY <1>4, <2>1 DEF MailInv, RpcInv
    <2> QED
      BY <1>3, <2>2
  <1>6. /\ rpc' \in [Clients -> Rpcs]
        /\ \A d \in Clients : d # msg.from => rpc'[d] = rpc[d]
        /\ \A d \in Clients : rpc'[d] = rpc[d] \/ rpc'[d] = NoRpc
              \/ (rpc'[d].op = rpc[d].op /\ rpc[d].op # "none")
    <2>1. CASE msg.from \notin Clients
      BY <1>1, <2>1 DEF Answer
    <2>2. CASE msg.from \in Clients /\ names = {}
      <3>1. rpc' = [rpc EXCEPT ![msg.from] = NoRpc]
        BY <2>2 DEF Answer
      <3>2. NoRpc \in Rpcs
        BY DEF NoRpc, Rpcs, DaemonConstantsOK, Versions
      <3> QED
        BY <1>1, <3>1, <3>2
    <2>3. CASE msg.from \in Clients /\ names # {}
      <3> DEFINE r == [rpc[msg.from] EXCEPT !.names = names, !.waits = FALSE]
      <3>1. rpc' = [rpc EXCEPT ![msg.from] = r]
        BY <2>3 DEF Answer
      <3>2. r \in Rpcs /\ r.op = rpc[msg.from].op
        <4>1. rpc[msg.from] \in Rpcs
          BY <1>1, <2>3
        <4>2. \A q \in Rpcs : LET e == [q EXCEPT !.names = names, !.waits = FALSE]
                              IN  e \in Rpcs /\ e.op = q.op
          BY DEF Rpcs
        <4> QED
          BY <4>1, <4>2
      <3>3. rpc[msg.from].op # "none"
        BY <1>4, <2>3 DEF MailInv, RpcInv
      <3> HIDE DEF r
      <3> QED
        BY <1>1, <2>3, <3>1, <3>2, <3>3
    <2> QED
      BY <2>1, <2>2, <2>3
  <1>7. RpcInv'
    <2>1. \A i \in DOMAIN queue' : queue'[i].from \in Clients => rpc'[queue'[i].from].waits
      BY <1>3, <1>5, <1>6 DEF MailInv, RpcInv
    <2>2. ASSUME NEW i \in DOMAIN queue', NEW j \in DOMAIN queue',
                 queue'[i].from \in Clients, queue'[i].from = queue'[j].from
          PROVE  i = j
      <3>1. i + 1 = j + 1
        BY <1>3, <2>2 DEF MailInv, RpcInv
      <3> QED
        BY <1>3, <3>1
    <2>3. \A d \in Clients : rpc'[d].op = "none" => rpc'[d].names = {} /\ ~rpc'[d].waits
      BY <1>6 DEF NoRpc, MailInv, RpcInv
    <2> QED
      BY <2>1, <2>2, <2>3 DEF RpcInv
  <1>8. AskInv'
    BY <1>3 DEF MailInv, AskInv
  <1> QED
    BY <1>2, <1>3, <1>6, <1>7, <1>8 DEF MailInv, MailType

-----------------------------------------------------------------------------
(* What a request to a package comes to *)

\* The statuses in which a request is worked on.
LEMMA Worked ==
    ASSUME NEW s \in Shown
    PROVE  /\ Applicable(s, "SettingUp") => s = "Verified"
           /\ Applicable(s, "StartRequested") => s \in {"Ready", "active"}
           /\ Applicable(s, "StopRequested") => s \in {"Ready", "active"}
           /\ Applicable(s, "Upgrading") => s \in {"Verified", "Ready", "active"}
  BY DEF Applicable, From, RunStates, Shown

\* What a request comes to is nothing, or what its handler does.
LEMMA ServedByHandler ==
    ASSUME NEW n \in Names, NEW p \in PackageRecords,
           NEW r \in {"SettingUp", "StartRequested", "StopRequested", "Upgrading"},
           NEW o \in Served(n, p, r),
           r = "Upgrading" => p.status # "Verified"
    PROVE  \/ /\ o = Result(p.status, mount[n], unit[n])
              /\ r = "SettingUp" => p.status # "Verified"
           \/ r = "SettingUp" /\ p.status = "Verified" /\ o \in SetUp(n, p)
           \/ r = "StartRequested" /\ p.status \in {"Ready", "active"} /\ o \in Started(n, p)
           \/ r = "StopRequested" /\ p.status \in {"Ready", "active"} /\ o \in Stopped(n, p)
           \/ r = "Upgrading" /\ p.status \in {"Ready", "active"} /\ o \in Undone(n, p, r)
  <1>1. p.status \in Shown
    BY DEF PackageRecords
  <1>2. CASE ~Applicable(p.status, r) \/ Ignored(p.status, r) \/ p.status = r
    <2>1. Served(n, p, r) = {Result(p.status, mount[n], unit[n])}
      BY <1>2, Zenon DEF Served
    <2>2. ~(r = "SettingUp" /\ p.status = "Verified")
      <3>1. Applicable("Verified", "SettingUp") /\ ~Ignored("Verified", "SettingUp")
        <4>1. From("SettingUp") = {"Verified", "Cleaned"}
          BY DEF From, RunStates
        <4> QED
          BY <4>1 DEF Applicable, Ignored
      <3> QED
        BY <1>2, <3>1
    <2> QED
      BY <2>1, <2>2
  <1>3. CASE ~(~Applicable(p.status, r) \/ Ignored(p.status, r) \/ p.status = r)
    <2>1. Applicable(p.status, r)
      BY <1>3
    <2>2. CASE r = "SettingUp"
      BY <1>1, <1>3, <2>1, <2>2, Worked DEF Served
    <2>3. CASE r = "StartRequested"
      BY <1>1, <1>3, <2>1, <2>3, Worked DEF Served
    <2>4. CASE r = "StopRequested"
      BY <1>1, <1>3, <2>1, <2>4, Worked DEF Served
    <2>5. CASE r = "Upgrading"
      BY <1>1, <1>3, <2>1, <2>5, Worked DEF Served
    <2> QED
      BY <2>2, <2>3, <2>4, <2>5
  <1> QED
    BY <1>2, <1>3

\* What handlers promise has its types.
LEMMA PromisedType ==
    ASSUME HostType, NEW n \in Names, NEW p \in PackageRecords, NEW r,
           NEW o \in Promised(n, p, r)
    PROVE  /\ o.status \in Shown /\ o.status \in EndsIn(r, p.status)
           /\ o.mount \in Versions \cup {0} /\ o.unit \in Versions \cup {0}
           /\ o.mount \in {0, mount[n], p.version} /\ o.unit \in {0, unit[n], mount[n]}
           /\ (o.mount # 0) \in EndsMounted(r, o.status)
  <1>1. /\ mount[n] \in Versions \cup {0} /\ unit[n] \in Versions \cup {0}
        /\ p.version \in Versions
    BY DEF HostType, PackageRecords
  <1>2. o \in [status : Shown, mount : {0, mount[n], p.version},
               unit : {0, unit[n], mount[n]}]
    BY DEF Promised
  <1>3. o.status \in EndsIn(r, p.status) /\ (o.mount # 0) \in EndsMounted(r, o.status)
    BY DEF Promised
  <1> QED
    BY <1>1, <1>2, <1>3

\* What every request leaves of a package.
AfterRequest(n, p, r, o) ==
    /\ o.status \in Shown /\ o.mount \in Versions \cup {0} /\ o.unit \in Versions \cup {0}
    /\ o.status = "Verified" => p.status = "Verified"
    /\ p.status = "Upgrading" => o.status = "Upgrading"
    /\ r # "Upgrading" /\ (r = "SettingUp" => p.status # "Verified") =>
           o.mount = mount[n]

LEMMA RequestLeaves ==
    ASSUME HostType, NEW n \in Names, NEW p \in PackageRecords,
           NEW r \in {"SettingUp", "StartRequested", "StopRequested", "Upgrading"},
           NEW o \in Served(n, p, r),
           r = "Upgrading" => p.status # "Verified"
    PROVE  AfterRequest(n, p, r, o)
  <1>1. mount[n] \in Versions \cup {0} /\ unit[n] \in Versions \cup {0} /\ p.status \in Shown
    BY DEF HostType, PackageRecords
  <1>2. CASE o = Result(p.status, mount[n], unit[n])
    <2>1. o.status = p.status /\ o.mount = mount[n] /\ o.unit = unit[n]
      BY <1>2 DEF Result
    <2> QED
      BY <1>1, <2>1 DEF AfterRequest
  <1>3. CASE r = "SettingUp" /\ p.status = "Verified" /\ o \in SetUp(n, p)
    <2>1. o \in Promised(n, p, r) /\ o.status \in {"Ready", "Error"}
      BY <1>3 DEF SetUp
    <2> QED
      BY <1>3, <2>1, PromisedType DEF AfterRequest
  <1>4. CASE r = "StartRequested" /\ p.status \in {"Ready", "active"} /\ o \in Started(n, p)
    <2>1. o \in Promised(n, p, r) /\ o.mount = mount[n]
      BY <1>4 DEF Started
    <2>2. o.status \in Live \cup {"Error"}
      BY <1>4, <2>1, PromisedType DEF EndsIn
    <2> QED
      BY <1>4, <2>1, <2>2, PromisedType DEF AfterRequest, Live, RunStates
  <1>5. CASE r = "StopRequested" /\ p.status \in {"Ready", "active"} /\ o \in Stopped(n, p)
    <2>1. o \in Promised(n, p, r) /\ o.mount = mount[n]
      BY <1>5 DEF Stopped
    <2>2. o.status \in Live \cup {"Error"}
      BY <1>5, <2>1, PromisedType DEF EndsIn
    <2> QED
      BY <1>5, <2>1, <2>2, PromisedType DEF AfterRequest, Live, RunStates
  <1>6. CASE r = "Upgrading" /\ p.status \in {"Ready", "active"} /\ o \in Undone(n, p, r)
    <2>1. o \in Promised(n, p, r)
      BY <1>6 DEF Undone
    <2>2. o.status \in {"Upgrading", "Error"}
      BY <1>6, <2>1, PromisedType DEF EndsIn
    <2> QED
      BY <1>6, <2>1, <2>2, PromisedType DEF AfterRequest
  <1> QED
    BY <1>2, <1>3, <1>4, <1>5, <1>6, ServedByHandler

\* What is mounted after a request, when no unmount fails.
MountAfter(n, p, o) ==
    /\ o.mount \in {0, mount[n], p.version}
    /\ o.status = "Upgrading" =>
           o.mount = 0 \/ (p.status = "Upgrading" /\ o.mount = mount[n])

LEMMA RequestLeavesMount ==
    ASSUME HostType, EveryUnmountWorks, NEW n \in Names, NEW p \in PackageRecords,
           NEW r \in {"SettingUp", "StartRequested", "StopRequested", "Upgrading"},
           NEW o \in Served(n, p, r),
           r = "Upgrading" => p.status # "Verified"
    PROVE  MountAfter(n, p, o)
  <1>1. CASE o = Result(p.status, mount[n], unit[n])
    BY <1>1 DEF Result, MountAfter
  <1>2. CASE r = "SettingUp" /\ p.status = "Verified" /\ o \in SetUp(n, p)
    <2>1. o \in Promised(n, p, r) /\ o.status \in {"Ready", "Error"}
      BY <1>2 DEF SetUp
    <2> QED
      BY <2>1, PromisedType DEF MountAfter
  <1>3. CASE r = "StartRequested" /\ p.status \in {"Ready", "active"} /\ o \in Started(n, p)
    <2>1. o \in Promised(n, p, r) /\ o.mount = mount[n]
      BY <1>3 DEF Started
    <2>2. o.status \in Live \cup {"Error"}
      BY <1>3, <2>1, PromisedType DEF EndsIn
    <2> QED
      BY <2>1, <2>2 DEF MountAfter, Live, RunStates
  <1>4. CASE r = "StopRequested" /\ p.status \in {"Ready", "active"} /\ o \in Stopped(n, p)
    <2>1. o \in Promised(n, p, r) /\ o.mount = mount[n]
      BY <1>4 DEF Stopped
    <2>2. o.status \in Live \cup {"Error"}
      BY <1>4, <2>1, PromisedType DEF EndsIn
    <2> QED
      BY <2>1, <2>2 DEF MountAfter, Live, RunStates
  <1>5. CASE r = "Upgrading" /\ p.status \in {"Ready", "active"} /\ o \in Undone(n, p, r)
    <2>1. o.mount = 0
      BY <1>5 DEF Undone, EveryUnmountWorks
    <2> QED
      BY <2>1 DEF MountAfter
  <1> QED
    BY <1>1, <1>2, <1>3, <1>4, <1>5, ServedByHandler

\* What runs after a request, when no stop of a unit fails either.
UnitAfter(n, p, o) ==
    /\ o.unit \in {0, o.mount}
    /\ o.status = "Error" => o.mount = 0 \/ (p.status = "Error" /\ o.mount = mount[n])

LEMMA RequestLeavesUnit ==
    ASSUME HostType, EveryStopWorks, NEW n \in Names, NEW p \in PackageRecords,
           NEW r \in {"SettingUp", "StartRequested", "StopRequested", "Upgrading"},
           NEW o \in Served(n, p, r),
           r = "Upgrading" => p.status # "Verified",
           unit[n] \in {0, mount[n]}
    PROVE  UnitAfter(n, p, o)
  <1>1. ~May("work") /\ ~May("umount")
    BY DEF EveryStopWorks, May
  <1>2. CASE o = Result(p.status, mount[n], unit[n])
    BY <1>2 DEF Result, UnitAfter
  <1>3. CASE r = "SettingUp" /\ p.status = "Verified" /\ o \in SetUp(n, p)
    <2>1. /\ o.unit = unit[n]
          /\ \/ /\ o.status = "Ready"
                /\ o.mount = IF mount[n] # 0 THEN mount[n] ELSE p.version
             \/ o.status = "Error" /\ mount[n] = 0 /\ o.mount = 0
      BY <1>1, <1>3 DEF SetUp
    <2>2. o.unit \in {0, o.mount} /\ (o.status = "Error" => o.mount = 0)
      BY <2>1
    <2> QED
      BY <2>2 DEF UnitAfter
  <1>4. CASE r = "StartRequested" /\ p.status \in {"Ready", "active"} /\ o \in Started(n, p)
    <2>1. o \in Promised(n, p, r) /\ o.mount = mount[n]
      BY <1>4 DEF Started
    <2>2. o.unit \in {0, unit[n], mount[n]}
      BY <1>4, <2>1, PromisedType
    <2>3. CASE unit[n] # 0
      <3>1. o = Result("active", mount[n], unit[n])
        BY <1>4, <2>3 DEF Started
      <3> QED
        BY <2>1, <2>2, <3>1 DEF UnitAfter, Result
    <2>4. CASE unit[n] = 0
      <3>1. \/ o = Result("active", mount[n], mount[n]) /\ mount[n] # 0
            \/ o.status = "Error" /\ mount[n] = 0 /\ o.unit = 0
        BY <1>1, <1>4, <2>4 DEF Started
      <3> QED
        BY <2>1, <2>2, <3>1 DEF UnitAfter, Result
    <2> QED
      BY <2>3, <2>4
  <1>5. CASE r = "StopRequested" /\ p.status \in {"Ready", "active"} /\ o \in Stopped(n, p)
    <2>1. o.status = "Ready" /\ o.unit = 0
      BY <1>1, <1>5 DEF Stopped
    <2> QED
      BY <2>1 DEF UnitAfter
  <1>6. CASE r = "Upgrading" /\ p.status \in {"Ready", "active"} /\ o \in Undone(n, p, r)
    <2>1. o.unit = 0 /\ o.mount = 0
      BY <1>1, <1>6 DEF Undone
    <2> QED
      BY <2>1 DEF UnitAfter
  <1> QED
    BY <1>2, <1>3, <1>4, <1>5, <1>6, ServedByHandler

-----------------------------------------------------------------------------
(* A package of the store goes on to another status *)

LEMMA FunctionSet ==
    ASSUME NEW S, NEW T, NEW f \in [S -> T], NEW x \in S, NEW y \in T, NEW g,
           g = [f EXCEPT ![x] = y]
    PROVE  g \in [S -> T] /\ g[x] = y /\ \A z \in S : z # x => g[z] = f[z]
  OBVIOUS

\* The package n is in status s after it, and its task at i.
GoesOn(n, s, i) ==
    /\ pkg' \in [Names -> {NoPackage} \cup PackageRecords]
    /\ pkg'[n] \in PackageRecords /\ pkg'[n].name = n /\ pkg'[n].version = pkg[n].version
    /\ pkg'[n].status = s /\ pkg'[n].init = i
    /\ \A m \in Names : m # n => pkg'[m] = pkg[m]

\* A package that is stored is one of a record type, and none is not.
LEMMA StoredType ==
    ASSUME DaemonConstantsOK, StoreType
    PROVE  /\ \A n \in Stored : n \in Names /\ pkg[n] \in PackageRecords /\ pkg[n].name = n
           /\ \A n \in Names : n \notin Stored => pkg[n] = NoPackage
           /\ NoPackage \notin PackageRecords
           /\ NoPackage.init = "done" /\ NoPackage.status = "Verified"
           /\ NoPackage.name = "none"
  <1>1. /\ NoPackage.init = "done" /\ NoPackage.status = "Verified"
        /\ NoPackage.name = "none"
    BY DEF NoPackage, Created
  <1>2. NoPackage \notin PackageRecords
    BY <1>1 DEF PackageRecords, DaemonConstantsOK
  <1> QED
    BY <1>1, <1>2 DEF Stored, StoreType

LEMMA StatusSet ==
    ASSUME DaemonConstantsOK, StoreType, NEW n \in Stored, NEW s \in Shown,
           pkg' = [pkg EXCEPT ![n].status = s]
    PROVE  GoesOn(n, s, pkg[n].init)
  <1> DEFINE p == [pkg[n] EXCEPT !.status = s]
  <1>1. n \in Names /\ pkg[n] \in PackageRecords /\ pkg[n].name = n
    BY StoredType
  <1>2. /\ p \in PackageRecords /\ p.name = n /\ p.version = pkg[n].version
        /\ p.status = s /\ p.init = pkg[n].init
    BY <1>1 DEF PackageRecords
  <1>3. pkg' = [pkg EXCEPT ![n] = p] /\ pkg \in [Names -> {NoPackage} \cup PackageRecords]
    BY DEF StoreType
  <1> HIDE DEF p
  <1> QED
    BY <1>1, <1>2, <1>3 DEF GoesOn

\* What the task of initialize() writes.
BothSet(n, s) == pkg' = [pkg EXCEPT ![n].status = s, ![n].init = Then(@)]

LEMMA StatusAndInitSet ==
    ASSUME DaemonConstantsOK, StoreType, NEW n \in Stored, NEW s \in Shown,
           BothSet(n, s)
    PROVE  GoesOn(n, s, Then(pkg[n].init))
  <1> DEFINE i == Then(pkg[n].init)
             p == [pkg[n] EXCEPT !.status = s, !.init = i]
  <1>1. n \in Names /\ pkg[n] \in PackageRecords /\ pkg[n].name = n
    BY StoredType
  <1>2. i \in {"start", "done"}
    BY DEF Then
  <1>3. pkg' = [pkg EXCEPT ![n] = p]
    BY <1>1 DEF BothSet
  <1> HIDE DEF i
  <1>4. /\ p \in PackageRecords /\ p.name = n /\ p.version = pkg[n].version
        /\ p.status = s /\ p.init = i
    BY <1>1, <1>2 DEF PackageRecords
  <1> HIDE DEF p
  <1>5. pkg \in [Names -> {NoPackage} \cup PackageRecords]
    BY DEF StoreType
  <1>6. /\ pkg' \in [Names -> {NoPackage} \cup PackageRecords] /\ pkg'[n] = p
        /\ \A m \in Names : m # n => pkg'[m] = pkg[m]
    BY <1>1, <1>3, <1>4, <1>5, FunctionSet
  <1>7. GoesOn(n, s, i)
    BY <1>1, <1>4, <1>6 DEF GoesOn
  <1> QED
    BY <1>7 DEF i

\* The store holds the same packages.
LEMMA GoingOnIsStored ==
    ASSUME DaemonConstantsOK, StoreType, NEW n \in Stored, NEW s, NEW i, GoesOn(n, s, i)
    PROVE  /\ Stored' = Stored
           /\ left' = left => StoreType'
           /\ \A m \in Stored : m # n => pkg'[m] = pkg[m]
           /\ pkg'[n].status = s /\ pkg'[n].init = i /\ pkg'[n].version = pkg[n].version
  <1>1. n \in Names /\ pkg[n] # NoPackage /\ Stored \subseteq Names
    BY DEF Stored
  <1>2. pkg'[n] # NoPackage
    BY StoredType DEF GoesOn
  <1>3. \A m \in Names : (pkg'[m] # NoPackage) <=> (pkg[m] # NoPackage)
    BY <1>1, <1>2 DEF GoesOn
  <1>4. Stored' = Stored
    BY <1>3 DEF Stored
  <1>5. \A m \in Names : pkg'[m] # NoPackage => pkg'[m].name = m
    BY <1>3 DEF GoesOn, StoreType
  <1> QED
    BY <1>1, <1>4, <1>5 DEF GoesOn, StoreType

\* The host of n is what a request leaves.
LEMMA LeavesHost ==
    ASSUME HostType, NEW n \in Names, NEW o, Leaves(n, o), file' = file,
           o.mount \in Versions \cup {0}, o.unit \in Versions \cup {0}
    PROVE  /\ HostType' /\ mount'[n] = o.mount /\ unit'[n] = o.unit
           /\ \A m \in Names : m # n => mount'[m] = mount[m] /\ unit'[m] = unit[m]
  BY DEF HostType, Leaves

\* Whether unmounts and stops work does not change.
LEMMA FaultsStay ==
    ASSUME faults' = faults
    PROVE  /\ EveryUnmountWorks' <=> EveryUnmountWorks
           /\ EveryStopWorks' <=> EveryStopWorks
           /\ EveryStopWorks => EveryUnmountWorks
  BY DEF EveryUnmountWorks, EveryStopWorks, May

\* A request to a package of the store.
LEMMA StoredRequest ==
    ASSUME DaemonConstantsOK, StoreType, HostType, StoreInv, HostInv, NEW n \in Stored,
           NEW r \in {"SettingUp", "StartRequested", "StopRequested", "Upgrading"},
           NEW o \in Served(n, pkg[n], r), NEW i \in {"setup", "start", "done"},
           GoesOn(n, o.status, i), Leaves(n, o),
           UNCHANGED <<proc, left, file, skipped, faults>>, proc # "down",
           r = "Upgrading" => pkg[n].status # "Verified"
    PROVE  /\ HostType' /\ Stored' = Stored /\ StoreInv' /\ HostInv'
           /\ pkg[n].status # "Verified" => o.status # "Verified"
           /\ pkg[n].status = "Upgrading" => o.status = "Upgrading"
           /\ \A m \in Names :
                 m # n \/ (pkg[n].status # "Verified" /\ r # "Upgrading") =>
                     mount'[m] = mount[m]
  <1>1. n \in Names /\ pkg[n] \in PackageRecords /\ pkg[n].version = file[n]
    BY StoredType DEF StoreInv
  <1>2. AfterRequest(n, pkg[n], r, o)
    BY <1>1, RequestLeaves
  <1>3. /\ HostType' /\ mount'[n] = o.mount /\ unit'[n] = o.unit
        /\ \A m \in Names : m # n => mount'[m] = mount[m] /\ unit'[m] = unit[m]
    BY <1>1, <1>2, LeavesHost DEF AfterRequest
  <1>4. /\ Stored' = Stored /\ \A m \in Stored : m # n => pkg'[m] = pkg[m]
        /\ pkg'[n].status = o.status /\ pkg'[n].init = i
        /\ pkg'[n].version = pkg[n].version
    BY GoingOnIsStored
  <1>5. StoreInv'
    <2>1. ASSUME NEW m \in Stored PROVE pkg'[m].version = file[m]
      <3>1. CASE m = n
        BY <1>1, <1>4, <3>1
      <3>2. CASE m # n
        BY <1>4, <3>2 DEF StoreInv
      <3> QED
        BY <3>1, <3>2
    <2> QED
      BY <1>4, <2>1 DEF StoreInv
  <1>6. HostInv'
    <2> SUFFICES ASSUME NEW m \in Names \ skipped PROVE HostOf(m)'
      BY DEF HostInv
    <2>1. HostOf(m)
      BY DEF HostInv
    <2>2. (EveryUnmountWorks' <=> EveryUnmountWorks) /\ (EveryStopWorks' <=> EveryStopWorks)
      BY FaultsStay
    <2>3. CASE m = n
      <3>1. ASSUME EveryUnmountWorks PROVE MountOf(n)'
        <4>1. MountAfter(n, pkg[n], o) /\ MountOf(n)
          BY <1>1, <2>1, <2>3, <3>1, RequestLeavesMount DEF HostOf
        <4> QED
          BY <1>1, <1>3, <1>4, <4>1 DEF MountAfter, MountOf
      <3>2. ASSUME EveryStopWorks PROVE UnitOf(n)'
        <4>1. UnitOf(n)
          BY <2>1, <2>3, <3>2 DEF HostOf
        <4>2. UnitAfter(n, pkg[n], o)
          BY <1>1, <3>2, <4>1, RequestLeavesUnit DEF UnitOf
        <4> QED
          BY <1>1, <1>3, <1>4, <4>1, <4>2 DEF UnitAfter, UnitOf
      <3> QED
        BY <2>2, <2>3, <3>1, <3>2 DEF HostOf
    <2>4. CASE m # n
      <3>1. pkg'[m] = pkg[m] /\ mount'[m] = mount[m] /\ unit'[m] = unit[m]
        BY <1>3, <2>4 DEF GoesOn
      <3> QED
        BY <1>4, <2>1, <2>2, <3>1 DEF HostOf, MountOf, UnitOf
    <2> QED
      BY <2>3, <2>4
  <1>7. /\ pkg[n].status # "Verified" => o.status # "Verified"
        /\ pkg[n].status = "Upgrading" => o.status = "Upgrading"
        /\ pkg[n].status # "Verified" /\ r # "Upgrading" => mount'[n] = mount[n]
    BY <1>2, <1>3 DEF AfterRequest
  <1> QED
    BY <1>3, <1>4, <1>5, <1>6, <1>7

-----------------------------------------------------------------------------
(* The steps of clients and of the signal *)

\* A manager that rests is at no stage.
LEMMA AtRest ==
    ASSUME mgr' = Resting
    PROVE  MgrType' /\ StageInv' /\ DoneInv'
  BY DEF MgrType, StageInv, DoneInv, Resting

\* A step that leaves the store and the host alone.
LEMMA StoreUnchanged ==
    ASSUME IInv, UNCHANGED <<pkg, left, host, faults>>, skipped \subseteq skipped',
           proc' # "down" => proc # "down"
    PROVE  /\ StoreType' /\ HostType' /\ StoreInv' /\ Stored' = Stored /\ HostInv'
  <1> USE DEF host
  <1>1. StoreType' /\ HostType' /\ Stored' = Stored
    BY DEF IInv, StoreType, HostType, Stored
  <1>2. StoreInv'
    BY <1>1 DEF IInv, StoreInv
  <1>3. HostInv'
    <2>1. \A n \in Names \ skipped : HostOf(n)
      BY DEF IInv, HostInv
    <2>2. \A n \in Names : HostOf(n) => HostOf(n)'
      BY <1>1, FaultsStay DEF HostOf, MountOf, UnitOf
    <2> QED
      BY <2>1, <2>2 DEF HostInv
  <1> QED
    BY <1>1, <1>2, <1>3

\* What the manager is at does not depend on what becomes of a package meanwhile.
LEMMA AtWork ==
    ASSUME IInv, UNCHANGED <<mgr, skipped, faults>>, Stored' = Stored, HeadKept,
           \A m \in Stored : /\ pkg[m].status # "Verified" =>
                                   pkg'[m].status # "Verified" /\ mount'[m] = mount[m]
                             /\ pkg[m].status = "Upgrading" => pkg'[m].status = "Upgrading"
    PROVE  MgrType' /\ StageInv' /\ DoneInv'
  <1>1. MgrType /\ StageInv /\ DoneInv
    BY DEF IInv
  <1>2. Under' = Under
    BY DEF Under
  <1>3. mgr.stage # "idle" => queue' # <<>> /\ msg'.op = msg.op
    BY <1>1 DEF StageInv, HeadKept
  <1>4. \A m \in Stored : PastSetup(m) => PastSetup(m)'
    BY DEF PastSetup
  <1>5. StageInv'
    BY <1>1, <1>2, <1>3, <1>4 DEF StageInv
  <1>6. DoneInv'
    <2> SUFFICES ASSUME EveryUnmountWorks
                 PROVE  /\ mgr.stage = "purge" /\ mgr.name \notin skipped =>
                               mount'[mgr.name] = 0
                        /\ mgr.stage # "idle" /\ msg.op = "teardown" =>
                              \A m \in Stored \ (mgr.todo \cup Under \cup skipped) :
                                 mount'[m] = 0
      BY <1>2, <1>3, FaultsStay DEF DoneInv
    <2>1. \A m \in Stored \ skipped : PastSetup(m) => mount'[m] = mount[m]
      BY DEF PastSetup
    <2>2. ASSUME mgr.stage = "purge", mgr.name \notin skipped PROVE mount'[mgr.name] = 0
      <3>1. mgr.name \in Stored \ skipped /\ PastSetup(mgr.name) /\ mount[mgr.name] = 0
        BY <1>1, <2>2 DEF StageInv, DoneInv
      <3> QED
        BY <2>1, <3>1
    <2>3. ASSUME mgr.stage # "idle", msg.op = "teardown",
                 NEW m \in Stored \ (mgr.todo \cup Under \cup skipped)
          PROVE  mount'[m] = 0
      <3>1. PastSetup(m) /\ mount[m] = 0
        BY <1>1, <2>3 DEF StageInv, DoneInv
      <3> QED
        BY <2>1, <3>1
    <2> QED
      BY <2>2, <2>3
  <1> QED
    BY <1>1, <1>5, <1>6 DEF MgrType

\* A step that changes the mailbox only, and not its head.
LEMMA MailStep ==
    ASSUME IInv, MailInv', HeadKept, proc # "down",
           signal' \in {"waiting", "teardown", "done"},
           UNCHANGED <<proc, mgr, tx, pkg, left, host, skipped, faults>>
    PROVE  IInv'
  <1>1. ServiceType' /\ DownInv'
    BY DEF IInv, ServiceType, DownInv
  <1>2. StoreType' /\ HostType' /\ StoreInv' /\ Stored' = Stored /\ HostInv'
    BY StoreUnchanged
  <1>3. MgrType' /\ StageInv' /\ DoneInv'
    BY <1>2, AtWork DEF host
  <1> QED
    BY <1>1, <1>2, <1>3 DEF IInv

LEMMA ClientStep ==
    ASSUME DaemonConstantsOK, IInv, NEW c \in Clients, Client(c) \/ Send(c)
    PROVE  IInv'
  <1>1. MailInv /\ ServiceType
    BY DEF IInv
  <1>2. MailInv' /\ HeadKept
    BY <1>1, CallAsks, SendAsks, HangupLeaves DEF Client
  <1>3. /\ UNCHANGED <<proc, mgr, tx, pkg, left, host, skipped, faults>>
        /\ signal' \in {"waiting", "teardown", "done"}
    BY <1>1 DEF Client, Call, Send, Hangup, service, ServiceType
  <1>4. proc # "down"
    <2>1. proc = "down" => rpc[c] = NoRpc
      BY DEF IInv, DownInv
    <2>2. CASE Call(c)
      BY <2>2 DEF Call
    <2>3. CASE Send(c)
      BY <2>1, <2>3 DEF Send, NoRpc
    <2>4. CASE Hangup(c)
      BY <2>1, <2>4 DEF Hangup
    <2> QED
      BY <2>2, <2>3, <2>4 DEF Client
  <1> QED
    BY <1>2, <1>3, <1>4, MailStep

LEMMA SignalledStep ==
    ASSUME DaemonConstantsOK, IInv, Signalled
    PROVE  IInv'
  <1> DEFINE m == Message("signal", "teardown", "none", 1)
  <1>1. m \in Messages /\ m.from \notin Clients /\ m.op = "teardown"
    BY DEF Message, Messages, DaemonConstantsOK, Versions
  <1>2. queue \in Seq(Messages) /\ MailInv
    BY DEF IInv, MailInv, MailType
  <1>3. queue' = Append(queue, m) /\ rpc' = rpc
    BY DEF Signalled
  <1> HIDE DEF m
  <1>4. /\ queue' \in Seq(Messages) /\ queue' # <<>>
        /\ \A i \in DOMAIN queue' :
              \/ i \in DOMAIN queue /\ queue'[i] = queue[i]
              \/ i \notin DOMAIN queue /\ i = Len(queue) + 1 /\ queue'[i] = m
        /\ queue # <<>> => Head(queue') = Head(queue)
    BY <1>1, <1>2, <1>3, AppendOf
  <1>5. RpcInv' /\ AskInv'
    BY <1>1, <1>2, <1>3, <1>4 DEF MailInv, RpcInv, AskInv
  <1>6. MailInv' /\ HeadKept
    BY <1>2, <1>3, <1>4, <1>5 DEF MailInv, MailType, HeadKept, msg
  <1> QED
    BY <1>6, MailStep DEF Signalled

-----------------------------------------------------------------------------
(* The steps of a package *)

\* The mailbox and the daemon are what they were.
LEMMA MailUnchanged ==
    ASSUME IInv, UNCHANGED <<rpc, queue>>
    PROVE  MailInv'
  BY DEF IInv, MailInv, MailType, RpcInv, AskInv

LEMMA InitializeStep ==
    ASSUME DaemonConstantsOK, IInv, NEW n \in Names, Initialize(n)
    PROVE  IInv'
  <1> USE DEF service
  <1>1. ServiceType /\ StoreType /\ HostType /\ StoreInv /\ HostInv
    BY DEF IInv
  <1>2. n \in Stored /\ pkg[n] \in PackageRecords
    BY <1>1, StoredType DEF Initialize
  <1> DEFINE r == Requested(pkg[n].init)
             i == Then(pkg[n].init)
  <1>3. PICK o \in Served(n, pkg[n], r) : BothSet(n, o.status) /\ Leaves(n, o)
    BY DEF Initialize, BothSet
  <1>4. UNCHANGED <<service, rpc, queue, mgr, tx, left, file, skipped, faults>>
        /\ proc # "down"
    BY DEF Initialize
  <1>5. r \in {"SettingUp", "StartRequested"} /\ i \in {"start", "done"}
    BY DEF Requested, Then
  <1> HIDE DEF r, i
  <1>6. AfterRequest(n, pkg[n], r, o)
    BY <1>1, <1>2, <1>3, <1>5, RequestLeaves
  <1>7. GoesOn(n, o.status, i)
    BY <1>1, <1>2, <1>3, <1>6, StatusAndInitSet DEF AfterRequest, i
  <1>8. /\ HostType' /\ Stored' = Stored /\ StoreInv' /\ HostInv'
        /\ pkg[n].status # "Verified" => o.status # "Verified"
        /\ pkg[n].status = "Upgrading" => o.status = "Upgrading"
        /\ \A m \in Names : m # n \/ pkg[n].status # "Verified" => mount'[m] = mount[m]
    BY <1>1, <1>2, <1>3, <1>4, <1>5, <1>7, StoredRequest
  <1>9. /\ StoreType' /\ \A m \in Stored : m # n => pkg'[m] = pkg[m]
        /\ pkg'[n].status = o.status
    BY <1>1, <1>2, <1>4, <1>7, GoingOnIsStored
  <1>10. MgrType' /\ StageInv' /\ DoneInv'
    <2>1. HeadKept /\ Stored \subseteq Names
      BY <1>4 DEF HeadKept, msg, Stored
    <2> QED
      BY <1>4, <1>8, <1>9, <2>1, AtWork
  <1>11. ServiceType' /\ MailInv' /\ DownInv'
    BY <1>1, <1>4, MailUnchanged DEF ServiceType, DownInv
  <1> QED
    BY <1>8, <1>9, <1>10, <1>11 DEF IInv

\* The task of a package that is not in the store any more goes on: it mounts only
\* what a teardown let go, and starts its unit, or finds that it cannot.
LEMMA LeftStep ==
    ASSUME DaemonConstantsOK, IInv, NEW p \in left, InitializeLeft(p)
    PROVE  IInv'
  <1> USE DEF service
  <1> DEFINE r == Requested(p.init)
             LeftRecords == [name : Names, version : Versions, status : Shown,
                             init : {"setup", "start"}]
  <1>1. ServiceType /\ StoreType /\ HostType /\ StoreInv /\ HostInv
    BY DEF IInv
  <1>2. p \in LeftRecords /\ p \in PackageRecords /\ p.name \in Names
    BY <1>1 DEF StoreType, PackageRecords
  <1>3. /\ r \in {"SettingUp", "StartRequested"}
        /\ r = "SettingUp" => p.name \in skipped
    BY <1>1 DEF Requested, StoreInv
  <1>4. PICK o \in Served(p.name, p, r) :
           /\ left' = (left \ {p}) \cup
                  (IF Then(p.init) = "done" THEN {}
                   ELSE {[p EXCEPT !.status = o.status, !.init = Then(@)]})
           /\ Leaves(p.name, o)
    BY DEF InitializeLeft
  <1>5. UNCHANGED <<service, rpc, queue, mgr, tx, pkg, file, skipped, faults>>
        /\ proc # "down"
    BY DEF InitializeLeft
  <1> HIDE DEF r
  <1>6. AfterRequest(p.name, p, r, o)
    BY <1>1, <1>2, <1>3, <1>4, RequestLeaves
  <1>7. /\ HostType' /\ mount'[p.name] = o.mount /\ unit'[p.name] = o.unit
        /\ \A m \in Names : m # p.name => mount'[m] = mount[m] /\ unit'[m] = unit[m]
    BY <1>1, <1>2, <1>4, <1>5, <1>6, LeavesHost DEF AfterRequest
  <1>8. \A m \in Names \ skipped : mount'[m] = mount[m]
    BY <1>2, <1>3, <1>6, <1>7 DEF AfterRequest
  <1>9. left' \subseteq LeftRecords /\ \A q \in left' : q.init = "setup" => q \in left
    <2>1. CASE Then(p.init) = "done"
      BY <1>1, <1>4, <2>1 DEF StoreType
    <2>2. CASE Then(p.init) # "done"
      <3> DEFINE q == [p EXCEPT !.status = o.status, !.init = Then(@)]
      <3>1. Then(p.init) = "start"
        BY <2>2 DEF Then
      <3>2. q \in LeftRecords /\ q.init = "start"
        BY <1>2, <1>6, <3>1 DEF AfterRequest
      <3>3. left' = (left \ {p}) \cup {q}
        BY <1>4, <2>2
      <3> HIDE DEF q
      <3> QED
        BY <1>1, <3>2, <3>3 DEF StoreType
    <2> QED
      BY <2>1, <2>2
  <1>10. StoreType' /\ ServiceType' /\ Stored' = Stored /\ StoreInv'
    BY <1>1, <1>5, <1>9 DEF StoreType, ServiceType, Stored, StoreInv
  <1>11. MailInv' /\ DownInv'
    BY <1>5, MailUnchanged DEF DownInv
  <1>12. MgrType' /\ StageInv' /\ DoneInv'
    <2>1. /\ MgrType /\ StageInv /\ DoneInv /\ Under' = Under /\ msg' = msg
          /\ Stored \subseteq Names
      BY <1>5 DEF IInv, Under, msg, Stored
    <2>2. MgrType' /\ StageInv'
      BY <1>5, <1>10, <2>1 DEF MgrType, StageInv, PastSetup
    <2>3. DoneInv'
      BY <1>5, <1>8, <1>10, <2>1, FaultsStay DEF DoneInv, StageInv
    <2> QED
      BY <2>2, <2>3
  <1>13. HostInv'
    <2> SUFFICES ASSUME NEW m \in Names \ skipped PROVE HostOf(m)'
      BY <1>5 DEF HostInv
    <2>1. HostOf(m) /\ mount'[m] = mount[m]
      BY <1>1, <1>8 DEF HostInv
    <2>2. EveryStopWorks => unit'[m] \in {0, mount[m]}
      <3>1. CASE m = p.name
        <4> SUFFICES ASSUME EveryStopWorks PROVE unit'[m] \in {0, mount[m]}
          OBVIOUS
        <4>1. unit[m] \in {0, mount[m]}
          BY <2>1 DEF HostOf, UnitOf
        <4>2. UnitAfter(p.name, p, o)
          BY <1>1, <1>2, <1>3, <1>4, <3>1, <4>1, RequestLeavesUnit
        <4> QED
          BY <1>7, <2>1, <3>1, <4>2 DEF UnitAfter
      <3>2. CASE m # p.name
        BY <1>7, <2>1, <3>2 DEF HostOf, UnitOf
      <3> QED
        BY <3>1, <3>2
    <2> QED
      BY <1>5, <1>10, <2>1, <2>2, FaultsStay DEF HostOf, MountOf, UnitOf
  <1> QED
    BY <1>7, <1>10, <1>11, <1>12, <1>13 DEF IInv

\* A unit that ends leaves everything else as it is.
LEMMA ExitsStep ==
    ASSUME DaemonConstantsOK, IInv, NEW n \in Names, UnitExits(n)
    PROVE  IInv'
  <1> USE DEF service
  <1>1. ServiceType /\ StoreType /\ HostType /\ StoreInv /\ HostInv /\ DownInv
    BY DEF IInv
  <1>2. /\ UNCHANGED <<service, rpc, queue, mgr, tx, pkg, left, file, mount, skipped, faults>>
        /\ unit' = [unit EXCEPT ![n] = 0]
    BY DEF UnitExits
  <1>3. HostType' /\ \A m \in Names : unit'[m] \in {0, unit[m]}
    BY <1>1, <1>2 DEF HostType
  <1>4. StoreType' /\ ServiceType' /\ Stored' = Stored /\ StoreInv' /\ DownInv'
    BY <1>1, <1>2 DEF StoreType, ServiceType, Stored, StoreInv, DownInv
  <1>5. MgrType' /\ StageInv' /\ DoneInv'
    BY <1>2, <1>4, AtWork DEF HeadKept, msg
  <1>6. MailInv'
    BY <1>2, MailUnchanged
  <1>7. HostInv'
    <2>1. \A m \in Names : HostOf(m) => HostOf(m)'
      BY <1>2, <1>3, <1>4, FaultsStay DEF HostOf, MountOf, UnitOf
    <2> QED
      BY <1>1, <1>2, <2>1 DEF HostInv
  <1> QED
    BY <1>3, <1>4, <1>5, <1>6, <1>7 DEF IInv

\* What a package notices of its unit is neither an error nor an upgrade.
LEMMA NoticeStep ==
    ASSUME DaemonConstantsOK, IInv, NEW n \in Names, Notice(n)
    PROVE  IInv'
  <1> USE DEF service, host
  <1>1. ServiceType /\ StoreType /\ HostType /\ StoreInv /\ HostInv
    BY DEF IInv
  <1>2. /\ UNCHANGED <<service, rpc, queue, mgr, tx, left, host, skipped, faults>>
        /\ proc # "down" /\ pkg[n].status \in {"active", "Ready"}
    BY DEF Notice
  <1>3. PICK s \in {"Ready", "active"} : pkg' = [pkg EXCEPT ![n].status = s]
    BY DEF Notice
  <1>4. n \in Stored
    BY <1>1, <1>2, StoredType
  <1>5. GoesOn(n, s, pkg[n].init)
    BY <1>1, <1>3, <1>4, StatusSet DEF Shown
  <1>6. /\ Stored' = Stored /\ StoreType' /\ \A m \in Stored : m # n => pkg'[m] = pkg[m]
        /\ pkg'[n].status = s /\ pkg'[n].version = pkg[n].version
    BY <1>1, <1>2, <1>4, <1>5, GoingOnIsStored
  <1>7. MgrType' /\ StageInv' /\ DoneInv'
    BY <1>2, <1>6, AtWork DEF HeadKept, msg
  <1>8. StoreInv'
    <2>1. \A m \in Stored : pkg'[m].version = pkg[m].version
      BY <1>6
    <2> QED
      BY <1>1, <1>2, <1>6, <2>1 DEF StoreInv
  <1>9. HostType' /\ ServiceType' /\ MailInv' /\ DownInv'
    BY <1>1, <1>2, MailUnchanged DEF HostType, ServiceType, DownInv
  <1>10. HostInv'
    <2> SUFFICES ASSUME NEW m \in Names \ skipped PROVE HostOf(m)'
      BY <1>2 DEF HostInv
    <2>1. HostOf(m)
      BY <1>1 DEF HostInv
    <2>2. m \in Stored /\ pkg'[m].status \in {"Error", "Upgrading"} =>
             pkg'[m].status = pkg[m].status
      BY <1>6
    <2> QED
      BY <1>2, <1>6, <2>1, <2>2, FaultsStay DEF HostOf, MountOf, UnitOf
  <1> QED
    BY <1>6, <1>7, <1>8, <1>9, <1>10 DEF IInv

-----------------------------------------------------------------------------
(* The steps of the manager *)

\* A message is served, and a stage left, in a daemon that is there.
LEMMA Busy ==
    ASSUME IInv, mgr.stage # "idle" \/ queue # <<>>
    PROVE  proc # "down" /\ queue # <<>>
  BY DEF IInv, DownInv, StageInv, Resting

\* A step that answers is a step of the store and of the host alone.
LEMMA AnsweredStep ==
    ASSUME DaemonConstantsOK, IInv, queue # <<>>, NEW names \in SUBSET Names,
           Answer(names), UNCHANGED <<proc, tx, faults>>, skipped' \subseteq Names,
           signal' \in {"waiting", "teardown", "done"},
           StoreType', HostType', StoreInv', HostInv'
    PROVE  IInv'
  <1>1. MailInv /\ ServiceType /\ proc # "down"
    BY Busy DEF IInv
  <1>2. MailInv' /\ MgrType' /\ StageInv' /\ DoneInv'
    BY <1>1, Answered, AtRest
  <1>3. ServiceType' /\ DownInv'
    BY <1>1 DEF ServiceType, DownInv
  <1> QED
    BY <1>2, <1>3 DEF IInv

LEMMA ServeReadStep ==
    ASSUME DaemonConstantsOK, IInv, ServeRead
    PROVE  IInv'
  <1>1. PICK names \in {Stored, {}} : Answer(names)
    BY DEF ServeRead
  <1>2. names \in SUBSET Names
    BY DEF Stored
  <1>3. queue # <<>> /\ UNCHANGED <<service, tx, pkg, left, host, skipped, faults>>
    BY DEF ServeRead, Serving
  <1>4. /\ signal' \in {"waiting", "teardown", "done"} /\ UNCHANGED proc
        /\ skipped' \subseteq Names
    BY <1>3 DEF IInv, ServiceType, service
  <1>5. StoreType' /\ HostType' /\ StoreInv' /\ HostInv'
    BY <1>3, <1>4, StoreUnchanged
  <1> QED
    BY <1>1, <1>2, <1>3, <1>4, <1>5, AnsweredStep

\* The names that are left to ask for are names.
LEMMA OthersAreNames ==
    ASSUME MailInv
    PROVE  Others \in SUBSET Names
  BY DEF Others, MailInv, MailType, Rpcs

LEMMA ServePackageStep ==
    ASSUME DaemonConstantsOK, IInv, ServePackage
    PROVE  IInv'
  <1>1. MailInv /\ ServiceType /\ StoreType /\ HostType /\ StoreInv /\ HostInv
    BY DEF IInv
  <1>2. PICK op \in {"start", "stop"} :
          /\ Serving(op)
          /\ IF pkg[msg.name] = NoPackage THEN UNCHANGED <<pkg, mount, unit>>
             ELSE \E o \in Served(msg.name, pkg[msg.name],
                                  IF op = "start" THEN "StartRequested"
                                                  ELSE "StopRequested") :
                     /\ pkg' = [pkg EXCEPT ![msg.name].status = o.status]
                     /\ Leaves(msg.name, o)
    BY DEF ServePackage
  <1>3. /\ Answer(Others)
        /\ UNCHANGED <<proc, signal, tx, left, file, skipped, faults>>
        /\ Others \in SUBSET Names
    BY <1>1, OthersAreNames DEF ServePackage, service
  <1>4. queue # <<>> /\ msg.op = op /\ proc # "down"
    BY <1>2, Busy DEF Serving
  <1> DEFINE n == msg.name
  <1>5. n \in Names
    BY <1>1, <1>4, ServedMessage
  <1> HIDE DEF n
  <1>6. StoreType' /\ HostType' /\ StoreInv' /\ HostInv'
    <2>1. CASE pkg[n] = NoPackage
      <3>1. UNCHANGED <<proc, pkg, left, host>>
        BY <1>2, <1>3, <2>1 DEF n, host
      <3> QED
        BY <1>3, <3>1, StoreUnchanged
    <2>2. CASE pkg[n] # NoPackage
      <3>1. n \in Stored
        BY <1>5, <2>2 DEF Stored
      <3>2. PICK r \in {"StartRequested", "StopRequested"} :
               \E o \in Served(n, pkg[n], r) :
                  /\ pkg' = [pkg EXCEPT ![n].status = o.status]
                  /\ Leaves(n, o)
        BY <1>2, <2>2 DEF n
      <3>3. PICK o \in Served(n, pkg[n], r) :
                  /\ pkg' = [pkg EXCEPT ![n].status = o.status]
                  /\ Leaves(n, o)
        BY <3>2
      <3>4. pkg[n] \in PackageRecords /\ pkg[n].init \in {"setup", "start", "done"}
        BY <1>1, <3>1, StoredType DEF PackageRecords
      <3>5. AfterRequest(n, pkg[n], r, o)
        BY <1>1, <1>5, <3>3, <3>4, RequestLeaves
      <3>6. GoesOn(n, o.status, pkg[n].init)
        BY <1>1, <3>1, <3>3, <3>5, StatusSet DEF AfterRequest
      <3>7. HostType' /\ StoreInv' /\ HostInv'
        BY <1>1, <1>3, <1>4, <3>1, <3>3, <3>4, <3>6, StoredRequest
      <3>8. StoreType'
        BY <1>1, <1>3, <3>1, <3>6, GoingOnIsStored
      <3> QED
        BY <3>7, <3>8
    <2> QED
      BY <2>1, <2>2
  <1> QED
    BY <1>1, <1>3, <1>4, <1>6, AnsweredStep DEF ServiceType

\* A step that answers nothing and leaves the mailbox alone.
LEMMA StagedStep ==
    ASSUME DaemonConstantsOK, IInv, proc # "down",
           UNCHANGED <<proc, signal, rpc, queue, tx, faults>>, skipped' \subseteq Names,
           MgrType', StageInv', StoreType', HostType', StoreInv', HostInv', DoneInv'
    PROVE  IInv'
  <1>1. MailInv' /\ ServiceType' /\ DownInv'
    BY MailUnchanged DEF IInv, ServiceType, DownInv
  <1> QED
    BY <1>1 DEF IInv

\* An upgrade of a package that is still Verified: what is there stays.
LEMMA VerifiedUpgrade ==
    ASSUME DaemonConstantsOK, IInv, NEW n \in Stored, pkg[n].status = "Verified",
           NEW o \in Served(n, pkg[n], "Upgrading"),
           pkg' = [pkg EXCEPT ![n].status = o.status], Leaves(n, o),
           skipped' = skipped \cup ({n} \cap OnHost),
           UNCHANGED <<proc, left, file, faults>>
    PROVE  /\ o.status = "Upgrading" /\ pkg'[n].status = "Upgrading"
           /\ StoreType' /\ HostType' /\ StoreInv' /\ HostInv'
  <1>1. StoreType /\ HostType /\ StoreInv /\ HostInv /\ n \in Names
    BY DEF IInv, Stored
  <1>2. o = Result("Upgrading", mount[n], unit[n])
    <2>1. From("Upgrading") = {"Verified", "Ready", "StartRequested"} \cup RunStates
      BY DEF From, RunStates
    <2>2. Applicable("Verified", "Upgrading") /\ ~Ignored("Verified", "Upgrading")
      BY <2>1 DEF Applicable, Ignored
    <2> QED
      BY <2>2 DEF Served
  <1>3. o.status = "Upgrading" /\ o.mount = mount[n] /\ o.unit = unit[n]
    BY <1>2 DEF Result
  <1>4. mount' = mount /\ unit' = unit
    BY <1>1, <1>3 DEF Leaves, HostType
  <1>5. GoesOn(n, "Upgrading", pkg[n].init)
    BY <1>1, <1>3, StatusSet DEF Shown
  <1>6. /\ Stored' = Stored /\ StoreType' /\ \A m \in Stored : m # n => pkg'[m] = pkg[m]
        /\ pkg'[n].status = "Upgrading" /\ pkg'[n].version = pkg[n].version
    BY <1>1, <1>5, GoingOnIsStored
  <1>7. HostType'
    BY <1>1, <1>4 DEF HostType
  <1>8. StoreInv'
    <2>1. \A m \in Stored : pkg'[m].version = pkg[m].version
      BY <1>6
    <2> QED
      BY <1>1, <1>6, <2>1 DEF StoreInv
  <1>9. HostInv'
    <2> SUFFICES ASSUME NEW m \in Names \ skipped' PROVE HostOf(m)'
      BY DEF HostInv
    <2>1. HostOf(m)
      BY <1>1 DEF HostInv
    <2>2. CASE m = n
      <3>1. mount[n] = 0 /\ unit[n] = 0
        BY <1>1, <2>2 DEF OnHost
      <3> QED
        BY <1>4, <2>2, <3>1 DEF HostOf, MountOf, UnitOf
    <2>3. CASE m # n
      BY <1>4, <1>6, <2>1, <2>3, FaultsStay DEF HostOf, MountOf, UnitOf
    <2> QED
      BY <2>2, <2>3
  <1> QED
    BY <1>3, <1>6, <1>7, <1>8, <1>9

LEMMA ServeInstallStep ==
    ASSUME DaemonConstantsOK, IInv, ServeInstall
    PROVE  IInv'
  <1> USE DEF service
  <1> DEFINE n == msg.name
             Next1 == mgr' = [Resting EXCEPT !.stage = "replace", !.name = n]
             Upgraded(o) == /\ pkg' = [pkg EXCEPT ![n].status = o.status]
                            /\ Leaves(n, o)
                            /\ \/ o.status = "Upgrading" /\ Next1 /\ UNCHANGED <<queue, rpc>>
                               \/ o.status # "Upgrading" /\ Answer({})
  <1>1. MailInv /\ ServiceType /\ StoreType /\ HostType /\ StoreInv /\ HostInv
    BY DEF IInv
  <1>2. /\ Serving("install") /\ UNCHANGED <<service, tx, left, file, faults>>
        /\ \/ /\ pkg[n] = NoPackage /\ Next1
              /\ UNCHANGED <<queue, rpc, pkg, mount, unit, skipped>>
           \/ /\ pkg[n] # NoPackage
              /\ \E o \in Served(n, pkg[n], "Upgrading") : Upgraded(o)
              /\ skipped' = skipped \cup (StillVerified(n) \cap OnHost)
    BY DEF ServeInstall
  <1>3. queue # <<>> /\ msg.op = "install" /\ proc # "down"
    BY <1>2, Busy DEF Serving
  <1>4. n \in Names
    BY <1>1, <1>3, ServedMessage
  <1>5. skipped \subseteq skipped' /\ skipped' \subseteq Names
    BY <1>1, <1>2 DEF ServiceType, OnHost
  <1>6. ASSUME Next1, UNCHANGED queue, n \in Stored' => pkg'[n].status = "Upgrading"
        PROVE  MgrType' /\ StageInv' /\ DoneInv'
    <2>1. mgr'.stage = "replace" /\ mgr'.name = n /\ mgr'.todo = {} /\ msg'.op = "install"
      BY <1>3, <1>6 DEF Resting, msg
    <2>2. MgrType'
      BY <1>4, <1>6 DEF MgrType, Resting
    <2>3. queue' # <<>>
      BY <1>3, <1>6
    <2> HIDE DEF Next1
    <2>4. StageInv'
      BY <1>4, <1>6, <2>1, <2>3 DEF StageInv
    <2>5. DoneInv'
      BY <2>1 DEF DoneInv
    <2> QED
      BY <2>2, <2>4, <2>5
  <1>7. CASE pkg[n] = NoPackage /\ Next1 /\ UNCHANGED <<queue, rpc, pkg, mount, unit>>
    <2>1. UNCHANGED <<proc, pkg, left, host>>
      BY <1>2, <1>7 DEF host
    <2>2. n \notin Stored'
      BY <1>7 DEF Stored
    <2>3. MgrType' /\ StageInv' /\ DoneInv'
      BY <1>6, <1>7, <2>2
    <2> HIDE DEF Next1
    <2>4. StoreType' /\ HostType' /\ StoreInv' /\ HostInv'
      BY <1>2, <1>5, <2>1, StoreUnchanged
    <2> QED
      BY <1>2, <1>3, <1>5, <1>7, <2>3, <2>4, StagedStep
  <1>8. CASE /\ pkg[n] # NoPackage
             /\ \E o \in Served(n, pkg[n], "Upgrading") : Upgraded(o)
             /\ skipped' = skipped \cup (StillVerified(n) \cap OnHost)
    <2>1. n \in Stored
      BY <1>4, <1>8 DEF Stored
    <2>2. PICK o \in Served(n, pkg[n], "Upgrading") : Upgraded(o)
      BY <1>8
    <2>3. pkg' = [pkg EXCEPT ![n].status = o.status] /\ Leaves(n, o)
      BY <2>2
    <2>4. \/ o.status = "Upgrading" /\ Next1 /\ UNCHANGED <<queue, rpc>>
          \/ o.status # "Upgrading" /\ Answer({})
      BY <2>2
    <2> HIDE DEF Upgraded
    <2>5. /\ pkg'[n].status = o.status
          /\ StoreType' /\ HostType' /\ StoreInv' /\ HostInv'
      <3> HIDE DEF n, Next1
      <3>1. CASE pkg[n].status = "Verified"
        <4>1. StillVerified(n) = {n}
          BY <3>1 DEF StillVerified
        <4>2. skipped' = skipped \cup ({n} \cap OnHost)
          BY <1>8, <4>1
        <4> QED
          BY <1>2, <2>1, <2>3, <3>1, <4>2, VerifiedUpgrade
      <3>2. CASE pkg[n].status # "Verified"
        <4>1. skipped' = skipped
          BY <1>8, <3>2 DEF StillVerified
        <4>2. pkg[n] \in PackageRecords /\ pkg[n].init \in {"setup", "start", "done"}
          BY <1>1, <2>1, StoredType DEF PackageRecords
        <4>3. AfterRequest(n, pkg[n], "Upgrading", o)
          BY <1>1, <1>4, <2>2, <3>2, <4>2, RequestLeaves
        <4>4. GoesOn(n, o.status, pkg[n].init)
          BY <1>1, <2>1, <2>3, <4>3, StatusSet DEF AfterRequest
        <4>5. HostType' /\ StoreInv' /\ HostInv'
          BY <1>1, <1>2, <1>3, <2>1, <2>2, <2>3, <3>2, <4>1, <4>2, <4>4, StoredRequest
        <4>6. StoreType' /\ pkg'[n].status = o.status
          BY <1>1, <1>2, <2>1, <4>4, GoingOnIsStored
        <4> QED
          BY <4>5, <4>6
      <3> QED
        BY <3>1, <3>2
    <2>6. CASE o.status = "Upgrading" /\ Next1 /\ UNCHANGED <<queue, rpc>>
      <3>1. MgrType' /\ StageInv' /\ DoneInv'
        BY <1>6, <2>5, <2>6
      <3> HIDE DEF Next1
      <3> QED
        BY <1>2, <1>3, <1>5, <2>5, <2>6, <3>1, StagedStep
    <2>7. CASE Answer({})
      <3> HIDE DEF Next1
      <3> QED
        BY <1>1, <1>2, <1>3, <1>5, <2>5, <2>7, AnsweredStep DEF ServiceType
    <2> QED
      BY <2>4, <2>6, <2>7
  <1> QED
    BY <1>2, <1>7, <1>8

LEMMA ServeRemoveStep ==
    ASSUME DaemonConstantsOK, IInv, ServeRemove
    PROVE  IInv'
  <1> USE DEF service
  <1>1. MailInv /\ ServiceType /\ StoreType
    BY DEF IInv
  <1>2. Serving("remove") /\ UNCHANGED <<service, tx, pkg, left, host, skipped, faults>>
    BY DEF ServeRemove
  <1>3. queue # <<>> /\ msg.op = "remove" /\ proc # "down" /\ msg.name \in Names
    BY <1>1, <1>2, Busy, ServedMessage DEF Serving
  <1>4. /\ StoreType' /\ HostType' /\ StoreInv' /\ HostInv'
        /\ skipped' \subseteq Names
    BY <1>1, <1>2, StoreUnchanged DEF ServiceType
  <1>5. CASE Answer({})
    BY <1>1, <1>2, <1>3, <1>4, <1>5, AnsweredStep DEF ServiceType
  <1>6. CASE /\ pkg[msg.name] # NoPackage /\ UNCHANGED <<queue, rpc>>
             /\ mgr' = [Resting EXCEPT !.stage = "query", !.name = msg.name]
    <2>1. mgr'.stage = "query" /\ mgr'.name = msg.name /\ mgr'.todo = {}
          /\ msg' = msg /\ MgrType'
      BY <1>3, <1>6 DEF Resting, msg, MgrType
    <2>2. msg.name \in Stored'
      BY <1>2, <1>3, <1>6 DEF Stored
    <2>3. StageInv' /\ DoneInv'
      BY <1>3, <1>6, <2>1, <2>2 DEF StageInv, DoneInv
    <2> QED
      BY <1>2, <1>3, <1>4, <1>6, <2>1, <2>3, StagedStep
  <1> QED
    BY <1>5, <1>6 DEF ServeRemove

LEMMA ServeTeardownStep ==
    ASSUME DaemonConstantsOK, IInv, ServeTeardown
    PROVE  IInv'
  <1> USE DEF service
  <1>1. /\ Serving("teardown")
        /\ UNCHANGED <<service, rpc, queue, tx, pkg, left, host, skipped, faults>>
        /\ mgr' = [Resting EXCEPT !.stage = "next", !.todo = Stored]
    BY DEF ServeTeardown
  <1>2. queue # <<>> /\ msg.op = "teardown" /\ proc # "down"
    BY <1>1, Busy DEF Serving
  <1>3. mgr'.stage = "next" /\ mgr'.todo = Stored /\ msg' = msg /\ Stored' = Stored
        /\ queue' = queue
    BY <1>1 DEF Resting, msg, Stored
  <1>4. MgrType'
    BY <1>1 DEF MgrType, Resting, Stored
  <1>5. StageInv' /\ DoneInv'
    BY <1>2, <1>3 DEF StageInv, DoneInv
  <1>6. /\ StoreType' /\ HostType' /\ StoreInv' /\ HostInv'
        /\ skipped' \subseteq Names
    BY <1>1, StoreUnchanged DEF IInv, ServiceType
  <1> QED
    BY <1>1, <1>2, <1>4, <1>5, <1>6, StagedStep

LEMMA NextPackageStep ==
    ASSUME DaemonConstantsOK, IInv, NextPackage
    PROVE  IInv'
  <1> USE DEF service
  <1>1. /\ mgr.stage = "next"
        /\ UNCHANGED <<service, rpc, queue, tx, pkg, left, host, skipped, faults>>
        /\ StageInv /\ MgrType /\ DoneInv
    BY DEF NextPackage, IInv
  <1>2. PICK n \in mgr.todo : mgr' = [stage |-> "query", name |-> n, todo |-> mgr.todo \ {n}]
    BY DEF NextPackage
  <1>3. msg.op = "teardown" /\ queue # <<>> /\ proc # "down" /\ n \in Stored
        /\ mgr.todo \subseteq Stored
    BY <1>1, Busy DEF StageInv
  <1>4. /\ mgr'.stage = "query" /\ mgr'.name = n /\ mgr'.todo = mgr.todo \ {n}
        /\ msg' = msg /\ Stored' = Stored /\ queue' = queue
    BY <1>1, <1>2 DEF msg, Stored
  <1>5. MgrType'
    BY <1>1, <1>2, <1>3 DEF MgrType, Stored
  <1>6. mgr'.todo \cup Under' = mgr.todo /\ Under = {}
    BY <1>1, <1>2, <1>4 DEF Under
  <1>7. StageInv'
    <2>1. \A m \in Stored \ mgr.todo : PastSetup(m)'
      BY <1>1, <1>3, <1>6 DEF StageInv, PastSetup
    <2>2. n \in Names
      BY <1>3 DEF Stored
    <2> QED
      BY <1>1, <1>3, <1>4, <1>6, <2>1, <2>2 DEF StageInv
  <1>8. DoneInv'
    <2>1. EveryUnmountWorks => \A m \in Stored \ (mgr.todo \cup skipped) : mount[m] = 0
      BY <1>1, <1>3, <1>6 DEF DoneInv
    <2> QED
      BY <1>1, <1>4, <1>6, <2>1, FaultsStay DEF DoneInv, host
  <1>9. /\ StoreType' /\ HostType' /\ StoreInv' /\ HostInv'
        /\ skipped' \subseteq Names
    BY <1>1, StoreUnchanged DEF IInv, ServiceType
  <1> QED
    BY <1>1, <1>3, <1>5, <1>7, <1>8, <1>9, StagedStep

\* The manager goes on when a package is torn down.
LEMMA TornDownStep ==
    ASSUME DaemonConstantsOK, IInv, mgr.stage \in {"query", "teardown"},
           NEW ok \in BOOLEAN, TornDown(ok),
           UNCHANGED <<proc, signal, tx, pkg, left, file, faults>>,
           skipped \subseteq skipped', skipped' \subseteq Names,
           pkg[mgr.name].status # "Verified" \/ mgr.name \in skipped', HostType', HostInv',
           EveryUnmountWorks /\ mgr.name \notin skipped' => mount'[mgr.name] = 0,
           \A m \in Names : m # mgr.name => mount'[m] = mount[m]
    PROVE  IInv'
  <1>1. /\ StageInv /\ StoreType /\ ServiceType /\ MgrType /\ DoneInv
        /\ queue # <<>> /\ proc # "down" /\ msg.op \in {"remove", "teardown"}
        /\ mgr.name \in Names /\ mgr.name \in Stored
    BY Busy DEF IInv, StageInv
  <1>2. StoreType' /\ StoreInv' /\ Stored' = Stored
    BY DEF IInv, StoreType, StoreInv, Stored
  <1>3. CASE Answer({})
    BY <1>1, <1>2, <1>3, AnsweredStep DEF ServiceType
  <1>4. CASE /\ UNCHANGED <<queue, rpc>>
             /\ mgr' = [mgr EXCEPT !.stage = IF msg.op = "remove" THEN "purge" ELSE "next"]
    <2>1. /\ mgr'.stage = IF msg.op = "remove" THEN "purge" ELSE "next"
          /\ mgr'.name = mgr.name /\ mgr'.todo = mgr.todo /\ msg' = msg /\ queue' = queue
          /\ MgrType'
      BY <1>1, <1>4 DEF MgrType, msg
    <2>2. Under = {mgr.name} /\ Under' = {}
      BY <2>1 DEF Under
    <2>3. \A m \in Stored \ mgr.todo :
             m = mgr.name \/ m \in Stored \ (mgr.todo \cup Under)
      BY <2>2
    <2>4. StageInv'
      <3>1. ASSUME msg.op = "teardown", NEW m \in Stored \ mgr.todo
            PROVE  pkg[m].status # "Verified" \/ m \in skipped'
        <4>1. CASE m = mgr.name
          BY <4>1
        <4>2. CASE m # mgr.name
          BY <1>1, <2>3, <3>1, <4>2 DEF StageInv, PastSetup
        <4> QED
          BY <4>1, <4>2
      <3>2. mgr'.stage = "purge" => PastSetup(mgr.name)'
        BY <2>1 DEF PastSetup
      <3>3. msg.op = "teardown" => \A m \in Stored \ mgr.todo : PastSetup(m)'
        BY <3>1 DEF PastSetup
      <3> QED
        BY <1>1, <1>2, <2>1, <2>2, <3>2, <3>3 DEF StageInv
    <2>5. DoneInv'
      <3> SUFFICES ASSUME EveryUnmountWorks
                   PROVE  /\ mgr.name \notin skipped' => mount'[mgr.name] = 0
                          /\ msg.op = "teardown" =>
                                \A m \in Stored \ (mgr.todo \cup skipped') : mount'[m] = 0
        BY <1>2, <2>1, <2>2, FaultsStay DEF DoneInv
      <3>1. Stored \subseteq Names
        BY DEF Stored
      <3>2. msg.op = "teardown" => \A m \in Stored \ (mgr.todo \cup skipped') : mount'[m] = 0
        BY <1>1, <2>3, <3>1 DEF DoneInv
      <3> QED
        BY <3>2
    <2> QED
      BY <1>1, <1>2, <1>4, <2>1, <2>4, <2>5, StagedStep
  <1> QED
    BY <1>3, <1>4 DEF TornDown

LEMMA QueryStep ==
    ASSUME DaemonConstantsOK, IInv, Query
    PROVE  IInv'
  <1> USE DEF service
  <1> DEFINE n == mgr.name
  <1>1. /\ mgr.stage = "query" /\ skipped' = skipped \cup StillVerified(n)
        /\ UNCHANGED <<service, tx, pkg, left, host, faults>>
        /\ StageInv /\ StoreType /\ ServiceType /\ MgrType /\ HostInv /\ DoneInv
    BY DEF Query, IInv
  <1>2. /\ n \in Stored /\ n \in Names /\ queue # <<>> /\ proc # "down"
        /\ msg.op \in {"remove", "teardown"}
    BY <1>1, Busy DEF StageInv
  <1>3. skipped \subseteq skipped' /\ skipped' \subseteq Names
    BY <1>1, <1>2 DEF StillVerified, ServiceType
  <1>4. pkg[n].status = "Verified" => n \in skipped'
    BY <1>1 DEF StillVerified
  <1>5. StoreType' /\ HostType' /\ StoreInv' /\ Stored' = Stored /\ HostInv'
    BY <1>1, <1>3, StoreUnchanged
  <1>6. CASE pkg[n].status \in {"Verified", "Upgrading"} /\ TornDown(TRUE)
    <2>1. EveryUnmountWorks /\ n \notin skipped' => mount'[n] = 0
      BY <1>1, <1>2, <1>3, <1>4, <1>6 DEF HostInv, HostOf, MountOf, host
    <2>2. pkg[n].status # "Verified" \/ n \in skipped'
      BY <1>4
    <2>3. \A m \in Names : m # n => mount'[m] = mount[m]
      BY <1>1 DEF host
    <2> QED
      BY <1>1, <1>3, <1>5, <1>6, <2>1, <2>2, <2>3, TornDownStep DEF host
  <1>7. CASE /\ pkg[n].status \notin {"Verified", "Upgrading"}
             /\ mgr' = [mgr EXCEPT !.stage = "teardown"] /\ UNCHANGED <<queue, rpc>>
    <2>1. /\ mgr'.stage = "teardown" /\ mgr'.name = n /\ mgr'.todo = mgr.todo
          /\ msg' = msg /\ queue' = queue /\ MgrType'
      BY <1>1, <1>7 DEF MgrType, msg
    <2>2. Under' = Under
      BY <1>1, <2>1 DEF Under
    <2>3. \A m \in Names : PastSetup(m) => PastSetup(m)'
      BY <1>1, <1>3 DEF PastSetup
    <2>4. pkg'[mgr'.name].status # "Verified"
      BY <1>1, <1>7, <2>1
    <2>5. Stored \subseteq Names /\ PastSetup(mgr.name)'
      BY <1>1, <2>1, <2>4 DEF Stored, PastSetup
    <2> HIDE DEF n
    <2>6. StageInv'
      BY <1>1, <1>2, <1>5, <2>1, <2>2, <2>3, <2>5 DEF StageInv
    <2>7. DoneInv'
      BY <1>1, <1>3, <1>5, <2>1, <2>2, FaultsStay DEF DoneInv, host
    <2> QED
      BY <1>1, <1>2, <1>3, <1>5, <1>7, <2>1, <2>6, <2>7, StagedStep
  <1> QED
    BY <1>6, <1>7 DEF Query

LEMMA TeardownStep ==
    ASSUME DaemonConstantsOK, IInv, Teardown
    PROVE  IInv'
  <1> USE DEF service
  <1> DEFINE n == mgr.name
  <1>1. /\ mgr.stage = "teardown"
        /\ UNCHANGED <<service, tx, pkg, left, file, skipped, faults>>
        /\ StageInv /\ StoreType /\ ServiceType /\ HostType /\ HostInv
    BY DEF Teardown, IInv
  <1>2. PICK o \in Undone(n, pkg[n], "Teardown") : Leaves(n, o) /\ TornDown(o.mount = 0)
    BY DEF Teardown
  <1>3. n \in Stored /\ n \in Names /\ PastSetup(n) /\ pkg[n] \in PackageRecords
    BY <1>1, StoredType DEF StageInv
  <1> HIDE DEF n
  <1>4. o \in Promised(n, pkg[n], "Teardown")
    BY <1>2 DEF Undone
  <1>5. o.mount \in Versions \cup {0} /\ o.unit \in Versions \cup {0}
    BY <1>1, <1>3, <1>4, PromisedType
  <1>6. /\ HostType' /\ mount'[n] = o.mount /\ unit'[n] = o.unit
        /\ \A m \in Names : m # n => mount'[m] = mount[m] /\ unit'[m] = unit[m]
    BY <1>1, <1>2, <1>3, <1>5, LeavesHost
  <1>7. EveryUnmountWorks => o.mount = 0
    BY <1>2 DEF Undone, EveryUnmountWorks
  <1>8. HostInv'
    <2> SUFFICES ASSUME NEW m \in Names \ skipped PROVE HostOf(m)'
      BY <1>1 DEF HostInv
    <2>1. HostOf(m) /\ Stored' = Stored
      BY <1>1 DEF HostInv, Stored
    <2>2. CASE m = n
      <3>1. EveryUnmountWorks => MountOf(m)'
        BY <1>6, <1>7, <2>2 DEF MountOf
      <3>2. ASSUME EveryStopWorks PROVE UnitOf(m)'
        <4>1. ~May("work") /\ EveryUnmountWorks
          BY <3>2 DEF EveryStopWorks, EveryUnmountWorks, May
        <4>2. o.mount = 0 /\ (o.unit = 0 \/ (o.unit = unit[n] /\ pkg[n].status = "Error"))
          BY <1>2, <1>7, <4>1 DEF Undone
        <4>3. UnitOf(n)
          BY <2>1, <2>2, <3>2 DEF HostOf
        <4>4. o.unit = 0
          BY <1>3, <4>2, <4>3 DEF UnitOf
        <4> QED
          BY <1>6, <2>2, <4>2, <4>4 DEF UnitOf
      <3> QED
        BY <1>1, <3>1, <3>2, FaultsStay DEF HostOf
    <2>3. CASE m # n
      BY <1>1, <1>6, <2>1, <2>3, FaultsStay DEF HostOf, MountOf, UnitOf
    <2> QED
      BY <2>2, <2>3
  <1>9. pkg[n].status # "Verified" \/ n \in skipped'
    BY <1>1, <1>3 DEF PastSetup
  <1>10. skipped' \subseteq Names /\ skipped \subseteq skipped'
    BY <1>1 DEF ServiceType
  <1>11. EveryUnmountWorks /\ n \notin skipped' => mount'[n] = 0
    BY <1>6, <1>7
  <1> DEFINE ok == o.mount = 0
  <1>12. ok \in BOOLEAN /\ TornDown(ok)
    BY <1>2
  <1> HIDE DEF ok
  <1> QED
    BY <1>1, <1>6, <1>8, <1>9, <1>10, <1>11, <1>12, TornDownStep DEF n

\* Only a package that is Verified leaves the store with its setup yet to come.
LEMMA LingeringOf ==
    ASSUME DaemonConstantsOK, StoreType, NEW n \in Names
    PROVE  /\ Lingering(n) \subseteq [name : Names, version : Versions, status : Shown,
                                      init : {"setup", "start"}]
           /\ \A q \in Lingering(n) : q.init = "setup" =>
                 n \in Stored /\ q.name = n /\ pkg[n].status = "Verified"
  <1>1. CASE n \notin Stored
    <2>1. Lingering(n) = {}
      BY <1>1, StoredType DEF Lingering
    <2> QED
      BY <2>1
  <1>2. CASE n \in Stored
    <2>1. pkg[n] \in PackageRecords /\ pkg[n].name = n /\ pkg[n].status \in Shown
      BY <1>2, StoredType DEF PackageRecords
    <2>2. ASSUME NEW q \in Lingering(n)
          PROVE  /\ q = pkg[n] /\ q.init # "done"
                 /\ q.init = "setup" => pkg[n].status = "Verified"
      <3>1. q = pkg[n] /\ q.init # "done" /\ Applicable(q.status, Requested(q.init))
        BY <2>2 DEF Lingering
      <3>2. q.init = "setup" => Applicable(pkg[n].status, "SettingUp")
        BY <3>1 DEF Requested
      <3> QED
        BY <2>1, <3>1, <3>2, Worked
    <2> QED
      BY <1>2, <2>1, <2>2 DEF PackageRecords
  <1> QED
    BY <1>1, <1>2

\* A package that is made anew, or none, takes the place of one of the store.
LEMMA Replaced ==
    ASSUME DaemonConstantsOK, StoreType, StoreInv, HostInv, NEW n \in Names, NEW p,
           Store(n, p),
           p = NoPackage \/ (\E v \in Versions : p = Created(n, v) /\ file'[n] = v),
           n \in Stored => PastSetup(n),
           EveryUnmountWorks /\ n \notin skipped => mount[n] = 0,
           \A m \in Names : m # n => file'[m] = file[m],
           UNCHANGED <<mount, unit, proc, skipped, faults>>
    PROVE  StoreType' /\ StoreInv' /\ HostInv'
  <1>1. /\ pkg' = [pkg EXCEPT ![n] = p] /\ left' = left \cup Lingering(n)
        /\ pkg \in [Names -> {NoPackage} \cup PackageRecords]
    BY DEF Store, StoreType
  <1>2. \/ p = NoPackage
        \/ /\ p \in PackageRecords /\ p.name = n /\ p.version = file'[n]
           /\ p.status = "Verified"
    <2>1. CASE \E v \in Versions : p = Created(n, v) /\ file'[n] = v
      BY <2>1 DEF Created, PackageRecords, Shown
    <2> QED
      BY <2>1
  <1>3. /\ pkg' \in [Names -> {NoPackage} \cup PackageRecords] /\ pkg'[n] = p
        /\ \A m \in Names : m # n => pkg'[m] = pkg[m]
    BY <1>1, <1>2, FunctionSet
  <1>4. StoreType'
    BY <1>1, <1>2, <1>3, LingeringOf DEF StoreType
  <1>5. \A m \in Names : m # n => (m \in Stored' <=> m \in Stored)
    BY <1>3 DEF Stored
  <1>6. StoreInv'
    <2>1. ASSUME NEW m \in Stored' PROVE pkg'[m].version = file'[m]
      <3>1. m \in Names /\ pkg'[m] # NoPackage
        BY <2>1 DEF Stored
      <3>2. CASE m = n
        BY <1>2, <1>3, <3>1, <3>2
      <3>3. CASE m # n
        BY <1>3, <1>5, <2>1, <3>1, <3>3 DEF StoreInv
      <3> QED
        BY <3>2, <3>3
    <2>2. ASSUME NEW q \in left', q.init = "setup" PROVE q.name \in skipped
      <3>1. CASE q \in left
        BY <2>2, <3>1 DEF StoreInv
      <3>2. CASE q \in Lingering(n)
        BY <2>2, <3>2, LingeringOf DEF PastSetup
      <3> QED
        BY <1>1, <2>2, <3>1, <3>2
    <2> QED
      BY <2>1, <2>2 DEF StoreInv
  <1>7. HostInv'
    <2> SUFFICES ASSUME NEW m \in Names \ skipped PROVE HostOf(m)'
      BY DEF HostInv
    <2>1. HostOf(m)
      BY DEF HostInv
    <2>2. CASE m = n
      <3>1. m \in Stored' => pkg'[m].status = "Verified"
        BY <1>2, <1>3, <2>2 DEF Stored
      <3> QED
        BY <2>1, <2>2, <3>1, FaultsStay DEF HostOf, MountOf, UnitOf
    <2>3. CASE m # n
      BY <1>3, <1>5, <2>1, <2>3, FaultsStay DEF HostOf, MountOf, UnitOf
    <2> QED
      BY <2>2, <2>3
  <1> QED
    BY <1>4, <1>6, <1>7

\* The same of a package that is recovered.
LEMMA Recovered ==
    ASSUME DaemonConstantsOK, StoreType, StoreInv, HostType, HostInv, NEW n \in Names,
           Recover(n), n \in Stored => PastSetup(n),
           EveryUnmountWorks /\ n \notin skipped => mount[n] = 0,
           UNCHANGED <<mount, unit, proc, file, skipped, faults>>
    PROVE  StoreType' /\ StoreInv' /\ HostInv'
  <1>1. CASE Store(n, NoPackage)
    BY <1>1, Replaced
  <1>2. CASE file[n] # 0 /\ Store(n, Created(n, file[n]))
    <2>1. file[n] \in Versions
      BY <1>2 DEF HostType
    <2> QED
      BY <1>2, <2>1, Replaced
  <1> QED
    BY <1>1, <1>2 DEF Recover

LEMMA ReplaceStep ==
    ASSUME DaemonConstantsOK, IInv, Replace
    PROVE  IInv'
  <1> USE DEF service
  <1> DEFINE n == mgr.name
             v == msg.version
  <1>1. /\ mgr.stage = "replace" /\ Answer({})
        /\ UNCHANGED <<service, tx, mount, unit, skipped, faults>>
        /\ \/ file' = [file EXCEPT ![n] = v] /\ Store(n, Created(n, v))
           \/ pkg[n] = NoPackage /\ UNCHANGED <<pkg, left, file>>
           \/ Recover(n) /\ UNCHANGED file
    BY DEF Replace
  <1>2. /\ MailInv /\ ServiceType /\ StoreType /\ HostType /\ StoreInv /\ StageInv
        /\ HostInv /\ queue # <<>> /\ proc # "down"
    BY <1>1, Busy DEF IInv
  <1>3. v \in Versions
    BY <1>2, ServedMessage DEF Messages
  <1>4. n \in Names /\ (n \in Stored => pkg[n].status = "Upgrading")
    BY <1>1, <1>2 DEF StageInv
  <1>5. n \in Stored => PastSetup(n)
    BY <1>4 DEF PastSetup
  <1>6. EveryUnmountWorks /\ n \notin skipped => mount[n] = 0
    BY <1>2, <1>4 DEF HostInv, HostOf, MountOf
  <1> HIDE DEF n, v
  <1>7. StoreType' /\ HostType' /\ StoreInv' /\ HostInv'
    <2>1. CASE file' = [file EXCEPT ![n] = v] /\ Store(n, Created(n, v))
      <3>1. /\ file'[n] = v /\ file' \in [Names -> Versions \cup {0}]
            /\ \A m \in Names : m # n => file'[m] = file[m]
        BY <1>2, <1>3, <1>4, <2>1 DEF HostType
      <3>2. HostType'
        BY <1>1, <1>2, <3>1 DEF HostType
      <3>3. StoreType' /\ StoreInv' /\ HostInv'
        BY <1>1, <1>2, <1>3, <1>4, <1>5, <1>6, <2>1, <3>1, Replaced
      <3> QED
        BY <3>2, <3>3
    <2>2. CASE pkg[n] = NoPackage /\ UNCHANGED <<pkg, left, file>>
      BY <1>1, <2>2, StoreUnchanged DEF host
    <2>3. CASE Recover(n) /\ UNCHANGED file
      <3>1. HostType'
        BY <1>1, <1>2, <2>3 DEF HostType
      <3>2. StoreType' /\ StoreInv' /\ HostInv'
        BY <1>1, <1>2, <1>4, <1>5, <1>6, <2>3, Recovered
      <3> QED
        BY <3>1, <3>2
    <2> QED
      BY <1>1, <2>1, <2>2, <2>3 DEF n, v
  <1> QED
    BY <1>1, <1>2, <1>7, AnsweredStep DEF ServiceType

LEMMA PurgeAndRemoveStep ==
    ASSUME DaemonConstantsOK, IInv, PurgeAndRemove
    PROVE  IInv'
  <1> USE DEF service
  <1> DEFINE n == mgr.name
  <1>1. /\ mgr.stage = "purge" /\ Answer({})
        /\ UNCHANGED <<service, tx, mount, unit, skipped, faults>>
        /\ \/ Store(n, NoPackage) /\ file' = [file EXCEPT ![n] = 0]
           \/ Recover(n) /\ UNCHANGED file
    BY DEF PurgeAndRemove
  <1>2. /\ MailInv /\ ServiceType /\ StoreType /\ HostType /\ StoreInv /\ StageInv
        /\ HostInv /\ DoneInv /\ queue # <<>> /\ proc # "down"
    BY <1>1, Busy DEF IInv
  <1>3. n \in Names /\ n \in Stored /\ PastSetup(n)
    BY <1>1, <1>2 DEF StageInv
  <1>4. EveryUnmountWorks /\ n \notin skipped => mount[n] = 0
    BY <1>1, <1>2 DEF DoneInv
  <1> HIDE DEF n
  <1>5. StoreType' /\ HostType' /\ StoreInv' /\ HostInv'
    <2>1. CASE Store(n, NoPackage) /\ file' = [file EXCEPT ![n] = 0]
      <3>1. /\ file' \in [Names -> Versions \cup {0}]
            /\ \A m \in Names : m # n => file'[m] = file[m]
        BY <1>2, <1>3, <2>1 DEF HostType
      <3>2. HostType'
        BY <1>1, <1>2, <3>1 DEF HostType
      <3>3. StoreType' /\ StoreInv' /\ HostInv'
        BY <1>1, <1>2, <1>3, <1>4, <2>1, <3>1, Replaced
      <3> QED
        BY <3>2, <3>3
    <2>2. CASE Recover(n) /\ UNCHANGED file
      <3>1. HostType'
        BY <1>1, <1>2, <2>2 DEF HostType
      <3>2. StoreType' /\ StoreInv' /\ HostInv'
        BY <1>1, <1>2, <1>3, <1>4, <2>2, Recovered
      <3> QED
        BY <3>1, <3>2
    <2> QED
      BY <1>1, <2>1, <2>2 DEF n
  <1> QED
    BY <1>1, <1>2, <1>5, AnsweredStep DEF ServiceType

LEMMA ClearStep ==
    ASSUME DaemonConstantsOK, IInv, Clear
    PROVE  IInv'
  <1>1. /\ mgr.stage = "next" /\ mgr.todo = {} /\ signal' = "done" /\ Answer({})
        /\ pkg' = [n \in Names |-> NoPackage]
        /\ left' = left \cup UNION {Lingering(n) : n \in Stored}
        /\ UNCHANGED <<proc, tx, host, skipped, faults>>
    BY DEF Clear
  <1>2. /\ ServiceType /\ StoreType /\ HostType /\ StageInv /\ StoreInv /\ HostInv
        /\ DoneInv /\ queue # <<>> /\ msg.op = "teardown"
    BY <1>1, Busy DEF IInv, StageInv
  <1>3. Under = {} /\ \A n \in Stored : PastSetup(n)
    BY <1>1, <1>2 DEF Under, StageInv
  <1>4. Stored' = {} /\ Stored \subseteq Names
    BY <1>1 DEF Stored
  <1>5. StoreType' /\ StoreInv'
    <2> DEFINE L == [name : Names, version : Versions, status : Shown,
                     init : {"setup", "start"}]
    <2>1. ASSUME NEW n \in Stored
          PROVE  /\ Lingering(n) \subseteq L
                 /\ \A q \in Lingering(n) : q.init = "setup" => q.name \in skipped
      BY <1>2, <1>3, <1>4, <2>1, LingeringOf DEF PastSetup
    <2>2. left' \subseteq L /\ \A q \in left' : q.init = "setup" => q.name \in skipped
      BY <1>1, <1>2, <2>1 DEF StoreType, StoreInv
    <2>3. pkg' \in [Names -> {NoPackage} \cup PackageRecords]
          /\ \A n \in Names : pkg'[n] = NoPackage
      BY <1>1
    <2> QED
      BY <1>1, <1>4, <2>2, <2>3 DEF StoreType, StoreInv
  <1>6. HostType'
    BY <1>1, <1>2 DEF HostType, host
  <1>7. HostInv'
    <2>1. EveryUnmountWorks => \A n \in Stored \ skipped : mount[n] = 0
      BY <1>1, <1>2, <1>3 DEF DoneInv
    <2> SUFFICES ASSUME NEW n \in Names \ skipped PROVE HostOf(n)'
      BY <1>1 DEF HostInv
    <2>2. HostOf(n)
      BY <1>2 DEF HostInv
    <2> QED
      BY <1>1, <1>4, <2>1, <2>2, FaultsStay DEF HostOf, MountOf, UnitOf, host
  <1> QED
    BY <1>1, <1>2, <1>5, <1>6, <1>7, AnsweredStep DEF ServiceType

LEMMA ManagerStep ==
    ASSUME DaemonConstantsOK, IInv, Manager
    PROVE  IInv'
  BY ServeReadStep, ServePackageStep, ServeInstallStep, ReplaceStep, ServeRemoveStep,
     ServeTeardownStep, NextPackageStep, QueryStep, TeardownStep, PurgeAndRemoveStep,
     ClearStep DEF Manager

-----------------------------------------------------------------------------
(* The start and the end of the daemon *)

LEMMA StartStep ==
    ASSUME DaemonConstantsOK, IInv, Start
    PROVE  IInv'
  <1>1. /\ proc = "down" /\ proc' = "up" /\ signal' = "waiting" /\ tx' = TRUE
        /\ pkg' = [n \in Names |-> IF file[n] = 0 THEN NoPackage ELSE Created(n, file[n])]
        /\ UNCHANGED <<rpc, queue, mgr, left, host, skipped, faults>>
    BY DEF Start
  <1>2. /\ ServiceType /\ StoreType /\ HostType /\ mgr = Resting
        /\ Stored = {} /\ left = {}
    BY <1>1 DEF IInv, DownInv
  <1>3. \A n \in Names :
           \/ pkg'[n] = NoPackage
           \/ /\ pkg'[n] \in PackageRecords /\ pkg'[n].name = n
              /\ pkg'[n].version = file[n] /\ pkg'[n].status = "Verified"
              /\ pkg'[n].init = "setup"
    <2> SUFFICES ASSUME NEW n \in Names, file[n] # 0
                 PROVE  /\ pkg'[n] \in PackageRecords /\ pkg'[n].name = n
                        /\ pkg'[n].version = file[n] /\ pkg'[n].status = "Verified"
                        /\ pkg'[n].init = "setup"
      BY <1>1
    <2>1. file[n] \in Versions
      BY <1>2 DEF HostType
    <2>2. pkg'[n] = Created(n, file[n])
      BY <1>1
    <2> QED
      BY <2>1, <2>2 DEF Created, PackageRecords, Shown
  <1>4. StoreType'
    <2>1. pkg' \in [Names -> {NoPackage} \cup PackageRecords]
      BY <1>1, <1>3
    <2> QED
      BY <1>1, <1>2, <1>3, <2>1 DEF StoreType
  <1>5. StoreInv'
    BY <1>1, <1>2, <1>3 DEF StoreInv, Stored, host
  <1>6. ServiceType' /\ HostType' /\ DownInv'
    BY <1>1, <1>2 DEF ServiceType, HostType, DownInv, host
  <1>7. MailInv' /\ MgrType' /\ StageInv' /\ DoneInv'
    BY <1>1, <1>2, AtRest, MailUnchanged
  <1>8. HostInv'
    <2>1. HostInv
      BY DEF IInv
    <2> SUFFICES ASSUME NEW n \in Names \ skipped PROVE HostOf(n)'
      BY <1>1 DEF HostInv
    <2>2. HostOf(n)
      BY <2>1 DEF HostInv
    <2>3. n \notin Stored' => file[n] = 0
      <3>1. CASE file[n] # 0
        <4>1. pkg'[n] = Created(n, file[n]) /\ Created(n, file[n]).init = "setup"
          BY <1>1, <3>1 DEF Created
        <4>2. NoPackage.init = "done"
          BY DEF NoPackage, Created
        <4> QED
          BY <4>1, <4>2 DEF Stored
      <3> QED
        BY <3>1
    <2>4. n \in Stored' => pkg'[n].status = "Verified"
      BY <1>3 DEF Stored
    <2> QED
      BY <1>1, <2>2, <2>3, <2>4, FaultsStay DEF HostOf, MountOf, UnitOf, host
  <1> QED
    BY <1>4, <1>5, <1>6, <1>7, <1>8 DEF IInv

LEMMA EndsStep ==
    ASSUME DaemonConstantsOK, IInv, Ends
    PROVE  IInv'
  <1>1. /\ proc' = "down" /\ signal' = "waiting" /\ rpc' = [c \in Clients |-> NoRpc]
        /\ queue' = <<>> /\ mgr' = Resting /\ tx' = TRUE
        /\ pkg' = [n \in Names |-> NoPackage] /\ left' = {}
        /\ UNCHANGED <<host, skipped, faults>>
    BY DEF Ends
  <1>2. NoRpc \in Rpcs /\ NoRpc.op = "none" /\ NoRpc.names = {} /\ ~NoRpc.waits
    BY DEF NoRpc, Rpcs, DaemonConstantsOK, Versions
  <1>3. MailInv'
    <2>1. queue' \in Seq(Messages) /\ DOMAIN queue' = {}
      BY <1>1
    <2> QED
      BY <1>1, <1>2, <2>1 DEF MailInv, MailType, RpcInv, AskInv
  <1>4. Stored' = {}
    BY <1>1 DEF Stored
  <1>5. StoreType' /\ StoreInv' /\ DownInv'
    BY <1>1, <1>4 DEF StoreType, StoreInv, DownInv
  <1>6. ServiceType' /\ HostType'
    BY <1>1 DEF IInv, ServiceType, HostType, host
  <1>7. HostInv'
    <2>1. \A n \in Names : HostOf(n) => HostOf(n)'
      BY <1>1, <1>4, FaultsStay DEF HostOf, MountOf, UnitOf, host
    <2> QED
      BY <1>1, <2>1 DEF IInv, HostInv
  <1> QED
    BY <1>1, <1>3, <1>5, <1>6, <1>7, AtRest DEF IInv

\* The daemon shuts its server down, or loses the actor of its transactions.
LEMMA ServiceStep ==
    ASSUME DaemonConstantsOK, IInv, Drain \/ ActorDies
    PROVE  IInv'
  <1>1. /\ UNCHANGED <<signal, rpc, queue, mgr, pkg, left, host, skipped, faults>>
        /\ proc # "down" /\ proc' # "down" /\ proc' \in {"up", "draining", "down"}
        /\ tx' \in BOOLEAN
    BY DEF IInv, ServiceType, Drain, ActorDies, service
  <1>2. ServiceType' /\ DownInv' /\ MailInv'
    BY <1>1, MailUnchanged DEF IInv, ServiceType, DownInv
  <1>3. StoreType' /\ HostType' /\ StoreInv' /\ Stored' = Stored /\ HostInv'
    BY <1>1, StoreUnchanged
  <1>4. MgrType' /\ StageInv' /\ DoneInv'
    BY <1>1, <1>3, AtWork DEF HeadKept, msg, host
  <1> QED
    BY <1>2, <1>3, <1>4 DEF IInv

LEMMA Stutter ==
    ASSUME DaemonConstantsOK, IInv, UNCHANGED vars
    PROVE  IInv'
  <1>1. UNCHANGED <<proc, signal, rpc, queue, mgr, tx, pkg, left, host, skipped, faults>>
    BY DEF vars, service
  <1>2. ServiceType' /\ DownInv' /\ MailInv'
    <2>1. Stored' = Stored
      BY <1>1 DEF Stored
    <2> QED
      BY <1>1, <2>1, MailUnchanged DEF IInv, ServiceType, DownInv
  <1>3. StoreType' /\ HostType' /\ StoreInv' /\ Stored' = Stored /\ HostInv'
    BY <1>1, StoreUnchanged
  <1>4. MgrType' /\ StageInv' /\ DoneInv'
    BY <1>1, <1>3, AtWork DEF HeadKept, msg, host
  <1> QED
    BY <1>2, <1>3, <1>4 DEF IInv

-----------------------------------------------------------------------------
(* The invariant *)

LEMMA InitInv ==
    ASSUME DaemonConstantsOK, Init
    PROVE  IInv
  <1>1. PICK s \in Scenarios :
           /\ faults = s.faults
           /\ file = [n \in Names |-> IF n \in s.bundled THEN 1 ELSE 0]
    BY DEF Init
  <1>2. /\ proc = "down" /\ signal = "waiting" /\ rpc = [c \in Clients |-> NoRpc]
        /\ queue = <<>> /\ mgr = Resting /\ tx = TRUE
        /\ pkg = [n \in Names |-> NoPackage] /\ left = {} /\ skipped = {}
        /\ mount = [n \in Names |-> 0] /\ unit = [n \in Names |-> 0]
    BY DEF Init
  <1>3. faults \subseteq DaemonFaults
    BY <1>1 DEF DaemonConstantsOK
  <1>4. 1 \in Versions
    BY DEF Versions, DaemonConstantsOK
  <1>5. NoRpc \in Rpcs /\ NoRpc.op = "none" /\ NoRpc.names = {} /\ ~NoRpc.waits
    BY <1>4 DEF NoRpc, Rpcs
  <1>6. MailInv
    <2>1. queue \in Seq(Messages) /\ DOMAIN queue = {}
      BY <1>2
    <2> QED
      BY <1>2, <1>5, <2>1 DEF MailInv, MailType, RpcInv, AskInv
  <1>7. Stored = {}
    BY <1>2 DEF Stored
  <1>8. ServiceType /\ StoreType /\ StoreInv /\ DownInv
    BY <1>2, <1>3, <1>7 DEF ServiceType, StoreType, StoreInv, DownInv
  <1>9. HostType
    BY <1>1, <1>2, <1>4 DEF HostType
  <1>10. MgrType /\ StageInv /\ DoneInv
    BY <1>2 DEF MgrType, StageInv, DoneInv, Resting
  <1>11. HostInv
    BY <1>2, <1>7 DEF HostInv, HostOf, MountOf, UnitOf
  <1> QED
    BY <1>6, <1>8, <1>9, <1>10, <1>11 DEF IInv

LEMMA NextInv ==
    ASSUME DaemonConstantsOK, IInv, [Next]_vars
    PROVE  IInv'
  <1>1. CASE Start
    BY <1>1, StartStep
  <1>2. CASE Signalled
    BY <1>2, SignalledStep
  <1>3. CASE Drain \/ ActorDies
    BY <1>3, ServiceStep
  <1>4. CASE Exit \/ Crash
    BY <1>4, EndsStep DEF Exit, Crash
  <1>5. CASE Manager
    BY <1>5, ManagerStep
  <1>6. CASE Package
    BY <1>6, InitializeStep, NoticeStep DEF Package
  <1>7. CASE Leaving
    BY <1>7, LeftStep DEF Leaving
  <1>8. CASE \E c \in Clients : Client(c) \/ Send(c)
    BY <1>8, ClientStep
  <1>9. CASE \E n \in Names : UnitExits(n)
    BY <1>9, ExitsStep
  <1>10. CASE UNCHANGED vars
    BY <1>10, Stutter
  <1> QED
    BY <1>1, <1>2, <1>3, <1>4, <1>5, <1>6, <1>7, <1>8, <1>9, <1>10 DEF Next

LEMMA InvHolds == Spec => []IInv
  <1>1. Init => IInv
    BY InitInv, DaemonConstantsOK
  <1>2. IInv /\ [Next]_vars => IInv'
    BY NextInv, DaemonConstantsOK
  <1> QED
    BY <1>1, <1>2, PTL DEF Spec

-----------------------------------------------------------------------------
(* The theorems *)

\* The daemon, its mailbox, its store and its host are of their types.
THEOREM DaemonTypeCorrect == Spec => []TypeOK
  <1>1. IInv => TypeOK
    BY TypeParts DEF IInv, MailInv
  <1> QED
    BY <1>1, InvHolds, PTL

\* Between two messages, a package that is up and its container are of the version
\* that is installed, whatever was installed, removed, recovered or restarted before:
\* what is mounted as long as no unmount fails, what runs as long as no stop of a unit
\* does either.  Left out are the names of which a package was upgraded or removed
\* before its setup.
THEOREM PackagesRunWhatIsInstalled == Spec => []RunsWhatIsInstalled
  <1>1. IInv => RunsWhatIsInstalled
    <2> SUFFICES ASSUME IInv, NEW n \in Stored \ skipped
                 PROVE  /\ pkg[n].version = file[n]
                        /\ EveryUnmountWorks => mount[n] \in {0, file[n]}
                        /\ EveryStopWorks => unit[n] \in {0, file[n]}
      BY DEF RunsWhatIsInstalled
    <2>1. HostOf(n) /\ (EveryStopWorks => EveryUnmountWorks)
      BY DEF IInv, HostInv, Stored, EveryStopWorks, EveryUnmountWorks, May
    <2>2. EveryUnmountWorks => mount[n] \in {0, file[n]}
      BY <2>1 DEF HostOf, MountOf
    <2>3. EveryStopWorks => unit[n] \in {0, mount[n]}
      BY <2>1 DEF HostOf, UnitOf
    <2> QED
      BY <2>1, <2>2, <2>3 DEF IInv, StoreInv
  <1> QED
    BY <1>1, InvHolds, PTL

\* Nothing is mounted of a name without a package.
LEMMA NothingWithoutPackage ==
    ASSUME IInv, proc # "down", NEW n \in Names \ (Stored \cup skipped)
    PROVE  /\ EveryUnmountWorks => mount[n] = 0
           /\ EveryStopWorks => unit[n] = 0
  <1>1. HostOf(n) /\ (EveryStopWorks => EveryUnmountWorks)
    BY DEF IInv, HostInv, EveryStopWorks, EveryUnmountWorks, May
  <1>2. EveryUnmountWorks => mount[n] = 0
    BY <1>1 DEF HostOf, MountOf
  <1>3. EveryStopWorks => unit[n] \in {0, mount[n]}
    BY <1>1 DEF HostOf, UnitOf
  <1> QED
    BY <1>1, <1>2, <1>3

\* Nothing is mounted and nothing runs of a package that left the store, also of one
\* that was lost with the file it could not be recovered from.  The only packages it
\* does not speak of are those that a removal or an upgrade reached before their
\* setup.
THEOREM NothingIsOrphaned == Spec => []NoOrphan
  <1>1. IInv => NoOrphan
    BY NothingWithoutPackage DEF NoOrphan, Settled
  <1> QED
    BY <1>1, InvHolds, PTL

\* The teardown of a signal, and whatever requests come with it and after it, leave
\* nothing mounted and nothing running of a package that is not in the store, unless
\* it was let go before its setup.
THEOREM NothingIsLeftAtTheEnd == Spec => EndLeavesNothing
  <1>1. IInv /\ [Next]_vars =>
           [Exit => \A n \in Names \ (Stored \cup skipped) :
               /\ EveryUnmountWorks => mount[n] = 0
               /\ EveryStopWorks => unit[n] = 0]_vars
    BY NothingWithoutPackage DEF Exit
  <1> QED
    BY <1>1, InvHolds, PTL DEF Spec, EndLeavesNothing
=============================================================================
