---------------------------- MODULE NetworkActor ----------------------------
(***************************************************************************)
(* The network actor: subnets of the pool for bridges, addresses of a      *)
(* bridge for packages, and the host they are made of, which outlives the  *)
(* daemon.  The actor serves one message at a time, so a handler is one    *)
(* step; packages send theirs in any order among each other, but each      *)
(* package in the order of its own setup, cleanup and teardown.            *)
(*                                                                         *)
(* Addresses are records [sub, host]: the slot of the pool, and the host   *)
(* within it, both counted from 1.  The configured pool is the same at     *)
(* every start, so a prefix never disagrees with the one that was used.    *)
(***************************************************************************)
EXTENDS SlotAllocator

CONSTANTS
    Pkgs,       \* packages in bridge network mode
    Bridges,    \* bridge names
    BridgesOf,  \* BridgesOf[p]: the bridges the versions of p may ask for
    NSub,       \* subnets in the pool
    NHost,      \* usable addresses in a subnet
    FaultSets   \* the sets of calls that may fail together, of NetworkFaults

NetworkFaults == {"netns", "delete", "setup", "stop", "scan", "read", "lookup"}

ASSUME NetworkConstantsOK ==
    /\ "none" \notin Bridges
    /\ BridgesOf \in [Pkgs -> SUBSET Bridges]
    /\ \A p \in Pkgs : BridgesOf[p] # {}
    /\ NSub \in Nat \ {0} /\ NHost \in Nat \ {0}
    /\ FaultSets \subseteq SUBSET NetworkFaults

Subnets == 1..NSub
Hosts   == 1..NHost

Addr(s, h) == [sub |-> s, host |-> h]
NoAddr == Addr(0, 0)
Addrs  == [sub : Subnets, host : Hosts]

\* A bridge the actor tracks: BridgeIpAllocator.  An untracked one has subnet 0.
Tracked(s, held) == [subnet |-> s, held |-> held]
NoBridge == Tracked(0, [p \in Pkgs |-> Free])

VARIABLES
    slots,     \* SubnetAllocator.slots: the subnet of each bridge
    reserved,  \* the subnets its "reserved:..." ids hold
    bridges,   \* NetworkActor.bridges
    links,     \* the bridges that exist on the host
    veth,      \* veth[p]: the bridge the host's veth of p is on, or "none"
    addr,      \* addr[p]: the address at the other end of that veth
    ns,        \* ns[p]: the named namespace: "none", "plain", or "wired" when
               \* the veth's other end is in it
    lost,      \* history: the veths the last start has left on the host though
               \* no namespace of their package's name leads to them
    phase,     \* on_start, step by step, then "up"
    plan,      \* the attachments on_start has yet to claim
    reserves,  \* the addresses it has yet to reserve
    step,      \* step[p]: where p's setup or teardown is
    bridge,    \* bridge[p]: the bridge p's installed version asks for
    run,       \* run[p]: the container of p runs
    faults     \* the calls that may fail in this behaviour

memory == <<slots, reserved, bridges>>
wires  == <<veth, addr, lost>>
host   == <<links, wires, ns>>
start  == <<phase, plan, reserves>>
users  == <<step, bridge, run, faults>>
vars   == <<memory, host, start, users>>

TypeOK ==
    /\ slots \in [Bridges -> Subnets \cup {Free}]
    /\ reserved \subseteq Subnets
    /\ bridges \in [Bridges -> [subnet : Subnets \cup {0},
                                held : [Pkgs -> Hosts \cup {Free}]]]
    /\ links \subseteq Bridges
    /\ veth \in [Pkgs -> Bridges \cup {"none"}]
    /\ addr \in [Pkgs -> Addrs \cup {NoAddr}]
    /\ ns \in [Pkgs -> {"none", "plain", "wired"}]
    /\ lost \subseteq Pkgs
    /\ phase \in {"scan", "claim", "up"}
    /\ plan \subseteq Pkgs /\ reserves \subseteq Pkgs
    /\ step \in [Pkgs -> {"verified", "off", "created", "on", "release",
                        "detached"}]
    /\ bridge \in [Pkgs -> Bridges]
    /\ run \in [Pkgs -> BOOLEAN]
    /\ faults \in FaultSets

Init ==
    /\ slots = [b \in Bridges |-> Free] /\ reserved = {}
    /\ bridges = [b \in Bridges |-> NoBridge]
    /\ links = {}
    /\ veth = [p \in Pkgs |-> "none"] /\ addr = [p \in Pkgs |-> NoAddr]
    /\ ns = [p \in Pkgs |-> "none"] /\ lost = {}
    /\ phase = "scan" /\ plan = {} /\ reserves = {}
    /\ step = [p \in Pkgs |-> "verified"]
    /\ bridge \in {f \in [Pkgs -> Bridges] : \A p \in Pkgs : f[p] \in BridgesOf[p]}
    /\ run = [p \in Pkgs |-> FALSE]
    /\ faults \in FaultSets

-----------------------------------------------------------------------------
(* Helpers *)

\* A call that may fail: its result is one of Outcomes.
Outcomes(fault) == {TRUE} \cup {fault \notin faults}

\* link::delete(veth): the other end and its address go with it.
WithoutVeth(p) ==
    /\ veth' = [veth EXCEPT ![p] = "none"]
    /\ addr' = [addr EXCEPT ![p] = NoAddr]
    /\ ns' = [ns EXCEPT ![p] = IF @ = "wired" THEN "plain" ELSE @]
    /\ lost' = lost \ {p}

\* Bug: an empty table is taken for an unused bridge.
DestroyEmptyBridge(b, table, tracked, present) ==
    /\ slots' = Released(table, b)
    /\ bridges' = [tracked EXCEPT ![b] = NoBridge]
    /\ links' = present \ {b}

\* destroy_bridge, from the tables and the links the handler has come to: a
\* bridge that still has a managed slave keeps its subnet.
DestroyBridge(b, table, tracked, present) ==
    IF \E p \in Pkgs : veth'[p] = b
    THEN slots' = table /\ bridges' = tracked /\ links' = present
    ELSE /\ slots' = Released(table, b)
         /\ bridges' = [tracked EXCEPT ![b] = NoBridge]
         /\ \E ok \in Outcomes("delete") :
               links' = IF ok THEN present \ {b} ELSE present

\* The address of p goes back to its bridge, and the bridge with the last one.
ReleaseAddress(p, b, table, tracked, present) ==
    LET rest == [tracked EXCEPT ![b].held = Released(@, p)]
    IN  IF tracked[b] # NoBridge /\ IsEmpty(rest[b].held)
        THEN DestroyBridge(b, table, rest, present)
        ELSE slots' = table /\ bridges' = rest /\ links' = present

Goto(p, s) == step' = [step EXCEPT ![p] = s] /\ UNCHANGED <<bridge, run, faults>>

-----------------------------------------------------------------------------
(* Handlers *)

\* The first message of setup().  A namespace that exists is kept.
CreateNetns(p) ==
    /\ phase = "up" /\ step[p] \in {"verified", "off"}
    /\ \/ /\ ns' = [ns EXCEPT ![p] = IF @ = "none" THEN "plain" ELSE @]
          /\ Goto(p, "created")
       \/ /\ ns[p] = "none" /\ "netns" \in faults
          /\ Goto(p, "release")
          /\ UNCHANGED ns
    /\ UNCHANGED <<memory, links, wires, start>>

Present(p) == veth[p] # "none" /\ ns[p] # "none"

\* Bug: whatever is there is adopted.
AdoptUnknown(p) ==
    /\ phase = "up" /\ step[p] = "created" /\ Present(p)
    /\ Goto(p, "on")
    /\ UNCHANGED <<memory, host, start>>

\* adopt_existing: a veth and a namespace of p's names are taken for p's network
\* if the actor knows an address for p, and refused if it does not.
Adopt(p) ==
    /\ phase = "up" /\ step[p] = "created" /\ Present(p)
    /\ Goto(p, IF bridges[bridge[p]].held[p] # Free THEN "on" ELSE "release")
    /\ UNCHANGED <<memory, host, start>>

\* Bug: one slot too many, at the end of the pool.
SubnetsAndOne == (1..(NSub + 1)) \ reserved

FreeSubnets == Subnets \ reserved

IsTracked(b) == bridges[b] # NoBridge

\* The pool or the subnet is exhausted.
Exhausted(p, b) ==
    IF IsTracked(b) THEN ~CanAllocate(bridges[b].held, p, Hosts)
                    ELSE ~CanAllocate(slots, b, FreeSubnets)

AttachRefused(p) ==
    /\ phase = "up" /\ step[p] = "created"
    /\ ~Present(p) /\ Exhausted(p, bridge[p])
    /\ Goto(p, "release")
    /\ UNCHANGED <<memory, host, start>>

\* allocate_container_ip: the tables with a subnet for b and an address for p.
SlotsFor(b) == IF IsTracked(b) THEN slots ELSE Allocated(slots, b, FreeSubnets)

BridgesFor(p, b) ==
    LET s == IF IsTracked(b) THEN bridges[b].subnet ELSE SlotsFor(b)[b]
    IN  [bridges EXCEPT ![b] = Tracked(s, Allocated(@.held, p, Hosts))]

AddressFor(p, b) ==
    LET t == BridgesFor(p, b)[b] IN Addr(t.subnet, t.held[p])

\* What netavark has made of p's network, a being the address if it got to it.
Wire(p, b, a) ==
    /\ veth' = [veth EXCEPT ![p] = b]
    /\ addr' = [addr EXCEPT ![p] = a]
    /\ ns' = [ns EXCEPT ![p] = "wired"]
    /\ UNCHANGED lost

CanSetup(p) ==
    /\ phase = "up" /\ step[p] = "created"
    /\ ~Present(p) /\ ~Exhausted(p, bridge[p])

AttachNew(p) ==
    /\ CanSetup(p)
    /\ LET b == bridge[p]
       IN  /\ slots' = SlotsFor(b) /\ bridges' = BridgesFor(p, b)
           /\ links' = links \cup {b}
           /\ Wire(p, b, AddressFor(p, b))
    /\ Goto(p, "on")
    /\ UNCHANGED <<reserved, start>>

\* run_setup fails half-way.  Its veth is deleted, or stays with a warning; the
\* address is released all the same.
AttachFails(p) ==
    /\ CanSetup(p) /\ "setup" \in faults
    /\ LET b == bridge[p]
       IN  /\ \/ UNCHANGED <<wires, ns>>
              \/ /\ "delete" \in faults
                 /\ \E a \in {NoAddr, AddressFor(p, b)} : Wire(p, b, a)
           /\ \E present \in {links, links \cup {b}} :
                 /\ veth'[p] = b => b \in present
                 /\ ReleaseAddress(p, b, SlotsFor(b), BridgesFor(p, b), present)
    /\ Goto(p, "release")
    /\ UNCHANGED <<reserved, start>>

\* Bug: the address is released although the veth could not be deleted.
DetachAnyway(p) ==
    /\ phase = "up"
    /\ \/ step[p] \in {"off", "release"}
       \/ step[p] = "on" /\ (~run[p] \/ "stop" \in faults)
    /\ \/ WithoutVeth(p)
       \/ veth[p] # "none" /\ "delete" \in faults /\ UNCHANGED <<wires, ns>>
    /\ ReleaseAddress(p, bridge[p], slots, bridges, links)
    /\ Goto(p, "detached")
    /\ UNCHANGED <<reserved, start>>

\* A package is detached after a failed setup, at its teardown, when its
\* container was told to stop, and again when it is removed in Error.
Detach(p) ==
    /\ phase = "up"
    /\ \/ step[p] \in {"off", "release"}
       \/ step[p] = "on" /\ (~run[p] \/ "stop" \in faults)
    /\ \/ /\ WithoutVeth(p)
          /\ ReleaseAddress(p, bridge[p], slots, bridges, links)
       \/ /\ veth[p] # "none" /\ "delete" \in faults
          /\ UNCHANGED <<slots, bridges, host>>
    /\ Goto(p, "detached")
    /\ UNCHANGED <<reserved, start>>

\* The name goes.  The namespace and a veth in it live on as long as something
\* holds them.
DestroyNetns(p) ==
    /\ phase = "up" /\ step[p] = "detached"
    /\ \/ ns' = [ns EXCEPT ![p] = "none"]
       \/ ns[p] # "none" /\ "netns" \in faults /\ UNCHANGED ns
    /\ Goto(p, "off")
    /\ UNCHANGED <<memory, links, wires, start>>

-----------------------------------------------------------------------------
(* The host and the packages *)

\* The kernel gets round to a namespace nobody holds any more.
NamespaceDies(p) ==
    /\ veth[p] # "none" /\ ns[p] # "wired" /\ ~run[p]
    /\ WithoutVeth(p)
    /\ UNCHANGED <<memory, links, start, users>>

StartContainer(p) ==
    /\ phase = "up" /\ step[p] = "on" /\ ~run[p]
    /\ run' = [run EXCEPT ![p] = TRUE]
    /\ UNCHANGED <<memory, host, start, step, bridge, faults>>

StopContainer(p) ==
    /\ run[p]
    /\ run' = [run EXCEPT ![p] = FALSE]
    /\ UNCHANGED <<memory, host, start, step, bridge, faults>>

\* Another version is installed: after a teardown, or, of a package that is
\* still Verified, without one.
Upgrade(p) ==
    /\ phase = "up" /\ step[p] \in {"verified", "off"}
    /\ \E b \in BridgesOf[p] : bridge' = [bridge EXCEPT ![p] = b]
    /\ step' = [step EXCEPT ![p] = "verified"]
    /\ UNCHANGED <<memory, host, start, run, faults>>

-----------------------------------------------------------------------------
(* Start of the daemon *)

\* The daemon is gone, and what it knew.
Dies ==
    /\ slots' = [b \in Bridges |-> Free] /\ reserved' = {}
    /\ bridges' = [b \in Bridges |-> NoBridge]
    /\ phase' = "scan" /\ plan' = {} /\ reserves' = {}
    /\ step' = [p \in Pkgs |-> "verified"]
    /\ UNCHANGED <<bridge, run, faults>>

Crash == phase # "scan" /\ Dies /\ UNCHANGED host

\* The daemon dies while netavark is at work.
CrashInSetup(p) ==
    /\ CanSetup(p)
    /\ links' = links \cup {bridge[p]}
    /\ \E a \in {NoAddr, AddressFor(p, bridge[p])} : Wire(p, bridge[p], a)
    /\ Dies

\* The namespaces in which an address of the pool is found.
Found == {p \in Pkgs : ns[p] = "wired" /\ addr[p] # NoAddr}

\* collect_restore_plan.  An entry whose namespace cannot be read is skipped; one
\* whose master cannot be looked up is to be reserved.
Scan ==
    /\ phase = "scan"
    /\ \E skipped \in SUBSET Found, unknown \in SUBSET Found :
          /\ skipped = {} \/ "read" \in faults \/ ("scan" \in faults /\ skipped = Found)
          /\ unknown = {} \/ "lookup" \in faults
          /\ reserves' = unknown \ skipped
          /\ plan' = Found \ (skipped \cup unknown)
    /\ phase' = "claim"
    /\ UNCHANGED <<memory, host, users>>

\* claim_restored_attach, in the order of the directory.
ClaimAttach(p) ==
    /\ phase = "claim" /\ p \in plan
    /\ LET b == veth[p]
           s == addr[p].sub
           state == IF IsTracked(b) THEN bridges[b] ELSE Tracked(s, NoBridge.held)
           usable == s = state.subnet /\ CanClaim(state.held, p, addr[p].host)
       IN  IF CanClaim(slots, b, s)
           THEN /\ slots' = Claimed(slots, b, s)
                /\ bridges' = [bridges EXCEPT ![b] =
                       IF usable
                       THEN [state EXCEPT !.held = Claimed(@, p, addr[p].host)]
                       ELSE state]
           ELSE UNCHANGED <<slots, bridges>>
    /\ plan' = plan \ {p}
    /\ UNCHANGED <<reserved, host, phase, reserves, users>>

\* reserve_containing: the whole subnet, if no bridge has claimed it.
Reserve(p) ==
    /\ phase = "claim" /\ plan = {} /\ p \in reserves
    /\ reserved' = reserved \cup
           (IF \A b \in Bridges : slots[b] # addr[p].sub THEN {addr[p].sub} ELSE {})
    /\ reserves' = reserves \ {p}
    /\ UNCHANGED <<slots, bridges, host, phase, plan, users>>

\* cleanup_orphans: the veths without a namespace, then the bridges without one
\* of them.
CleanupOrphans ==
    /\ phase = "claim" /\ plan = {} /\ reserves = {}
    /\ LET orphans == {p \in Pkgs : veth[p] # "none" /\ ns[p] = "none"}
       IN  \E kept \in SUBSET orphans :
              /\ kept = {} \/ "delete" \in faults
              /\ veth' = [p \in Pkgs |->
                     IF p \in orphans \ kept THEN "none" ELSE veth[p]]
              /\ addr' = [p \in Pkgs |->
                     IF p \in orphans \ kept THEN NoAddr ELSE addr[p]]
    /\ lost' = {p \in Pkgs : veth'[p] # "none" /\ ns[p] # "wired"}
    /\ LET used == {b \in links : \E p \in Pkgs : veth'[p] = b}
       IN  /\ links' \in SUBSET links /\ used \subseteq links'
           /\ links' = used \/ "delete" \in faults
    /\ phase' = "up"
    /\ UNCHANGED <<memory, ns, plan, reserves, users>>

-----------------------------------------------------------------------------

Next ==
    \/ \E p \in Pkgs :
          \/ CreateNetns(p) \/ Adopt(p) \/ AttachRefused(p) \/ AttachNew(p)
          \/ AttachFails(p) \/ Detach(p) \/ DestroyNetns(p)
          \/ NamespaceDies(p) \/ StartContainer(p) \/ StopContainer(p)
          \/ Upgrade(p) \/ CrashInSetup(p) \/ ClaimAttach(p) \/ Reserve(p)
    \/ Crash \/ Scan \/ CleanupOrphans

Spec == Init /\ [][Next]_vars

-----------------------------------------------------------------------------
(* Safety *)

\* The start has seen every namespace and every link of the host.
SeesAll == faults \cap {"scan", "read", "lookup"} = {}

\* No setup fails half-way on a host that then refuses to delete its veth.
UndoesSetups == ~({"setup", "delete"} \subseteq faults)

\* The packages with an address on the host, also those whose namespace has lost
\* its name with the veth still in it.  Left out are the veths a restart did not
\* find: a detach could not delete the veth, the name was destroyed all the same,
\* and cleanup_orphans has kept it.  The start restores what it finds by name, so
\* the code gives their subnet and address out again.
Live == {p \in Pkgs : addr[p] # NoAddr} \ lost

\* "Guarantees no two running packages share an address" (allocator.rs): however
\* setups, failed detaches, upgrades and restarts of the daemon follow each
\* other, two packages never have the same one.  It is not so for a veth that
\* outlived its detach, its name and the daemon (see Live).
NoSharedAddress ==
    SeesAll /\ UndoesSetups =>
        \A p, q \in Live : addr[p] = addr[q] => p = q

\* A bridge with a package's address on it keeps its subnet, a package whose
\* detach failed included: "freeing it could reissue a live bridge's subnet"
\* (destroy_bridge).  Across a restart it keeps it for every package the start
\* finds by its namespace's name (see Live).
SlaveKeepsSubnet ==
    SeesAll /\ phase = "up" => \A p \in Live : slots[veth[p]] = addr[p].sub

Attached(p) == phase = "up" /\ step[p] = "on"

\* An attach that was answered Ok has given the package's namespace the address
\* the actor has written down for it, an adopted one too.
AttachedHasNetwork ==
    "delete" \notin faults =>
        \A p \in Pkgs : Attached(p) =>
            /\ ns[p] = "wired" /\ veth[p] = bridge[p]
            /\ addr[p] = Addr(bridges[bridge[p]].subnet, bridges[bridge[p]].held[p])
=============================================================================
