------------------------- MODULE NetworkActorProofs -------------------------
(***************************************************************************)
(* What holds of the allocator and of NetworkActor for every value of the  *)
(* constants.                                                              *)
(***************************************************************************)
EXTENDS NetworkActor, WellFoundedInduction, TLAPS

-----------------------------------------------------------------------------
(* The inductive invariant *)

\* What the types of single variables do not say.
ShapeInv ==
    /\ TypeOK
    /\ \A b \in Bridges : bridges[b].subnet = 0 => bridges[b] = NoBridge
    /\ \A p \in Pkgs : ns[p] = "wired" => veth[p] # "none"
    /\ \A p \in Pkgs : addr[p] # NoAddr => veth[p] # "none"
    /\ \A p \in lost : veth[p] # "none" /\ ns[p] # "wired"
    /\ \A p \in Pkgs : step[p] = "created" => ns[p] # "none"
    /\ plan \subseteq Found /\ reserves \subseteq Found
    /\ phase # "claim" => plan = {} /\ reserves = {}
    /\ phase = "scan" => /\ bridges = [b \in Bridges |-> NoBridge]
                         /\ slots = [b \in Bridges |-> Free]
    /\ phase # "up" => step = [p \in Pkgs |-> "verified"]

\* The addresses on the host the tables know of.
Restored == CASE phase = "scan"  -> {}
              [] phase = "claim" -> Found \ plan
              [] OTHER           -> Live

\* Bridges and subnets: on the host and in the tables, a bridge has one subnet
\* and a subnet one bridge, and the tables hold what the host shows.
SubnetInv ==
    /\ reserves = {} /\ reserved = {}
    /\ Distinct(slots)
    /\ \A b \in Bridges : bridges[b].subnet = slots[b]
    /\ \A p, q \in Live : veth[p] = veth[q] <=> addr[p].sub = addr[q].sub
    /\ \A p \in Restored : slots[veth[p]] = addr[p].sub
    /\ phase = "claim" =>
           \A b \in Bridges : slots[b] # Free =>
               \E p \in Found : veth[p] = b /\ addr[p].sub = slots[b]

\* Addresses likewise.
AddressInv ==
    /\ \A b \in Bridges : Distinct(bridges[b].held)
    /\ \A p, q \in Live : addr[p] = addr[q] => p = q
    /\ \A p \in Restored : bridges[veth[p]].held[p] = addr[p].host
    /\ phase = "claim" =>
           \A b \in Bridges, p \in Pkgs : bridges[b].held[p] # Free =>
               p \in Found /\ veth[p] = b /\ addr[p].host = bridges[b].held[p]

\* p's network is the one that the table of b has for it.
NetworkOn(p, b) ==
    /\ ns[p] = "wired" /\ veth[p] = b
    /\ addr[p] = Addr(bridges[b].subnet, bridges[b].held[p])

\* What an attach of p may adopt, if every link that is to go does go.
AdoptOf(p) ==
    /\ veth[p] # "none" => ns[p] = "wired"
    /\ step[p] \in {"off", "detached"} => veth[p] = "none"
    /\ step[p] \in {"verified", "created"} /\ veth[p] # "none" =>
           \A b \in Bridges : bridges[b].held[p] # Free => NetworkOn(p, b)
    /\ step[p] = "on" => /\ NetworkOn(p, bridge[p])
                         /\ bridges[bridge[p]].held[p] # Free

AdoptInv == \A p \in Pkgs : AdoptOf(p)

IInv ==
    /\ ShapeInv
    /\ SeesAll => SubnetInv
    /\ SeesAll /\ UndoesSetups => AddressInv
    /\ "delete" \notin faults => AdoptInv

-----------------------------------------------------------------------------
(* The allocator *)

\* The lowest key of a set is one of it: the search of allocate ends.
LEMMA LowestIsOne ==
  ASSUME NEW keys \in SUBSET Nat, keys # {}
  PROVE  Lowest(keys) \in keys
<1>1. \E least \in keys : \A k \in keys : ~(<<k, least>> \in OpToRel(<, Nat))
  BY WFMin, NatLessThanWellFounded, Zenon
<1>2. \E least \in keys : \A k \in keys : ~(k < least)
  <2>1. \A k, n \in keys : k < n => <<k, n>> \in OpToRel(<, Nat)
    BY Zenon DEF OpToRel
  <2>. QED BY <1>1, <2>1, Zenon
<1>3. \E least \in keys : \A k \in keys : least <= k
  BY <1>2
<1>. QED BY <1>3 DEF Lowest

\* allocate gives the id a key of the range, takes none from another id and
\* keeps the keys distinct.
LEMMA AllocatedEffect ==
  ASSUME NEW ids, NEW held \in [ids -> Nat], NEW id \in ids,
         NEW keys \in SUBSET (Nat \ {0}), CanAllocate(held, id, keys)
  PROVE  LET given == Allocated(held, id, keys)
         IN  /\ given \in [ids -> Nat]
             /\ given[id] # Free
             /\ given[id] \in keys \cup {held[id]}
             /\ \A other \in ids \ {id} : given[other] = held[other]
             /\ Distinct(held) => Distinct(given)
<1>1. CASE held[id] # Free
  BY <1>1 DEF Allocated, Free
<1>2. CASE held[id] = Free
  <2>1. Unheld(held, keys) # {} /\ Unheld(held, keys) \in SUBSET Nat
    BY <1>2 DEF CanAllocate, Unheld
  <2>2. Lowest(Unheld(held, keys)) \in Unheld(held, keys)
    BY <2>1, LowestIsOne
  <2>. DEFINE low == Lowest(Unheld(held, keys))
  <2>3. low \in keys /\ \A other \in ids : held[other] # low
    BY <2>2 DEF Unheld
  <2>4. Allocated(held, id, keys) = [held EXCEPT ![id] = low]
    BY <1>2 DEF Allocated
  <2>. HIDE DEF low
  <2>. QED BY <2>3, <2>4 DEF Distinct, Free
<1>. QED BY <1>1, <1>2

-----------------------------------------------------------------------------
(* What the handlers do to the tables *)

BridgeTable == [Bridges -> [subnet : Subnets \cup {0},
                            held : [Pkgs -> Hosts \cup {Free}]]]
SubnetTable == [Bridges -> Subnets \cup {Free}]

\* The tables after the address of p has gone back to b.
LEMMA ReleaseEffect ==
  ASSUME NEW p \in Pkgs, NEW b \in Bridges,
         NEW table \in SubnetTable, NEW tracked \in BridgeTable,
         NEW present \in SUBSET Bridges,
         ReleaseAddress(p, b, table, tracked, present)
  PROVE  /\ slots' \in SubnetTable /\ bridges' \in BridgeTable
         /\ links' \subseteq Bridges
         /\ \A c \in Bridges \ {b} : slots'[c] = table[c] /\ bridges'[c] = tracked[c]
         /\ \A q \in Pkgs \ {p} : bridges'[b].held[q] = tracked[b].held[q]
         /\ bridges'[b].held[p] = Free
         /\ \/ slots'[b] = table[b] /\ bridges'[b].subnet = tracked[b].subnet
            \/ /\ slots'[b] = Free /\ bridges'[b] = NoBridge
               /\ \A q \in Pkgs : veth'[q] # b
               /\ \A q \in Pkgs \ {p} : tracked[b].held[q] = Free
<1>. DEFINE rest == [tracked EXCEPT ![b].held = Released(@, p)]
<1>1. /\ rest \in BridgeTable
      /\ \A c \in Bridges \ {b} : rest[c] = tracked[c]
      /\ rest[b].subnet = tracked[b].subnet
      /\ \A q \in Pkgs \ {p} : rest[b].held[q] = tracked[b].held[q]
      /\ rest[b].held[p] = Free
  BY DEF BridgeTable, Released, Free
<1>2. NoBridge \in [subnet : Subnets \cup {0}, held : [Pkgs -> Hosts \cup {Free}]]
      /\ NoBridge.held = [q \in Pkgs |-> Free]
  BY DEF NoBridge, Tracked
<1>3. CASE tracked[b] # NoBridge /\ IsEmpty(rest[b].held)
  <2>1. DestroyBridge(b, table, rest, present)
    BY <1>3 DEF ReleaseAddress
  <2>2. CASE \E q \in Pkgs : veth'[q] = b
    <3>1. slots' = table /\ bridges' = rest /\ links' = present
      BY <2>1, <2>2 DEF DestroyBridge
    <3>. HIDE DEF rest
    <3>. QED BY <3>1, <1>1
  <2>3. CASE ~ \E q \in Pkgs : veth'[q] = b
    <3>1. /\ slots' = [table EXCEPT ![b] = Free]
          /\ bridges' = [rest EXCEPT ![b] = NoBridge]
          /\ links' \subseteq Bridges
      BY <2>1, <2>3 DEF DestroyBridge, Released
    <3>2. \A q \in Pkgs : rest[b].held[q] = Free
      BY <1>1, <1>3 DEF IsEmpty, BridgeTable
    <3>. HIDE DEF rest
    <3>3. slots' \in SubnetTable /\ bridges' \in BridgeTable
      BY <3>1, <1>1, <1>2 DEF SubnetTable, BridgeTable
    <3>4. slots'[b] = Free /\ bridges'[b] = NoBridge
      BY <3>1, <1>1 DEF SubnetTable, BridgeTable
    <3>5. \A c \in Bridges \ {b} : slots'[c] = table[c] /\ bridges'[c] = tracked[c]
      BY <3>1, <1>1 DEF SubnetTable, BridgeTable
    <3>. QED BY <3>1, <3>2, <3>3, <3>4, <3>5, <1>1, <1>2, <2>3
  <2>. QED BY <2>2, <2>3
<1>4. CASE ~(tracked[b] # NoBridge /\ IsEmpty(rest[b].held))
  <2>1. slots' = table /\ bridges' = rest /\ links' = present
    BY <1>4 DEF ReleaseAddress
  <2>. HIDE DEF rest
  <2>. QED BY <2>1, <1>1
<1>. QED BY <1>3, <1>4

\* The tables after an address for p on b has been allocated.
LEMMA AttachEffect ==
  ASSUME ShapeInv, NEW p \in Pkgs, NEW b \in Bridges, ~Exhausted(p, b)
  PROVE  LET table == SlotsFor(b)
             tracked == BridgesFor(p, b)
         IN  /\ table \in SubnetTable /\ tracked \in BridgeTable
             /\ \A c \in Bridges \ {b} : table[c] = slots[c] /\ tracked[c] = bridges[c]
             /\ tracked[b].subnet \in Subnets
             /\ tracked[b].held[p] \in Hosts
             /\ \A q \in Pkgs \ {p} : tracked[b].held[q] = bridges[b].held[q]
             /\ Distinct(bridges[b].held) => Distinct(tracked[b].held)
             /\ Distinct(slots) => Distinct(table)
             /\ AddressFor(p, b) = Addr(tracked[b].subnet, tracked[b].held[p])
             /\ IF IsTracked(b)
                THEN table = slots /\ tracked[b].subnet = bridges[b].subnet
                ELSE table[b] = tracked[b].subnet
                     /\ \A q \in Pkgs : bridges[b].held[q] = Free
<1>. DEFINE table == SlotsFor(b)
            tracked == BridgesFor(p, b)
            held == bridges[b].held
            s == IF IsTracked(b) THEN bridges[b].subnet ELSE table[b]
<1>1. /\ slots \in SubnetTable /\ bridges \in BridgeTable
      /\ reserved \subseteq Subnets
  BY DEF ShapeInv, TypeOK, SubnetTable, BridgeTable
<1>2. /\ held \in [Pkgs -> Nat] /\ held \in [Pkgs -> Hosts \cup {Free}]
      /\ slots \in [Bridges -> Nat]
  BY <1>1, NetworkConstantsOK DEF BridgeTable, SubnetTable, Hosts, Subnets, Free
<1>3. /\ FreeSubnets \in SUBSET (Nat \ {0}) /\ Hosts \in SUBSET (Nat \ {0})
      /\ FreeSubnets \subseteq Subnets /\ Free \notin Subnets /\ Free \notin Hosts
  BY NetworkConstantsOK DEF FreeSubnets, Hosts, Subnets, Free
<1>4. /\ table \in SubnetTable
      /\ \A c \in Bridges \ {b} : table[c] = slots[c]
      /\ Distinct(slots) => Distinct(table)
      /\ IsTracked(b) => table = slots
      /\ ~IsTracked(b) => table[b] \in Subnets
  <2>1. CASE IsTracked(b)
    BY <2>1, <1>1 DEF SlotsFor
  <2>2. CASE ~IsTracked(b)
    <3>1. CanAllocate(slots, b, FreeSubnets)
      BY <2>2 DEF Exhausted
    <3>2. LET given == Allocated(slots, b, FreeSubnets)
          IN  /\ given \in [Bridges -> Nat]
              /\ given[b] # Free
              /\ given[b] \in FreeSubnets \cup {slots[b]}
              /\ \A c \in Bridges \ {b} : given[c] = slots[c]
              /\ Distinct(slots) => Distinct(given)
      BY <3>1, <1>2, <1>3, AllocatedEffect
    <3>3. table = Allocated(slots, b, FreeSubnets)
      BY <2>2 DEF SlotsFor
    <3>4. table[b] \in Subnets
      BY <3>2, <3>3, <1>1, <1>3 DEF SubnetTable
    <3>5. table \in SubnetTable
      BY <3>2, <3>3, <3>4, <1>1 DEF SubnetTable
    <3>. QED BY <2>2, <3>2, <3>3, <3>4, <3>5
  <2>. QED BY <2>1, <2>2
<1>5. s \in Subnets
  BY <1>1, <1>4 DEF ShapeInv, IsTracked, BridgeTable
<1>6. CanAllocate(held, p, Hosts)
  <2>1. CASE IsTracked(b)
    BY <2>1 DEF Exhausted
  <2>2. CASE ~IsTracked(b)
    <3>1. \A q \in Pkgs : held[q] = Free
      BY <2>2 DEF IsTracked, NoBridge, Tracked
    <3>2. 1 \in Hosts /\ DOMAIN held = Pkgs /\ Free # 1
      BY <1>2, NetworkConstantsOK DEF Hosts, Free
    <3>. QED BY <3>1, <3>2 DEF CanAllocate, Unheld
  <2>. QED BY <2>1, <2>2
<1>7. LET given == Allocated(held, p, Hosts)
      IN  /\ given \in [Pkgs -> Nat]
          /\ given[p] # Free
          /\ given[p] \in Hosts \cup {held[p]}
          /\ \A q \in Pkgs \ {p} : given[q] = held[q]
          /\ Distinct(held) => Distinct(given)
  BY <1>2, <1>3, <1>6, AllocatedEffect
<1>8. tracked = [bridges EXCEPT ![b] = [subnet |-> s, held |-> Allocated(held, p, Hosts)]]
  BY <1>1 DEF BridgesFor, Tracked, BridgeTable
<1>9. Allocated(held, p, Hosts) \in [Pkgs -> Hosts \cup {Free}]
      /\ Allocated(held, p, Hosts)[p] \in Hosts
  BY <1>2, <1>7
<1>10. /\ tracked[b].subnet = s /\ tracked[b].held = Allocated(held, p, Hosts)
       /\ \A c \in Bridges \ {b} : tracked[c] = bridges[c]
  BY <1>1, <1>8 DEF BridgeTable
<1>11. tracked \in BridgeTable
  BY <1>1, <1>5, <1>8, <1>9 DEF BridgeTable
<1>12. AddressFor(p, b) = Addr(tracked[b].subnet, tracked[b].held[p])
  BY DEF AddressFor
<1>13. ~IsTracked(b) => \A q \in Pkgs : bridges[b].held[q] = Free
  BY DEF IsTracked, NoBridge, Tracked
<1>. HIDE DEF table, tracked
<1>14. IF IsTracked(b) THEN table = slots /\ tracked[b].subnet = bridges[b].subnet
       ELSE table[b] = tracked[b].subnet /\ \A q \in Pkgs : bridges[b].held[q] = Free
  BY <1>4, <1>10, <1>13
<1>15. /\ tracked[b].subnet \in Subnets /\ tracked[b].held[p] \in Hosts
       /\ \A q \in Pkgs \ {p} : tracked[b].held[q] = bridges[b].held[q]
       /\ Distinct(bridges[b].held) => Distinct(tracked[b].held)
  BY <1>5, <1>7, <1>9, <1>10
<1>. QED BY <1>4, <1>10, <1>11, <1>12, <1>14, <1>15 DEF table, tracked

-----------------------------------------------------------------------------
(* Types *)

\* What may fail is settled at the start.
LEMMA FaultsKept ==
  ASSUME [Next]_vars PROVE faults' = faults
BY DEF Next, vars, memory, host, start, users, Goto, CreateNetns, Adopt,
       AttachRefused, AttachNew, AttachFails, Detach, DestroyNetns, NamespaceDies,
       StartContainer, StopContainer, Upgrade, CrashInSetup, ClaimAttach, Reserve,
       Crash, Dies, Scan, CleanupOrphans

LEMMA ShapeInit == Init => ShapeInv
BY NetworkConstantsOK DEF Init, ShapeInv, TypeOK, NoBridge, Tracked, Found, Addrs, NoAddr,
       Addr, Hosts, Subnets, Free

\* Steps of a handler that change no more than the place of its package.
LEMMA ShapeOnlyUsers ==
  ASSUME ShapeInv, UNCHANGED <<memory, host, start, faults>>,
         step' \in [Pkgs -> {"verified", "off", "created", "on", "release", "detached"}],
         phase = "up" \/ UNCHANGED step,
         \A q \in Pkgs : step'[q] = "created" => step[q] = "created",
         bridge' \in [Pkgs -> Bridges], run' \in [Pkgs -> BOOLEAN]
  PROVE  ShapeInv'
<1>. USE DEF memory, host, wires, start
<1>1. Found' = Found
  BY DEF Found
<1>2. TypeOK'
  BY DEF ShapeInv, TypeOK
<1>. QED BY <1>1, <1>2 DEF ShapeInv

LEMMA GotoKeeps ==
  ASSUME TypeOK, NEW p \in Pkgs,
         NEW s \in {"verified", "off", "created", "on", "release", "detached"},
         Goto(p, s)
  PROVE  /\ step' \in [Pkgs -> {"verified", "off", "created", "on", "release", "detached"}]
         /\ step'[p] = s /\ \A q \in Pkgs \ {p} : step'[q] = step[q]
         /\ UNCHANGED <<bridge, run, faults>>
         /\ bridge' \in [Pkgs -> Bridges] /\ run' \in [Pkgs -> BOOLEAN]
         /\ faults' \in FaultSets
BY DEF Goto, TypeOK

LEMMA NewLinkShape ==
  ASSUME ShapeInv, NEW p \in Pkgs, NEW b \in Bridges, NEW a \in Addrs \cup {NoAddr},
         Wire(p, b, a)
  PROVE  /\ veth' \in [Pkgs -> Bridges \cup {"none"}]
         /\ addr' \in [Pkgs -> Addrs \cup {NoAddr}]
         /\ ns' \in [Pkgs -> {"none", "plain", "wired"}]
         /\ veth'[p] = b /\ addr'[p] = a /\ ns'[p] = "wired"
         /\ \A q \in Pkgs \ {p} : /\ veth'[q] = veth[q] /\ addr'[q] = addr[q]
                                  /\ ns'[q] = ns[q]
         /\ \A q \in Pkgs : ns'[q] = "wired" => veth'[q] # "none"
         /\ \A q \in Pkgs : addr'[q] # NoAddr => veth'[q] # "none"
         /\ veth[p] = "none" => \A q \in lost' : veth'[q] # "none" /\ ns'[q] # "wired"
         /\ lost' = lost
<1>1. veth' \in [Pkgs -> Bridges \cup {"none"}] /\ veth'[p] = b
      /\ \A q \in Pkgs \ {p} : veth'[q] = veth[q]
  BY DEF ShapeInv, TypeOK, Wire
<1>2. addr' \in [Pkgs -> Addrs \cup {NoAddr}] /\ addr'[p] = a
      /\ \A q \in Pkgs \ {p} : addr'[q] = addr[q]
  BY DEF ShapeInv, TypeOK, Wire
<1>3. ns' \in [Pkgs -> {"none", "plain", "wired"}] /\ ns'[p] = "wired"
      /\ \A q \in Pkgs \ {p} : ns'[q] = ns[q]
  BY DEF ShapeInv, TypeOK, Wire
<1>4. lost' = lost /\ lost \subseteq Pkgs
  BY DEF ShapeInv, TypeOK, Wire
<1>5. veth[p] = "none" => \A q \in lost' : veth'[q] # "none" /\ ns'[q] # "wired"
  BY <1>1, <1>3, <1>4 DEF ShapeInv
<1>. QED BY <1>1, <1>2, <1>3, <1>4, <1>5, NetworkConstantsOK DEF ShapeInv

\* A package that is to be set up, and not adopted, has no veth.
LEMMA NoVethYet ==
  ASSUME ShapeInv, NEW p \in Pkgs, step[p] = "created", ~Present(p)
  PROVE  veth[p] = "none" /\ p \notin Live /\ p \notin lost
BY DEF ShapeInv, Present, Live

LEMMA WithoutVethShape ==
  ASSUME ShapeInv, NEW p \in Pkgs, WithoutVeth(p)
  PROVE  /\ veth' \in [Pkgs -> Bridges \cup {"none"}]
         /\ addr' \in [Pkgs -> Addrs \cup {NoAddr}]
         /\ ns' \in [Pkgs -> {"none", "plain", "wired"}]
         /\ veth'[p] = "none" /\ addr'[p] = NoAddr /\ ns'[p] # "wired"
         /\ \A q \in Pkgs \ {p} : /\ veth'[q] = veth[q] /\ addr'[q] = addr[q]
                                  /\ ns'[q] = ns[q]
         /\ \A q \in Pkgs : ns'[q] = "wired" => veth'[q] # "none"
         /\ \A q \in Pkgs : addr'[q] # NoAddr => veth'[q] # "none"
         /\ \A q \in Pkgs : ns[q] # "none" => ns'[q] # "none"
         /\ \A q \in lost' : veth'[q] # "none" /\ ns'[q] # "wired"
         /\ lost' \subseteq Pkgs
         /\ Found' = Found \ {p} /\ Live' = Live \ {p}
<1>1. veth' \in [Pkgs -> Bridges \cup {"none"}] /\ veth'[p] = "none"
      /\ \A q \in Pkgs \ {p} : veth'[q] = veth[q]
  BY DEF ShapeInv, TypeOK, WithoutVeth
<1>2. addr' \in [Pkgs -> Addrs \cup {NoAddr}] /\ addr'[p] = NoAddr
      /\ \A q \in Pkgs \ {p} : addr'[q] = addr[q]
  BY DEF ShapeInv, TypeOK, WithoutVeth
<1>3. /\ ns' \in [Pkgs -> {"none", "plain", "wired"}] /\ ns'[p] # "wired"
      /\ ns[p] # "none" => ns'[p] # "none"
      /\ \A q \in Pkgs \ {p} : ns'[q] = ns[q]
  BY DEF ShapeInv, TypeOK, WithoutVeth
<1>4. lost' = lost \ {p} /\ lost \subseteq Pkgs
  BY DEF ShapeInv, TypeOK, WithoutVeth
<1>5. Found' = Found \ {p} /\ Live' = Live \ {p}
  BY <1>2, <1>3, <1>4 DEF Found, Live
<1>6. \A q \in lost' : veth'[q] # "none" /\ ns'[q] # "wired"
  BY <1>1, <1>3, <1>4 DEF ShapeInv
<1>. QED BY <1>1, <1>2, <1>3, <1>4, <1>5, <1>6, NetworkConstantsOK DEF ShapeInv

\* A bridge without a subnet has no addresses.
NoSubnetNoAddress(tracked) ==
    \A b \in Bridges : tracked[b].subnet = 0 => tracked[b] = NoBridge

LEMMA ReleaseShape ==
  ASSUME NEW p \in Pkgs, NEW b \in Bridges,
         NEW table \in SubnetTable, NEW tracked \in BridgeTable,
         NEW present \in SUBSET Bridges, NoSubnetNoAddress(tracked),
         ReleaseAddress(p, b, table, tracked, present)
  PROVE  NoSubnetNoAddress(bridges')
<1>. USE ReleaseEffect DEF NoSubnetNoAddress
<1>1. \A c \in Bridges \ {b} : bridges'[c] = tracked[c]
  OBVIOUS
<1>2. bridges'[b].subnet = 0 => bridges'[b] = NoBridge
  <2>1. CASE bridges'[b] = NoBridge
    BY <2>1
  <2>2. CASE bridges'[b].subnet = tracked[b].subnet
    <3>. SUFFICES ASSUME tracked[b].subnet = 0 PROVE bridges'[b] = NoBridge
      BY <2>2
    <3>1. tracked[b] = NoBridge
      OBVIOUS
    <3>2. bridges'[b].held \in [Pkgs -> Hosts \cup {Free}]
          /\ bridges'[b] \in [subnet : Subnets \cup {0}, held : [Pkgs -> Hosts \cup {Free}]]
      BY DEF BridgeTable
    <3>3. \A q \in Pkgs : bridges'[b].held[q] = Free
      BY <3>1 DEF NoBridge, Tracked
    <3>4. bridges'[b].held = [q \in Pkgs |-> Free]
      BY <3>2, <3>3
    <3>. QED BY <2>2, <3>2, <3>4 DEF NoBridge, Tracked
  <2>. QED BY <2>1, <2>2
<1>. QED BY <1>1, <1>2

\* An attach and the release that takes it back, for both parts of the invariant.
LEMMA AttachFailsTables ==
  ASSUME ShapeInv, NEW p \in Pkgs, AttachFails(p)
  PROVE  LET b == bridge[p]
         IN  /\ b \in Bridges /\ ~Exhausted(p, b)
             /\ \E present \in SUBSET Bridges :
                    ReleaseAddress(p, b, SlotsFor(b), BridgesFor(p, b), present)
BY DEF AttachFails, CanSetup, ShapeInv, TypeOK

LEMMA AttachedShape ==
  ASSUME ShapeInv, NEW p \in Pkgs, NEW b \in Bridges, ~Exhausted(p, b)
  PROVE  /\ NoSubnetNoAddress(BridgesFor(p, b))
         /\ AddressFor(p, b) \in Addrs /\ AddressFor(p, b) # NoAddr
<1>1. Free \notin Subnets /\ 0 \notin Subnets
  BY DEF Free, Subnets
<1>2. NoSubnetNoAddress(bridges)
  BY DEF ShapeInv, NoSubnetNoAddress
<1>. QED BY <1>1, <1>2, AttachEffect DEF NoSubnetNoAddress, Addr, Addrs, NoAddr

LEMMA ShapeAttachNew ==
  ASSUME ShapeInv, NEW p \in Pkgs, AttachNew(p)
  PROVE  ShapeInv'
<1>. DEFINE b == bridge[p]
<1>1. b \in Bridges /\ ~Exhausted(p, b) /\ phase = "up" /\ veth[p] = "none"
  BY NoVethYet DEF AttachNew, CanSetup, ShapeInv, TypeOK
<1>2. /\ slots' = SlotsFor(b) /\ bridges' = BridgesFor(p, b)
      /\ links' = links \cup {b} /\ Wire(p, b, AddressFor(p, b))
      /\ Goto(p, "on") /\ UNCHANGED <<reserved, start>>
  BY DEF AttachNew
<1>. HIDE DEF b
<1>3. slots' \in SubnetTable /\ bridges' \in BridgeTable
  BY <1>1, <1>2, AttachEffect
<1>4. NoSubnetNoAddress(bridges') /\ AddressFor(p, b) \in Addrs
  BY <1>1, <1>2, AttachedShape
<1>5. /\ veth' \in [Pkgs -> Bridges \cup {"none"}]
      /\ addr' \in [Pkgs -> Addrs \cup {NoAddr}]
      /\ ns' \in [Pkgs -> {"none", "plain", "wired"}]
      /\ \A q \in Pkgs : step'[q] = "created" => ns'[q] # "none"
      /\ \A q \in Pkgs : ns'[q] = "wired" => veth'[q] # "none"
      /\ \A q \in Pkgs : addr'[q] # NoAddr => veth'[q] # "none"
      /\ \A q \in lost' : veth'[q] # "none" /\ ns'[q] # "wired"
      /\ lost' \subseteq Pkgs
  <2>1. \A q \in Pkgs \ {p} : step'[q] = step[q]
    BY <1>2, GotoKeeps DEF ShapeInv
  <2>2. lost' = lost
    BY <1>2 DEF Wire
  <2>3. lost \subseteq Pkgs
    BY DEF ShapeInv, TypeOK
  <2>4. ns'[p] = "wired" /\ \A q \in Pkgs \ {p} : ns'[q] = ns[q]
    BY <1>1, <1>2, <1>4, NewLinkShape
  <2>5. \A q \in Pkgs : step'[q] = "created" => ns'[q] # "none"
    BY <2>1, <2>4 DEF ShapeInv
  <2>. QED BY <1>1, <1>2, <1>4, <2>2, <2>3, <2>5, NewLinkShape
<1>6. TypeOK'
  BY <1>1, <1>2, <1>3, <1>5, GotoKeeps DEF ShapeInv, TypeOK, SubnetTable, BridgeTable, start
<1>. QED BY <1>1, <1>2, <1>4, <1>5, <1>6 DEF ShapeInv, NoSubnetNoAddress, start

LEMMA ShapeAttachFails ==
  ASSUME ShapeInv, NEW p \in Pkgs, AttachFails(p)
  PROVE  ShapeInv'
<1>. DEFINE b == bridge[p]
<1>1. b \in Bridges /\ ~Exhausted(p, b) /\ phase = "up" /\ veth[p] = "none"
  BY NoVethYet DEF AttachFails, CanSetup, ShapeInv, TypeOK
<1>2. /\ Goto(p, "release") /\ UNCHANGED <<reserved, start>>
      /\ \/ UNCHANGED <<wires, ns>>
         \/ \E a \in {NoAddr, AddressFor(p, b)} : Wire(p, b, a)
  BY DEF AttachFails
<1>3. PICK present \in SUBSET Bridges :
        ReleaseAddress(p, b, SlotsFor(b), BridgesFor(p, b), present)
  BY AttachFailsTables
<1>. HIDE DEF b
<1>4. SlotsFor(b) \in SubnetTable /\ BridgesFor(p, b) \in BridgeTable
  BY <1>1, AttachEffect
<1>5. slots' \in SubnetTable /\ bridges' \in BridgeTable /\ links' \subseteq Bridges
  BY <1>1, <1>3, <1>4, ReleaseEffect
<1>6. NoSubnetNoAddress(bridges')
  BY <1>1, <1>3, <1>4, AttachedShape, ReleaseShape
<1>7. /\ veth' \in [Pkgs -> Bridges \cup {"none"}]
      /\ addr' \in [Pkgs -> Addrs \cup {NoAddr}]
      /\ ns' \in [Pkgs -> {"none", "plain", "wired"}]
      /\ \A q \in Pkgs : step'[q] = "created" => ns'[q] # "none"
      /\ \A q \in Pkgs : ns'[q] = "wired" => veth'[q] # "none"
      /\ \A q \in Pkgs : addr'[q] # NoAddr => veth'[q] # "none"
      /\ \A q \in lost' : veth'[q] # "none" /\ ns'[q] # "wired"
      /\ lost' \subseteq Pkgs
  <2>3. \A q \in Pkgs \ {p} : step'[q] = step[q]
    BY <1>2, GotoKeeps DEF ShapeInv
  <2>4. step'[p] = "release"
    BY <1>2, GotoKeeps DEF ShapeInv
  <2>1. CASE UNCHANGED <<wires, ns>>
    BY <2>1, <2>3, <2>4 DEF ShapeInv, TypeOK, wires
  <2>2. CASE \E a \in {NoAddr, AddressFor(p, b)} : Wire(p, b, a)
    <3>1. AddressFor(p, b) \in Addrs
      BY <1>1, AttachedShape
    <3>2. lost' \subseteq Pkgs
      BY <2>2 DEF Wire, ShapeInv, TypeOK
    <3>3. PICK a \in {NoAddr, AddressFor(p, b)} : Wire(p, b, a)
      BY <2>2
    <3>4. a \in Addrs \cup {NoAddr}
      BY <3>1
    <3>. QED BY <1>1, <2>3, <2>4, <3>2, <3>3, <3>4, NewLinkShape DEF ShapeInv
  <2>. QED BY <1>2, <2>1, <2>2
<1>8. TypeOK'
  BY <1>1, <1>2, <1>5, <1>7, GotoKeeps DEF ShapeInv, TypeOK, SubnetTable, BridgeTable, start
<1>. QED BY <1>1, <1>2, <1>6, <1>7, <1>8 DEF ShapeInv, NoSubnetNoAddress, start

LEMMA ShapeDetach ==
  ASSUME ShapeInv, NEW p \in Pkgs, Detach(p)
  PROVE  ShapeInv'
<1>1. phase = "up" /\ Goto(p, "detached") /\ UNCHANGED <<reserved, start>>
  BY DEF Detach
<1>2. /\ slots \in SubnetTable /\ bridges \in BridgeTable /\ links \in SUBSET Bridges
      /\ bridge[p] \in Bridges /\ NoSubnetNoAddress(bridges)
  BY DEF ShapeInv, TypeOK, SubnetTable, BridgeTable, NoSubnetNoAddress
<1>3. CASE WithoutVeth(p) /\ ReleaseAddress(p, bridge[p], slots, bridges, links)
  <2>1. slots' \in SubnetTable /\ bridges' \in BridgeTable /\ links' \subseteq Bridges
    BY <1>2, <1>3, ReleaseEffect
  <2>2. NoSubnetNoAddress(bridges')
    BY <1>2, <1>3, ReleaseShape
  <2>3. TypeOK'
    BY <1>1, <1>3, <2>1, GotoKeeps, WithoutVethShape
    DEF ShapeInv, TypeOK, SubnetTable, BridgeTable, start
  <2>4. \A q \in Pkgs : step'[q] = "created" => ns'[q] # "none"
    BY <1>1, <1>3, GotoKeeps, WithoutVethShape DEF ShapeInv
  <2>. QED BY <1>1, <1>3, <2>2, <2>3, <2>4, WithoutVethShape
           DEF ShapeInv, NoSubnetNoAddress, start
<1>4. CASE UNCHANGED <<slots, bridges, host>>
  BY <1>1, <1>4, GotoKeeps, ShapeOnlyUsers DEF memory, ShapeInv
<1>. QED BY <1>3, <1>4 DEF Detach

LEMMA ShapeNamespaces ==
  ASSUME ShapeInv, NEW p \in Pkgs, CreateNetns(p) \/ DestroyNetns(p)
  PROVE  ShapeInv'
<1>1. /\ phase = "up" /\ UNCHANGED <<memory, links, wires, start>>
      /\ \E s \in {"created", "release", "off"} : Goto(p, s)
  BY DEF CreateNetns, DestroyNetns
<1>2. /\ ns' \in [Pkgs -> {"none", "plain", "wired"}]
      /\ \A q \in Pkgs : ns'[q] = "wired" => ns[q] = "wired"
      /\ \A q \in Pkgs \ {p} : ns'[q] = ns[q]
  <2>1. ns \in [Pkgs -> {"none", "plain", "wired"}]
    BY DEF ShapeInv, TypeOK
  <2>. QED BY <2>1 DEF CreateNetns, DestroyNetns
<1>3. TypeOK'
  BY <1>1, <1>2, GotoKeeps DEF ShapeInv, TypeOK, memory, wires, start
<1>4. \A q \in Pkgs \ {p} : step'[q] = step[q]
  BY <1>1, GotoKeeps DEF ShapeInv
<1>5. step'[p] = "created" => ns'[p] # "none"
  BY GotoKeeps DEF CreateNetns, DestroyNetns, ShapeInv, TypeOK
<1>6. lost' = lost /\ lost \subseteq Pkgs
  BY <1>1 DEF ShapeInv, TypeOK, wires
<1>. QED BY <1>1, <1>2, <1>3, <1>4, <1>5, <1>6 DEF ShapeInv, memory, wires, start

\* The daemon is gone and the host is as it may have left it.
LEMMA ShapeDies ==
  ASSUME ShapeInv, Dies, links' \subseteq Bridges,
         veth' \in [Pkgs -> Bridges \cup {"none"}],
         addr' \in [Pkgs -> Addrs \cup {NoAddr}],
         ns' \in [Pkgs -> {"none", "plain", "wired"}], lost' \subseteq Pkgs,
         \A q \in Pkgs : ns'[q] = "wired" => veth'[q] # "none",
         \A q \in Pkgs : addr'[q] # NoAddr => veth'[q] # "none",
         \A q \in lost' : veth'[q] # "none" /\ ns'[q] # "wired"
  PROVE  ShapeInv'
<1>1. NoBridge \in [subnet : Subnets \cup {0}, held : [Pkgs -> Hosts \cup {Free}]]
  BY DEF NoBridge, Tracked
<1>2. TypeOK'
  BY <1>1 DEF Dies, ShapeInv, TypeOK
<1>. QED BY <1>2 DEF Dies, ShapeInv

LEMMA ShapeScan ==
  ASSUME ShapeInv, Scan
  PROVE  ShapeInv'
<1>1. /\ phase = "scan" /\ phase' = "claim" /\ UNCHANGED <<memory, host, users>>
      /\ plan' \subseteq Found /\ reserves' \subseteq Found
  BY DEF Scan
<1>2. Found' = Found /\ Found \subseteq Pkgs
  BY <1>1 DEF Found, host, wires
<1>3. TypeOK'
  BY <1>1, <1>2 DEF ShapeInv, TypeOK, memory, host, wires, users
<1>. QED BY <1>1, <1>2, <1>3 DEF ShapeInv, memory, host, wires, users

\* What a claim does, in terms of the tables.
LEMMA ClaimEffect ==
  ASSUME ShapeInv, NEW p \in Pkgs, ClaimAttach(p)
  PROVE  LET b == veth[p]
             s == addr[p].sub
         IN  /\ b \in Bridges /\ addr[p] \in Addrs /\ p \in Found
             /\ slots' \in SubnetTable /\ bridges' \in BridgeTable
             /\ \A c \in Bridges \ {b} : slots'[c] = slots[c] /\ bridges'[c] = bridges[c]
             /\ \A q \in Pkgs \ {p} : bridges'[b].held[q] = bridges[b].held[q]
             /\ ~CanClaim(slots, b, s) => slots' = slots /\ bridges' = bridges
             /\ CanClaim(slots, b, s) =>
                  /\ slots'[b] = s
                  /\ bridges'[b].subnet =
                         IF IsTracked(b) THEN bridges[b].subnet ELSE s
                  /\ IF /\ IsTracked(b) => s = bridges[b].subnet
                        /\ CanClaim(bridges[b].held, p, addr[p].host)
                     THEN bridges'[b].held[p] = addr[p].host
                     ELSE bridges'[b].held[p] = bridges[b].held[p]
             /\ bridges'[b].subnet = 0 => bridges[b].subnet = 0 /\ bridges' = bridges
<1>. DEFINE b == veth[p]
            s == addr[p].sub
            h == addr[p].host
            state == IF IsTracked(b) THEN bridges[b] ELSE Tracked(s, NoBridge.held)
            usable == s = state.subnet /\ CanClaim(state.held, p, h)
            next == IF usable THEN [state EXCEPT !.held = Claimed(@, p, h)] ELSE state
<1>1. p \in Found /\ b \in Bridges /\ addr[p] \in Addrs
  BY DEF ClaimAttach, ShapeInv, Found, TypeOK
<1>2. s \in Subnets /\ h \in Hosts /\ s # 0
  BY <1>1 DEF Addrs, Subnets
<1>3. slots \in SubnetTable /\ bridges \in BridgeTable
  BY DEF ShapeInv, TypeOK, SubnetTable, BridgeTable
<1>4. /\ state \in [subnet : Subnets \cup {0}, held : [Pkgs -> Hosts \cup {Free}]]
      /\ state.subnet = IF IsTracked(b) THEN bridges[b].subnet ELSE s
      /\ state.held = bridges[b].held
      /\ state.subnet # 0
  BY <1>1, <1>2, <1>3 DEF BridgeTable, IsTracked, Tracked, NoBridge, ShapeInv
<1>5. IF CanClaim(slots, b, s)
      THEN slots' = [slots EXCEPT ![b] = s] /\ bridges' = [bridges EXCEPT ![b] = next]
      ELSE slots' = slots /\ bridges' = bridges
  BY DEF ClaimAttach, Claimed
<1>. HIDE DEF state
<1>6. /\ next \in [subnet : Subnets \cup {0}, held : [Pkgs -> Hosts \cup {Free}]]
      /\ next.subnet = state.subnet
      /\ \A q \in Pkgs \ {p} : next.held[q] = state.held[q]
      /\ next.held[p] = IF usable THEN h ELSE state.held[p]
  BY <1>2, <1>4 DEF Claimed
<1>7. usable <=> /\ IsTracked(b) => s = bridges[b].subnet
                 /\ CanClaim(bridges[b].held, p, h)
  BY <1>4
<1>. HIDE DEF next, usable
<1>8. CASE CanClaim(slots, b, s)
  BY <1>1, <1>2, <1>3, <1>4, <1>5, <1>6, <1>7, <1>8 DEF SubnetTable, BridgeTable
<1>9. CASE ~CanClaim(slots, b, s)
  BY <1>1, <1>3, <1>5, <1>9
<1>. QED BY <1>8, <1>9

LEMMA ShapeClaim ==
  ASSUME ShapeInv, NEW p \in Pkgs, ClaimAttach(p) \/ Reserve(p)
  PROVE  ShapeInv'
<1>1. /\ phase = "claim" /\ UNCHANGED <<host, phase, users>>
      /\ plan' \subseteq plan /\ reserves' \subseteq reserves
  BY DEF ClaimAttach, Reserve
<1>2. Found' = Found
  BY <1>1 DEF Found, host, wires
<1>3. /\ slots' \in SubnetTable /\ bridges' \in BridgeTable /\ reserved' \subseteq Subnets
      /\ \A b \in Bridges : bridges'[b].subnet = 0 => bridges'[b] = NoBridge
  <2>1. CASE ClaimAttach(p)
    <3>1. reserved' = reserved /\ reserved \subseteq Subnets
      BY <2>1 DEF ClaimAttach, ShapeInv, TypeOK
    <3>2. \A b \in Bridges : bridges[b].subnet = 0 => bridges[b] = NoBridge
      BY DEF ShapeInv
    <3>. QED BY <2>1, <3>1, <3>2, ClaimEffect
  <2>2. CASE Reserve(p)
    <3>1. p \in Found /\ addr[p] \in Addrs
      BY <2>2 DEF Reserve, ShapeInv, TypeOK, Found
    <3>2. addr[p].sub \in Subnets
      BY <3>1 DEF Addrs
    <3>. QED BY <2>2, <3>2 DEF Reserve, ShapeInv, TypeOK, SubnetTable, BridgeTable
  <2>. QED BY <2>1, <2>2
<1>4. TypeOK'
  BY <1>1, <1>3 DEF ShapeInv, TypeOK, SubnetTable, BridgeTable, host, wires, users
<1>. QED BY <1>1, <1>2, <1>3, <1>4 DEF ShapeInv, host, wires, users

\* The orphans have no namespace, so they are not among the found ones, and those
\* that are kept are lost: what is live afterwards is what the scan has found.
LEMMA CleanupEffect ==
  ASSUME ShapeInv, CleanupOrphans
  PROVE  /\ veth' \in [Pkgs -> Bridges \cup {"none"}]
         /\ addr' \in [Pkgs -> Addrs \cup {NoAddr}]
         /\ links' \subseteq Bridges
         /\ \A q \in Pkgs : ns[q] # "none" => veth'[q] = veth[q] /\ addr'[q] = addr[q]
         /\ \A q \in Pkgs : veth'[q] = veth[q] \/ veth'[q] = "none"
         /\ \A q \in Pkgs : addr'[q] # NoAddr => veth'[q] # "none"
         /\ lost' = {q \in Pkgs : veth'[q] # "none" /\ ns'[q] # "wired"}
         /\ Found' = Found /\ Live' = Found
<1>. DEFINE orphans == {q \in Pkgs : veth[q] # "none" /\ ns[q] = "none"}
<1>1. PICK kept \in SUBSET orphans :
        /\ veth' = [q \in Pkgs |-> IF q \in orphans \ kept THEN "none" ELSE veth[q]]
        /\ addr' = [q \in Pkgs |-> IF q \in orphans \ kept THEN NoAddr ELSE addr[q]]
  BY DEF CleanupOrphans
<1>2. /\ ns' = ns /\ links' \subseteq links
      /\ lost' = {q \in Pkgs : veth'[q] # "none" /\ ns'[q] # "wired"}
  BY DEF CleanupOrphans
<1>3. \A q \in Pkgs : addr'[q] # NoAddr => veth'[q] # "none"
  BY <1>1 DEF ShapeInv
<1>4. \A q \in Pkgs : ns[q] # "none" => veth'[q] = veth[q] /\ addr'[q] = addr[q]
  BY <1>1
<1>5. Found' = Found
  BY <1>2, <1>4 DEF Found
<1>6. Live' = Found
  BY <1>2, <1>3, <1>4, <1>5 DEF Live, Found, ShapeInv
<1>. QED BY <1>1, <1>2, <1>3, <1>4, <1>5, <1>6 DEF ShapeInv, TypeOK

LEMMA ShapeCleanup ==
  ASSUME ShapeInv, CleanupOrphans
  PROVE  ShapeInv'
<1>1. /\ phase' = "up" /\ phase = "claim" /\ plan = {} /\ reserves = {}
      /\ UNCHANGED <<memory, ns, plan, reserves, users>>
  BY DEF CleanupOrphans
<1>2. TypeOK'
  BY <1>1, CleanupEffect DEF ShapeInv, TypeOK, memory, users
<1>. QED BY <1>1, <1>2, CleanupEffect DEF ShapeInv, memory, users

LEMMA ShapeStep ==
  ASSUME ShapeInv, [Next]_vars
  PROVE  ShapeInv'
<1>1. ASSUME NEW p \in Pkgs, Adopt(p) \/ AttachRefused(p)
      PROVE  ShapeInv'
  <2>1. /\ phase = "up" /\ UNCHANGED <<memory, host, start>>
        /\ \E s \in {"on", "release"} : Goto(p, s)
    BY <1>1 DEF Adopt, AttachRefused
  <2>. QED BY <2>1, GotoKeeps, ShapeOnlyUsers DEF ShapeInv
<1>2. ASSUME NEW p \in Pkgs, StartContainer(p) \/ StopContainer(p) \/ Upgrade(p)
      PROVE  ShapeInv'
  <2>1. /\ UNCHANGED <<memory, host, start, faults>>
        /\ step' \in [Pkgs -> {"verified", "off", "created", "on", "release", "detached"}]
        /\ phase = "up" \/ UNCHANGED step
        /\ \A q \in Pkgs : step'[q] = "created" => step[q] = "created"
        /\ bridge' \in [Pkgs -> Bridges] /\ run' \in [Pkgs -> BOOLEAN]
    <3>1. CASE StartContainer(p) \/ StopContainer(p)
      <4>1. /\ step \in [Pkgs -> {"verified", "off", "created", "on", "release", "detached"}]
            /\ bridge \in [Pkgs -> Bridges] /\ run \in [Pkgs -> BOOLEAN]
        BY DEF ShapeInv, TypeOK
      <4>. QED BY <3>1, <4>1 DEF StartContainer, StopContainer
    <3>2. CASE Upgrade(p)
      <4>1. BridgesOf[p] \subseteq Bridges
        BY NetworkConstantsOK
      <4>. QED BY <3>2, <4>1 DEF Upgrade, ShapeInv, TypeOK
    <3>. QED BY <1>2, <3>1, <3>2
  <2>. QED BY <2>1, ShapeOnlyUsers
<1>3. ASSUME NEW p \in Pkgs, NamespaceDies(p)
      PROVE  ShapeInv'
  <2>1. WithoutVeth(p) /\ p \notin Found /\ UNCHANGED <<memory, links, start, users>>
    BY <1>3 DEF NamespaceDies, Found
  <2>2. Found' = Found
    BY <2>1, WithoutVethShape
  <2>3. TypeOK'
    BY <2>1, WithoutVethShape DEF ShapeInv, TypeOK, memory, start, users
  <2>. QED BY <2>1, <2>2, <2>3, WithoutVethShape DEF ShapeInv, memory, start, users
<1>4. ASSUME Crash PROVE ShapeInv'
  BY <1>4, ShapeDies DEF Crash, host, wires, ShapeInv, TypeOK
<1>5. ASSUME NEW p \in Pkgs, CrashInSetup(p)
      PROVE  ShapeInv'
  <2>1. /\ bridge[p] \in Bridges /\ ~Exhausted(p, bridge[p]) /\ veth[p] = "none"
        /\ links' = links \cup {bridge[p]} /\ Dies
        /\ \E a \in {NoAddr, AddressFor(p, bridge[p])} : Wire(p, bridge[p], a)
    BY <1>5, NoVethYet DEF CrashInSetup, CanSetup, ShapeInv, TypeOK
  <2>2. AddressFor(p, bridge[p]) \in Addrs
    BY <2>1, AttachedShape
  <2>3. links' \subseteq Bridges /\ lost' \subseteq Pkgs
    BY <2>1 DEF ShapeInv, TypeOK, Wire
  <2>. QED BY <2>1, <2>2, <2>3, NewLinkShape, ShapeDies
<1>6. CASE UNCHANGED vars
  BY <1>6, ShapeOnlyUsers DEF vars, users, ShapeInv, TypeOK
<1>. QED
  BY <1>1, <1>2, <1>3, <1>4, <1>5, <1>6, ShapeAttachNew, ShapeAttachFails, ShapeDetach,
     ShapeNamespaces, ShapeScan, ShapeClaim, ShapeCleanup
  DEF Next

-----------------------------------------------------------------------------
(* Subnets *)

\* What a scan finds by the names of the namespaces has an address.
LEMMA FoundIsLive ==
  ASSUME ShapeInv
  PROVE  Found \subseteq Live
BY DEF ShapeInv, Found, Live

LEMMA FoundIsLiveNext ==
  ASSUME ShapeInv'
  PROVE  Found' \subseteq Live'
BY DEF ShapeInv, Found, Live

LEMMA LiveTyped ==
  ASSUME ShapeInv
  PROVE  \A q \in Live : /\ q \in Pkgs /\ veth[q] \in Bridges /\ addr[q] \in Addrs
                          /\ addr[q].sub \in Subnets /\ addr[q].sub # Free
                          /\ addr[q].host \in Hosts /\ addr[q].host # Free
BY DEF ShapeInv, TypeOK, Live, Addrs, Subnets, Hosts, Free

LEMMA SubnetInit == Init => SubnetInv
BY DEF Init, SubnetInv, Distinct, Live, Restored, NoBridge, Tracked, Free

\* Steps that change no table, and of the live packages at most their number.
LEMMA SubnetSameTables ==
  ASSUME ShapeInv, ShapeInv', SubnetInv, UNCHANGED <<memory, start>>, Live' \subseteq Live,
         phase = "claim" => Found' = Found,
         \A q \in Live' : veth'[q] = veth[q] /\ addr'[q] = addr[q]
  PROVE  SubnetInv'
<1>1. \A q \in Restored' : q \in Restored /\ q \in Live'
  BY FoundIsLiveNext DEF Restored, start
<1>2. phase = "claim" =>
        \A q \in Found : q \in Found' /\ veth'[q] = veth[q] /\ addr'[q] = addr[q]
  BY FoundIsLiveNext
<1>. QED BY <1>1, <1>2 DEF SubnetInv, memory, start, Distinct

\* While the daemon is up, what the tables say is enough.
LEMMA SubnetUp ==
  ASSUME ShapeInv', phase' = "up", reserves' = {}, reserved' = {}, Distinct(slots'),
         \A b \in Bridges : bridges'[b].subnet = slots'[b],
         \A q \in Live' : slots'[veth'[q]] = addr'[q].sub
  PROVE  SubnetInv'
<1>1. \A q \in Live' : veth'[q] \in Bridges /\ addr'[q].sub # Free
  BY DEF ShapeInv, TypeOK, Live, Addrs, Subnets, Free
<1>2. slots' \in [Bridges -> Nat]
  BY NetworkConstantsOK DEF ShapeInv, TypeOK, Subnets, Free
<1>3. \A p, q \in Live' : veth'[p] = veth'[q] <=> addr'[p].sub = addr'[q].sub
  BY <1>1, <1>2 DEF Distinct
<1>. QED BY <1>3 DEF SubnetInv, Restored

\* The tables of an attach fit the host as netavark leaves it, at any point.
LEMMA AttachSubnets ==
  ASSUME ShapeInv, SubnetInv, phase = "up", NEW p \in Pkgs, NEW b \in Bridges,
         ~Exhausted(p, b), veth[p] = "none"
  PROVE  /\ p \notin Live /\ Restored = Live
         /\ Distinct(SlotsFor(b))
         /\ \A c \in Bridges : BridgesFor(p, b)[c].subnet = SlotsFor(b)[c]
         /\ \A q \in Live : SlotsFor(b)[veth[q]] = addr[q].sub
         /\ AddressFor(p, b).sub = SlotsFor(b)[b]
<1>. DEFINE table == SlotsFor(b)
            tracked == BridgesFor(p, b)
<1>1. p \notin Live
  BY DEF Present, Live, ShapeInv
<1>2. Restored = Live
  BY DEF ShapeInv, Restored
<1>3. /\ \A c \in Bridges \ {b} : table[c] = slots[c] /\ tracked[c] = bridges[c]
      /\ Distinct(slots) => Distinct(table)
      /\ AddressFor(p, b) = Addr(tracked[b].subnet, tracked[b].held[p])
      /\ IF IsTracked(b)
         THEN table = slots /\ tracked[b].subnet = bridges[b].subnet
         ELSE table[b] = tracked[b].subnet
  BY AttachEffect
<1>4. AddressFor(p, b).sub = tracked[b].subnet
  BY <1>3 DEF Addr
<1>. HIDE DEF table, tracked
<1>5. \A c \in Bridges : tracked[c].subnet = table[c]
  BY <1>3 DEF SubnetInv
<1>6. ASSUME NEW q \in Live PROVE table[veth[q]] = addr[q].sub
  <2>1. slots[veth[q]] = addr[q].sub /\ veth[q] \in Bridges /\ addr[q].sub # Free
    BY <1>2, LiveTyped DEF SubnetInv
  <2>2. bridges[veth[q]].subnet # Free
    BY <2>1 DEF SubnetInv
  <2>3. IsTracked(veth[q])
    BY <2>2 DEF IsTracked, NoBridge, Tracked, Free
  <2>. QED BY <1>3, <2>1, <2>3
<1>. QED BY <1>1, <1>2, <1>3, <1>4, <1>5, <1>6 DEF table, tracked, SubnetInv

\* The live packages with the one that netavark is wiring.
LEMMA WiredLive ==
  ASSUME ShapeInv, NEW p \in Pkgs, NEW b \in Bridges, NEW a \in Addrs \cup {NoAddr},
         Wire(p, b, a)
  PROVE  \A q \in Live' :
            IF q = p THEN veth'[q] = b /\ addr'[q] = a /\ a # NoAddr
            ELSE q \in Live /\ veth'[q] = veth[q] /\ addr'[q] = addr[q]
BY NewLinkShape DEF Live

LEMMA WiredSubnets ==
  ASSUME ShapeInv, SubnetInv, phase = "up", NEW p \in Pkgs, NEW b \in Bridges,
         ~Exhausted(p, b), veth[p] = "none",
         NEW a \in {NoAddr, AddressFor(p, b)}, Wire(p, b, a)
  PROVE  \A q \in Live' : /\ q \in Pkgs /\ veth'[q] \in Bridges
                           /\ SlotsFor(b)[veth'[q]] = addr'[q].sub
                           /\ addr'[q].sub # Free
<1>1. AddressFor(p, b) \in Addrs
  BY AttachedShape
<1>2. \A q \in Live' :
            IF q = p THEN veth'[q] = b /\ addr'[q] = a /\ a # NoAddr
            ELSE q \in Live /\ veth'[q] = veth[q] /\ addr'[q] = addr[q]
  BY <1>1, WiredLive
<1>3. AddressFor(p, b).sub # Free
  BY <1>1 DEF Addrs, Subnets, Free
<1>. QED BY <1>2, <1>3, AttachSubnets, LiveTyped

\* Releasing an address keeps the subnets of the bridges that are used.
LEMMA ReleaseSubnets ==
  ASSUME NEW p \in Pkgs, NEW b \in Bridges,
         NEW table \in SubnetTable, NEW tracked \in BridgeTable,
         NEW present \in SUBSET Bridges,
         ReleaseAddress(p, b, table, tracked, present), Distinct(table),
         \A c \in Bridges : tracked[c].subnet = table[c]
  PROVE  /\ Distinct(slots')
         /\ \A c \in Bridges : bridges'[c].subnet = slots'[c]
         /\ \A q \in Pkgs : veth'[q] \in Bridges => slots'[veth'[q]] = table[veth'[q]]
<1>1. /\ slots' \in SubnetTable
      /\ \A c \in Bridges \ {b} : slots'[c] = table[c] /\ bridges'[c] = tracked[c]
      /\ \/ slots'[b] = table[b] /\ bridges'[b].subnet = tracked[b].subnet
         \/ /\ slots'[b] = Free /\ bridges'[b] = NoBridge
            /\ \A q \in Pkgs : veth'[q] # b
  BY ReleaseEffect
<1>2. Distinct(slots')
  BY <1>1 DEF Distinct, SubnetTable
<1>3. NoBridge.subnet = Free
  BY DEF NoBridge, Tracked, Free
<1>. QED BY <1>1, <1>2, <1>3

\* A claim of a namespace the scan found never meets another bridge's subnet, nor a table
\* with another subnet.
LEMMA ClaimAccepted ==
  ASSUME ShapeInv, SubnetInv, NEW p \in Pkgs, ClaimAttach(p)
  PROVE  /\ CanClaim(slots, veth[p], addr[p].sub)
         /\ IsTracked(veth[p]) => bridges[veth[p]].subnet = addr[p].sub
         /\ \A q \in Found : veth[q] = veth[p] => addr[q].sub = addr[p].sub
         /\ Restored' = Restored \cup {p} /\ Found' = Found /\ Live' = Live
<1>1. /\ phase = "claim" /\ phase' = "claim" /\ p \in Found /\ plan' = plan \ {p}
      /\ Found' = Found /\ Live' = Live
  BY DEF ClaimAttach, ShapeInv, Found, Live, host, wires
<1>9. p \in Live /\ Found \subseteq Live
  BY <1>1, FoundIsLive
<1>2. \A c \in Bridges : slots[c] # Free =>
        \E q \in Found : veth[q] = c /\ addr[q].sub = slots[c]
  BY <1>1 DEF SubnetInv
<1>3. \A q \in Found : veth[q] = veth[p] <=> addr[q].sub = addr[p].sub
  BY <1>9 DEF SubnetInv
<1>4. addr[p].sub # Free /\ veth[p] \in Bridges
  BY <1>9, LiveTyped
<1>5. \A c \in Bridges : slots[c] = addr[p].sub => c = veth[p]
  BY <1>2, <1>3, <1>4
<1>6. CanClaim(slots, veth[p], addr[p].sub)
  BY <1>5 DEF CanClaim, ShapeInv, TypeOK
<1>7. ASSUME IsTracked(veth[p]) PROVE bridges[veth[p]].subnet = addr[p].sub
  <2>1. slots[veth[p]] # Free /\ bridges[veth[p]].subnet = slots[veth[p]]
    BY <1>4, <1>7 DEF ShapeInv, SubnetInv, IsTracked, Free
  <2>. QED BY <1>2, <1>3, <1>4, <2>1
<1>8. Restored' = Restored \cup {p}
  BY <1>1 DEF Restored
<1>. QED BY <1>1, <1>3, <1>6, <1>7, <1>8

LEMMA SubnetAttachNew ==
  ASSUME ShapeInv, ShapeInv', SubnetInv, NEW p \in Pkgs, AttachNew(p)
  PROVE  SubnetInv'
<1>. DEFINE b == bridge[p]
<1>1. /\ b \in Bridges /\ ~Exhausted(p, b) /\ veth[p] = "none" /\ phase = "up"
      /\ slots' = SlotsFor(b) /\ bridges' = BridgesFor(p, b)
      /\ Wire(p, b, AddressFor(p, b)) /\ phase' = "up"
      /\ reserved' = reserved /\ reserves' = reserves
  BY DEF AttachNew, CanSetup, Present, ShapeInv, TypeOK, start
<1>. HIDE DEF b
<1>2. \A q \in Live' : slots'[veth'[q]] = addr'[q].sub
  BY <1>1, WiredSubnets
<1>3. Distinct(slots') /\ \A c \in Bridges : bridges'[c].subnet = slots'[c]
  BY <1>1, AttachSubnets
<1>. QED BY <1>1, <1>2, <1>3, SubnetUp DEF SubnetInv

LEMMA SubnetAttachFails ==
  ASSUME ShapeInv, ShapeInv', SubnetInv, NEW p \in Pkgs, AttachFails(p)
  PROVE  SubnetInv'
<1>. DEFINE b == bridge[p]
<1>1. /\ b \in Bridges /\ ~Exhausted(p, b) /\ veth[p] = "none" /\ phase = "up"
      /\ phase' = "up" /\ reserved' = reserved /\ reserves' = reserves
      /\ \/ UNCHANGED <<wires, ns>>
         \/ \E a \in {NoAddr, AddressFor(p, b)} : Wire(p, b, a)
  BY DEF AttachFails, CanSetup, Present, ShapeInv, TypeOK, start
<1>2. PICK present \in SUBSET Bridges :
        ReleaseAddress(p, b, SlotsFor(b), BridgesFor(p, b), present)
  BY AttachFailsTables
<1>. HIDE DEF b
<1>3. /\ SlotsFor(b) \in SubnetTable /\ BridgesFor(p, b) \in BridgeTable
      /\ Distinct(SlotsFor(b))
      /\ \A c \in Bridges : BridgesFor(p, b)[c].subnet = SlotsFor(b)[c]
  BY <1>1, AttachEffect, AttachSubnets
<1>4. /\ Distinct(slots') /\ \A c \in Bridges : bridges'[c].subnet = slots'[c]
      /\ \A q \in Pkgs : veth'[q] \in Bridges => slots'[veth'[q]] = SlotsFor(b)[veth'[q]]
  BY <1>1, <1>2, <1>3, ReleaseSubnets
<1>5. \A q \in Live' : /\ q \in Pkgs /\ veth'[q] \in Bridges
                        /\ SlotsFor(b)[veth'[q]] = addr'[q].sub
  <2>1. CASE UNCHANGED <<wires, ns>>
    <3>1. Live' = Live /\ veth' = veth /\ addr' = addr
      BY <2>1 DEF Live, wires
    <3>. QED BY <1>1, <3>1, AttachSubnets, LiveTyped
  <2>2. CASE \E a \in {NoAddr, AddressFor(p, b)} : Wire(p, b, a)
    BY <1>1, <2>2, WiredSubnets
  <2>. QED BY <1>1, <2>1, <2>2
<1>. QED BY <1>1, <1>4, <1>5, SubnetUp DEF SubnetInv

LEMMA SubnetDetach ==
  ASSUME ShapeInv, ShapeInv', SubnetInv, NEW p \in Pkgs, Detach(p)
  PROVE  SubnetInv'
<1>1. /\ phase = "up" /\ phase' = "up" /\ reserved' = reserved /\ reserves' = reserves
      /\ plan' = plan
  BY DEF Detach, start
<1>2. CASE WithoutVeth(p) /\ ReleaseAddress(p, bridge[p], slots, bridges, links)
  <2>1. /\ slots \in SubnetTable /\ bridges \in BridgeTable /\ links \in SUBSET Bridges
        /\ bridge[p] \in Bridges
    BY DEF ShapeInv, TypeOK, SubnetTable, BridgeTable
  <2>2. /\ Distinct(slots') /\ \A c \in Bridges : bridges'[c].subnet = slots'[c]
        /\ \A q \in Pkgs : veth'[q] \in Bridges => slots'[veth'[q]] = slots[veth'[q]]
    BY <1>2, <2>1, ReleaseSubnets DEF SubnetInv
  <2>3. \A q \in Live' : q \in Live /\ veth'[q] = veth[q] /\ addr'[q] = addr[q]
    BY <1>2, WithoutVethShape, LiveTyped
  <2>4. Restored = Live
    BY <1>1 DEF ShapeInv, Restored
  <2>5. \A q \in Live' : slots'[veth'[q]] = addr'[q].sub
    BY <2>2, <2>3, <2>4, LiveTyped DEF SubnetInv
  <2>. QED BY <1>1, <2>2, <2>5, SubnetUp DEF SubnetInv
<1>3. CASE UNCHANGED <<slots, bridges, host>>
  <2>1. Live' = Live /\ UNCHANGED <<memory, start, veth, addr>>
    BY <1>3 DEF Live, Detach, memory, host, wires
  <2>. QED BY <1>1, <2>1, SubnetSameTables
<1>. QED BY <1>2, <1>3 DEF Detach

\* The start of the daemon, from the host it finds.
LEMMA SubnetDies ==
  ASSUME Dies, NEW live, Live' \subseteq live,
         \A p, q \in live : veth'[p] = veth'[q] <=> addr'[p].sub = addr'[q].sub
  PROVE  SubnetInv'
BY DEF Dies, SubnetInv, Restored, Distinct, NoBridge, Tracked, Free

LEMMA SubnetScan ==
  ASSUME ShapeInv, SubnetInv, SeesAll, Scan
  PROVE  SubnetInv'
<1>1. /\ phase = "scan" /\ phase' = "claim" /\ UNCHANGED <<memory, host>>
      /\ plan' = Found /\ reserves' = {}
  BY DEF Scan, SeesAll
<1>2. Found' = Found /\ Live' = Live
  BY <1>1 DEF Found, Live, host, wires
<1>3. Restored' = {}
  BY <1>1, <1>2 DEF Restored
<1>. QED BY <1>1, <1>2, <1>3 DEF SubnetInv, ShapeInv, memory, host, wires, Distinct

LEMMA SubnetClaim ==
  ASSUME ShapeInv, ShapeInv', SubnetInv, NEW p \in Pkgs, ClaimAttach(p)
  PROVE  SubnetInv'
<1>. DEFINE b == veth[p]
            s == addr[p].sub
<1>1. /\ reserved' = reserved /\ reserves' = reserves /\ phase' = "claim" /\ phase = "claim"
      /\ veth' = veth /\ addr' = addr
  BY DEF ClaimAttach, host, wires
<1>2. /\ b \in Bridges /\ p \in Found /\ s \in Nat
      /\ \A c \in Bridges \ {b} : slots'[c] = slots[c] /\ bridges'[c] = bridges[c]
      /\ slots'[b] = s /\ bridges'[b].subnet = s
  BY ClaimEffect, ClaimAccepted DEF Addrs, Subnets
<1>3. Distinct(slots')
  <2>1. /\ slots \in SubnetTable /\ slots' \in SubnetTable
        /\ DOMAIN slots = Bridges /\ DOMAIN slots' = Bridges
    BY DEF ShapeInv, TypeOK, SubnetTable
  <2>2. \A c \in Bridges \ {b} : slots[c] # s
    BY <2>1, ClaimAccepted DEF CanClaim
  <2>3. Distinct(slots)
    BY DEF SubnetInv
  <2>. QED BY <1>2, <2>1, <2>2, <2>3 DEF Distinct
<1>4. \A c \in Bridges : bridges'[c].subnet = slots'[c]
  BY <1>2 DEF SubnetInv
<1>5. \A q \in Restored' : slots'[veth'[q]] = addr'[q].sub
  <2>1. \A q \in Restored : q \in Found /\ slots[veth[q]] = addr[q].sub
    BY <1>1 DEF SubnetInv, Restored
  <2>2. \A q \in Restored : veth[q] \in Bridges
    BY <2>1, FoundIsLive, LiveTyped
  <2>. QED BY <1>1, <1>2, <2>1, <2>2, ClaimAccepted
<1>6. \A c \in Bridges : slots'[c] # Free =>
        \E q \in Found' : veth'[q] = c /\ addr'[q].sub = slots'[c]
  BY <1>1, <1>2, ClaimAccepted DEF SubnetInv
<1>7. \A q, r \in Live' : veth'[q] = veth'[r] <=> addr'[q].sub = addr'[r].sub
  BY <1>1, ClaimAccepted DEF SubnetInv
<1>8. reserves' = {} /\ reserved' = {}
  BY <1>1 DEF SubnetInv
<1>. QED BY <1>3, <1>4, <1>5, <1>6, <1>7, <1>8 DEF SubnetInv

LEMMA SubnetStep ==
  ASSUME ShapeInv, ShapeInv', SeesAll, SubnetInv, [Next]_vars
  PROVE  SubnetInv'
<1>. USE DEF memory, host, wires, start, users
<1>1. ASSUME NEW p \in Pkgs,
             Adopt(p) \/ AttachRefused(p) \/ StartContainer(p) \/ StopContainer(p)
             \/ Upgrade(p)
      PROVE  SubnetInv'
  <2>1. UNCHANGED <<memory, host, start>>
    BY <1>1 DEF Adopt, AttachRefused, StartContainer, StopContainer, Upgrade
  <2>2. Live' = Live /\ Found' = Found
    BY <2>1 DEF Live, Found
  <2>. QED BY <2>1, <2>2, SubnetSameTables
<1>2. ASSUME NEW p \in Pkgs, CreateNetns(p) \/ DestroyNetns(p)
      PROVE  SubnetInv'
  <2>1. phase = "up" /\ UNCHANGED <<memory, wires, start>>
    BY <1>2 DEF CreateNetns, DestroyNetns
  <2>2. Live' = Live
    BY <2>1 DEF Live
  <2>. QED BY <2>1, <2>2, SubnetSameTables
<1>3. ASSUME NEW p \in Pkgs, NamespaceDies(p)
      PROVE  SubnetInv'
  <2>1. WithoutVeth(p) /\ p \notin Found /\ UNCHANGED <<memory, start>>
    BY <1>3 DEF NamespaceDies, Found
  <2>2. Found' = Found /\ Live' = Live \ {p}
    BY <2>1, WithoutVethShape
  <2>3. \A q \in Live' : veth'[q] = veth[q] /\ addr'[q] = addr[q]
    BY <2>1, <2>2, WithoutVethShape, LiveTyped
  <2>. QED BY <2>1, <2>2, <2>3, SubnetSameTables
<1>4. ASSUME Crash PROVE SubnetInv'
  <2>1. Live' = Live /\ veth' = veth /\ addr' = addr /\ Dies
    BY <1>4 DEF Crash, Live
  <2>. QED BY <2>1, SubnetDies DEF SubnetInv
<1>5. ASSUME NEW p \in Pkgs, CrashInSetup(p)
      PROVE  SubnetInv'
  <2>1. /\ bridge[p] \in Bridges /\ ~Exhausted(p, bridge[p]) /\ veth[p] = "none"
        /\ phase = "up" /\ Dies
    BY <1>5 DEF CrashInSetup, CanSetup, Present, ShapeInv, TypeOK
  <2>2. PICK a \in {NoAddr, AddressFor(p, bridge[p])} : Wire(p, bridge[p], a)
    BY <1>5 DEF CrashInSetup
  <2>3. \A q \in Live' : /\ q \in Pkgs /\ veth'[q] \in Bridges /\ addr'[q].sub # Free
                          /\ SlotsFor(bridge[p])[veth'[q]] = addr'[q].sub
    BY <2>1, <2>2, WiredSubnets
  <2>4. Distinct(SlotsFor(bridge[p])) /\ SlotsFor(bridge[p]) \in SubnetTable
    BY <2>1, AttachSubnets, AttachEffect
  <2>5. \A q, r \in Live' : veth'[q] = veth'[r] <=> addr'[q].sub = addr'[r].sub
    BY <2>3, <2>4 DEF Distinct, SubnetTable
  <2>. QED BY <2>1, <2>5, SubnetDies
<1>6. ASSUME NEW p \in Pkgs, Reserve(p) PROVE SubnetInv'
  BY <1>6 DEF Reserve, SubnetInv
<1>7. ASSUME CleanupOrphans PROVE SubnetInv'
  <2>1. /\ phase = "claim" /\ phase' = "up" /\ plan = {}
        /\ UNCHANGED <<memory, plan, reserves>>
    BY <1>7 DEF CleanupOrphans
  <2>2. /\ Live' = Found
        /\ \A q \in Live' : veth'[q] = veth[q] /\ addr'[q] = addr[q]
    BY <1>7, CleanupEffect DEF Found
  <2>3. Restored = Found
    BY <2>1 DEF Restored
  <2>. QED BY <2>1, <2>2, <2>3, SubnetUp DEF SubnetInv
<1>8. CASE UNCHANGED vars
  BY <1>8, SubnetSameTables DEF vars, Live, Found
<1>. QED
  BY <1>1, <1>2, <1>3, <1>4, <1>5, <1>6, <1>7, <1>8, SubnetAttachNew, SubnetAttachFails,
     SubnetDetach, SubnetScan, SubnetClaim
  DEF Next

-----------------------------------------------------------------------------
(* Addresses *)

LEMMA AddressInit == Init => AddressInv
BY DEF Init, AddressInv, Distinct, Live, Restored, NoBridge, Tracked, Free

LEMMA AddressSameTables ==
  ASSUME ShapeInv, ShapeInv', AddressInv, UNCHANGED <<memory, start>>, Live' \subseteq Live,
         phase = "claim" => Found' = Found,
         \A q \in Live' : veth'[q] = veth[q] /\ addr'[q] = addr[q]
  PROVE  AddressInv'
<1>1. \A q \in Restored' : q \in Restored /\ q \in Live'
  BY FoundIsLiveNext DEF Restored, start
<1>2. phase = "claim" =>
        \A q \in Found : q \in Found' /\ veth'[q] = veth[q] /\ addr'[q] = addr[q]
  BY FoundIsLiveNext
<1>. QED BY <1>1, <1>2 DEF AddressInv, memory, start, Distinct

\* Two addresses with a subnet and a key of one table each are different.
LEMMA TablesTellAddresses ==
  ASSUME ShapeInv', SubnetInv', NEW tracked \in BridgeTable,
         \A b \in Bridges : Distinct(tracked[b].held),
         \A q \in Live' : tracked[veth'[q]].held[q] = addr'[q].host
  PROVE  \A q, r \in Live' : addr'[q] = addr'[r] => q = r
<1>1. \A q \in Live' : q \in Pkgs /\ veth'[q] \in Bridges /\ addr'[q].host # Free
  BY DEF ShapeInv, TypeOK, Live, Addrs, Hosts, Free
<1>2. SUFFICES ASSUME NEW q \in Live', NEW r \in Live', addr'[q] = addr'[r]
               PROVE  q = r
  OBVIOUS
<1>3. veth'[q] = veth'[r]
  BY <1>2 DEF SubnetInv
<1>4. tracked[veth'[q]].held \in [Pkgs -> Hosts \cup {Free}]
  BY <1>1 DEF BridgeTable
<1>5. /\ tracked[veth'[q]].held[q] = tracked[veth'[q]].held[r]
      /\ tracked[veth'[q]].held[q] # Free
  BY <1>1, <1>2, <1>3
<1>. QED BY <1>1, <1>4, <1>5 DEF Distinct

LEMMA AddressUp ==
  ASSUME ShapeInv', SubnetInv', phase' = "up",
         \A b \in Bridges : Distinct(bridges'[b].held),
         \A q \in Live' : bridges'[veth'[q]].held[q] = addr'[q].host
  PROVE  AddressInv'
<1>1. bridges' \in BridgeTable
  BY DEF ShapeInv, TypeOK, BridgeTable
<1>2. \A q, r \in Live' : addr'[q] = addr'[r] => q = r
  BY <1>1, TablesTellAddresses
<1>. QED BY <1>2 DEF AddressInv, Restored

\* The tables of an attach fit the host as netavark leaves it.
LEMMA WiredAddresses ==
  ASSUME ShapeInv, SubnetInv, AddressInv, phase = "up", NEW p \in Pkgs,
         NEW b \in Bridges, ~Exhausted(p, b), veth[p] = "none",
         NEW a \in {NoAddr, AddressFor(p, b)}, Wire(p, b, a)
  PROVE  /\ \A c \in Bridges : Distinct(BridgesFor(p, b)[c].held)
         /\ \A q \in Live' : BridgesFor(p, b)[veth'[q]].held[q] = addr'[q].host
<1>. DEFINE tracked == BridgesFor(p, b)
<1>1. /\ \A c \in Bridges \ {b} : tracked[c] = bridges[c]
      /\ \A q \in Pkgs \ {p} : tracked[b].held[q] = bridges[b].held[q]
      /\ Distinct(bridges[b].held) => Distinct(tracked[b].held)
      /\ AddressFor(p, b) = Addr(tracked[b].subnet, tracked[b].held[p])
  BY AttachEffect
<1>2. AddressFor(p, b) \in Addrs /\ AddressFor(p, b).host = tracked[b].held[p]
  BY <1>1, AttachedShape DEF Addr
<1>. HIDE DEF tracked
<1>3. \A c \in Bridges : Distinct(tracked[c].held)
  BY <1>1 DEF AddressInv
<1>4. \A q \in Live' :
            IF q = p THEN veth'[q] = b /\ addr'[q] = a /\ a # NoAddr
            ELSE q \in Live /\ veth'[q] = veth[q] /\ addr'[q] = addr[q]
  BY <1>2, WiredLive
<1>5. Restored = Live
  BY AttachSubnets
<1>6. \A q \in Live' : tracked[veth'[q]].held[q] = addr'[q].host
  BY <1>1, <1>2, <1>4, <1>5, LiveTyped DEF AddressInv
<1>. QED BY <1>3, <1>6 DEF tracked

LEMMA AddressAttachNew ==
  ASSUME ShapeInv, ShapeInv', SubnetInv, SubnetInv', AddressInv, NEW p \in Pkgs, AttachNew(p)
  PROVE  AddressInv'
<1>. DEFINE b == bridge[p]
<1>1. /\ b \in Bridges /\ ~Exhausted(p, b) /\ veth[p] = "none" /\ phase = "up"
      /\ bridges' = BridgesFor(p, b)
      /\ Wire(p, b, AddressFor(p, b)) /\ phase' = "up"
  BY DEF AttachNew, CanSetup, Present, ShapeInv, TypeOK, start
<1>. HIDE DEF b
<1>. QED BY <1>1, WiredAddresses, AddressUp

\* A release takes no address from another package.
LEMMA ReleaseAddresses ==
  ASSUME NEW p \in Pkgs, NEW b \in Bridges,
         NEW table \in SubnetTable, NEW tracked \in BridgeTable,
         NEW present \in SUBSET Bridges,
         ReleaseAddress(p, b, table, tracked, present),
         \A c \in Bridges : Distinct(tracked[c].held)
  PROVE  /\ \A c \in Bridges : Distinct(bridges'[c].held)
         /\ \A c \in Bridges, q \in Pkgs \ {p} : bridges'[c].held[q] = tracked[c].held[q]
<1>1. /\ bridges' \in BridgeTable
      /\ \A c \in Bridges \ {b} : bridges'[c] = tracked[c]
      /\ \A q \in Pkgs \ {p} : bridges'[b].held[q] = tracked[b].held[q]
      /\ bridges'[b].held[p] = Free
  BY ReleaseEffect
<1>2. DOMAIN bridges'[b].held = Pkgs /\ DOMAIN tracked[b].held = Pkgs
  BY <1>1 DEF BridgeTable
<1>3. Distinct(bridges'[b].held)
  BY <1>1, <1>2 DEF Distinct
<1>. QED BY <1>1, <1>3

LEMMA AddressAttachFails ==
  ASSUME ShapeInv, ShapeInv', SubnetInv, SubnetInv', AddressInv, UndoesSetups,
         NEW p \in Pkgs, AttachFails(p)
  PROVE  AddressInv'
<1>. DEFINE b == bridge[p]
            tracked == BridgesFor(p, b)
<1>1. /\ b \in Bridges /\ ~Exhausted(p, b) /\ veth[p] = "none" /\ phase = "up" /\ phase' = "up"
      /\ UNCHANGED <<wires, ns>>
  BY DEF AttachFails, CanSetup, Present, ShapeInv, TypeOK, start, UndoesSetups
<1>2. PICK present \in SUBSET Bridges :
        ReleaseAddress(p, b, SlotsFor(b), tracked, present)
  BY AttachFailsTables
<1>. HIDE DEF b
<1>3. /\ SlotsFor(b) \in SubnetTable /\ tracked \in BridgeTable
      /\ \A c \in Bridges \ {b} : tracked[c] = bridges[c]
      /\ \A q \in Pkgs \ {p} : tracked[b].held[q] = bridges[b].held[q]
      /\ Distinct(bridges[b].held) => Distinct(tracked[b].held)
  BY <1>1, AttachEffect
<1>4. /\ Live' = Live /\ veth' = veth /\ addr' = addr
      /\ p \notin Live /\ Restored = Live
  BY <1>1, AttachSubnets DEF Live, wires
<1>. HIDE DEF tracked
<1>5. \A c \in Bridges : Distinct(tracked[c].held)
  BY <1>3 DEF AddressInv
<1>6. /\ \A c \in Bridges : Distinct(bridges'[c].held)
      /\ \A c \in Bridges, q \in Pkgs \ {p} : bridges'[c].held[q] = tracked[c].held[q]
  BY <1>1, <1>2, <1>3, <1>5, ReleaseAddresses
<1>7. \A q \in Live' : bridges'[veth'[q]].held[q] = addr'[q].host
  BY <1>1, <1>3, <1>4, <1>6, LiveTyped DEF AddressInv
<1>. QED BY <1>1, <1>6, <1>7, AddressUp

LEMMA AddressDetach ==
  ASSUME ShapeInv, ShapeInv', SubnetInv', AddressInv, NEW p \in Pkgs, Detach(p)
  PROVE  AddressInv'
<1>1. phase = "up" /\ phase' = "up" /\ UNCHANGED start
  BY DEF Detach, start
<1>2. CASE WithoutVeth(p) /\ ReleaseAddress(p, bridge[p], slots, bridges, links)
  <2>1. /\ slots \in SubnetTable /\ bridges \in BridgeTable /\ links \in SUBSET Bridges
        /\ bridge[p] \in Bridges
    BY DEF ShapeInv, TypeOK, SubnetTable, BridgeTable
  <2>2. /\ \A c \in Bridges : Distinct(bridges'[c].held)
        /\ \A c \in Bridges, q \in Pkgs \ {p} : bridges'[c].held[q] = bridges[c].held[q]
    BY <1>2, <2>1, ReleaseAddresses DEF AddressInv
  <2>3. \A q \in Live' : q # p /\ q \in Live /\ veth'[q] = veth[q] /\ addr'[q] = addr[q]
    BY <1>2, WithoutVethShape, LiveTyped
  <2>4. Restored = Live
    BY <1>1 DEF ShapeInv, Restored
  <2>5. \A q \in Live' : bridges'[veth'[q]].held[q] = addr'[q].host
    BY <2>2, <2>3, <2>4, LiveTyped DEF AddressInv
  <2>. QED BY <1>1, <2>2, <2>5, AddressUp
<1>3. CASE UNCHANGED <<slots, bridges, host>>
  <2>1. Live' = Live /\ UNCHANGED <<memory, start, veth, addr>>
    BY <1>3 DEF Live, Detach, memory, host, wires
  <2>. QED BY <1>1, <2>1, AddressSameTables
<1>. QED BY <1>2, <1>3 DEF Detach

LEMMA AddressDies ==
  ASSUME Dies, \A q, r \in Live' : addr'[q] = addr'[r] => q = r
  PROVE  AddressInv'
BY DEF Dies, AddressInv, Restored, Distinct, NoBridge, Tracked, Free

LEMMA AddressClaim ==
  ASSUME ShapeInv, SubnetInv, AddressInv, NEW p \in Pkgs, ClaimAttach(p)
  PROVE  AddressInv'
<1>. DEFINE b == veth[p]
            h == addr[p].host
<1>1. /\ phase' = "claim" /\ phase = "claim" /\ veth' = veth /\ addr' = addr
  BY DEF ClaimAttach, host, wires
<1>2. /\ b \in Bridges /\ p \in Found /\ h \in Hosts /\ h # Free
      /\ bridges[b].held \in [Pkgs -> Hosts \cup {Free}]
  BY ClaimEffect, FoundIsLive, LiveTyped DEF ShapeInv, TypeOK
<1>3. \A q \in Pkgs \ {p} : bridges[b].held[q] # h
  <2>. SUFFICES ASSUME NEW q \in Pkgs \ {p}, bridges[b].held[q] = h PROVE FALSE
    OBVIOUS
  <2>1. q \in Found /\ veth[q] = b /\ addr[q].host = h
    BY <1>1, <1>2 DEF AddressInv
  <2>2. addr[q].sub = addr[p].sub
    BY <2>1, ClaimAccepted
  <2>3. addr[q] \in Addrs /\ addr[p] \in Addrs
    BY <1>2, <2>1, FoundIsLive, LiveTyped
  <2>4. addr[q] = addr[p]
    BY <2>1, <2>2, <2>3 DEF Addrs
  <2>. QED BY <1>2, <2>1, <2>4, FoundIsLive DEF AddressInv
<1>4. CanClaim(bridges[b].held, p, h)
  BY <1>2, <1>3 DEF CanClaim
<1>5. /\ bridges' \in BridgeTable
      /\ \A c \in Bridges \ {b} : bridges'[c] = bridges[c]
      /\ \A q \in Pkgs \ {p} : bridges'[b].held[q] = bridges[b].held[q]
      /\ bridges'[b].held[p] = h
  BY <1>4, ClaimEffect, ClaimAccepted
<1>6. Distinct(bridges'[b].held)
  <2>1. DOMAIN bridges[b].held = Pkgs /\ DOMAIN bridges'[b].held = Pkgs
    BY <1>2, <1>5 DEF BridgeTable
  <2>2. Distinct(bridges[b].held)
    BY <1>2 DEF AddressInv
  <2>. QED BY <1>3, <1>5, <2>1, <2>2 DEF Distinct
<1>7. \A c \in Bridges : Distinct(bridges'[c].held)
  BY <1>5, <1>6 DEF AddressInv
<1>8. \A q, r \in Live' : addr'[q] = addr'[r] => q = r
  BY <1>1, ClaimAccepted DEF AddressInv
<1>9. \A q \in Restored' : bridges'[veth'[q]].held[q] = addr'[q].host
  <2>1. \A q \in Restored : q \in Found /\ bridges[veth[q]].held[q] = addr[q].host
    BY <1>1 DEF AddressInv, Restored
  <2>2. \A q \in Restored : veth[q] \in Bridges /\ q \in Pkgs
    BY <2>1, FoundIsLive, LiveTyped
  <2>. QED BY <1>1, <1>2, <1>5, <2>1, <2>2, ClaimAccepted
<1>10. \A c \in Bridges, q \in Pkgs : bridges'[c].held[q] # Free =>
         q \in Found' /\ veth'[q] = c /\ addr'[q].host = bridges'[c].held[q]
  BY <1>1, <1>2, <1>5, ClaimAccepted DEF AddressInv
<1>. QED BY <1>7, <1>8, <1>9, <1>10 DEF AddressInv

LEMMA AddressStep ==
  ASSUME ShapeInv, ShapeInv', SeesAll, SubnetInv, SubnetInv', UndoesSetups, AddressInv,
         [Next]_vars
  PROVE  AddressInv'
<1>. USE DEF memory, host, wires, start, users
<1>1. ASSUME NEW p \in Pkgs,
             Adopt(p) \/ AttachRefused(p) \/ StartContainer(p) \/ StopContainer(p)
             \/ Upgrade(p)
      PROVE  AddressInv'
  <2>1. UNCHANGED <<memory, host, start>>
    BY <1>1 DEF Adopt, AttachRefused, StartContainer, StopContainer, Upgrade
  <2>2. Live' = Live /\ Found' = Found
    BY <2>1 DEF Live, Found
  <2>. QED BY <2>1, <2>2, AddressSameTables
<1>2. ASSUME NEW p \in Pkgs, CreateNetns(p) \/ DestroyNetns(p)
      PROVE  AddressInv'
  <2>1. phase = "up" /\ UNCHANGED <<memory, wires, start>>
    BY <1>2 DEF CreateNetns, DestroyNetns
  <2>2. Live' = Live
    BY <2>1 DEF Live
  <2>. QED BY <2>1, <2>2, AddressSameTables
<1>3. ASSUME NEW p \in Pkgs, NamespaceDies(p)
      PROVE  AddressInv'
  <2>1. WithoutVeth(p) /\ p \notin Found /\ UNCHANGED <<memory, start>>
    BY <1>3 DEF NamespaceDies, Found
  <2>2. Found' = Found /\ Live' = Live \ {p}
    BY <2>1, WithoutVethShape
  <2>3. \A q \in Live' : veth'[q] = veth[q] /\ addr'[q] = addr[q]
    BY <2>1, <2>2, WithoutVethShape, LiveTyped
  <2>. QED BY <2>1, <2>2, <2>3, AddressSameTables
<1>4. ASSUME Crash PROVE AddressInv'
  <2>1. Live' = Live /\ addr' = addr /\ Dies
    BY <1>4 DEF Crash, Live
  <2>. QED BY <2>1, AddressDies DEF AddressInv
<1>5. ASSUME NEW p \in Pkgs, CrashInSetup(p)
      PROVE  AddressInv'
  <2>1. /\ bridge[p] \in Bridges /\ ~Exhausted(p, bridge[p]) /\ veth[p] = "none"
        /\ phase = "up" /\ Dies
    BY <1>5 DEF CrashInSetup, CanSetup, Present, ShapeInv, TypeOK
  <2>2. PICK a \in {NoAddr, AddressFor(p, bridge[p])} : Wire(p, bridge[p], a)
    BY <1>5 DEF CrashInSetup
  <2>3. /\ \A c \in Bridges : Distinct(BridgesFor(p, bridge[p])[c].held)
        /\ \A q \in Live' : BridgesFor(p, bridge[p])[veth'[q]].held[q] = addr'[q].host
    BY <2>1, <2>2, WiredAddresses
  <2>4. BridgesFor(p, bridge[p]) \in BridgeTable
    BY <2>1, AttachEffect
  <2>. QED BY <2>1, <2>3, <2>4, TablesTellAddresses, AddressDies
<1>6. ASSUME Scan PROVE AddressInv'
  <2>1. /\ phase = "scan" /\ phase' = "claim" /\ UNCHANGED <<memory, host>>
        /\ plan' = Found
    BY <1>6 DEF Scan, SeesAll
  <2>2. Live' = Live /\ Found' = Found
    BY <2>1 DEF Live, Found
  <2>3. Restored' = {}
    BY <2>1, <2>2 DEF Restored
  <2>4. \A c \in Bridges, q \in Pkgs : bridges'[c].held[q] = Free
    BY <2>1 DEF ShapeInv, NoBridge, Tracked
  <2>. QED BY <2>1, <2>2, <2>3, <2>4 DEF AddressInv
<1>7. ASSUME NEW p \in Pkgs, Reserve(p) PROVE AddressInv'
  BY <1>7 DEF Reserve, SubnetInv
<1>8. ASSUME CleanupOrphans PROVE AddressInv'
  <2>1. /\ phase = "claim" /\ phase' = "up" /\ plan = {}
        /\ UNCHANGED <<memory, plan, reserves>>
    BY <1>8 DEF CleanupOrphans
  <2>2. /\ Live' = Found
        /\ \A q \in Live' : veth'[q] = veth[q] /\ addr'[q] = addr[q]
    BY <1>8, CleanupEffect DEF Found
  <2>3. Restored = Found
    BY <2>1 DEF Restored
  <2>. QED BY <2>1, <2>2, <2>3, AddressUp DEF AddressInv
<1>9. CASE UNCHANGED vars
  BY <1>9, AddressSameTables DEF vars, Live, Found
<1>. QED
  BY <1>1, <1>2, <1>3, <1>4, <1>5, <1>6, <1>7, <1>8, <1>9, AddressAttachNew,
     AddressAttachFails, AddressDetach, AddressClaim
  DEF Next

-----------------------------------------------------------------------------
(* Adoption *)

LEMMA AdoptInit == Init => AdoptInv
BY DEF Init, AdoptInv, AdoptOf

\* The tables have for q what they had, and a table that has something for q is
\* still over its subnet.
Kept(q) ==
    \A c \in Bridges :
        /\ bridges'[c].held[q] = bridges[c].held[q]
        /\ bridges[c].held[q] # Free => bridges'[c].subnet = bridges[c].subnet

LEMMA AdoptKept ==
  ASSUME ShapeInv, NEW q \in Pkgs, AdoptOf(q), Kept(q),
         veth'[q] = veth[q], addr'[q] = addr[q], ns'[q] = ns[q],
         step'[q] = step[q], bridge'[q] = bridge[q]
  PROVE  AdoptOf(q)'
<1>1. bridge[q] \in Bridges
  BY DEF ShapeInv, TypeOK
<1>. QED BY <1>1 DEF AdoptOf, Kept, NetworkOn

LEMMA AttachKeeps ==
  ASSUME ShapeInv, NEW p \in Pkgs, NEW b \in Bridges, ~Exhausted(p, b), NEW q \in Pkgs \ {p}
  PROVE  LET tracked == BridgesFor(p, b)
         IN  \A c \in Bridges :
                /\ tracked[c].held[q] = bridges[c].held[q]
                /\ bridges[c].held[q] # Free => tracked[c].subnet = bridges[c].subnet
BY AttachEffect

LEMMA ReleaseKeeps ==
  ASSUME NEW p \in Pkgs, NEW b \in Bridges,
         NEW table \in SubnetTable, NEW tracked \in BridgeTable,
         NEW present \in SUBSET Bridges,
         ReleaseAddress(p, b, table, tracked, present), NEW q \in Pkgs \ {p}
  PROVE  \A c \in Bridges :
            /\ bridges'[c].held[q] = tracked[c].held[q]
            /\ tracked[c].held[q] # Free => bridges'[c].subnet = tracked[c].subnet
BY ReleaseEffect

LEMMA AdoptNamespaces ==
  ASSUME ShapeInv, AdoptInv, NEW p \in Pkgs, CreateNetns(p) \/ DestroyNetns(p)
  PROVE  AdoptInv'
<1>1. /\ UNCHANGED <<memory, veth, addr>> /\ ns' = [ns EXCEPT ![p] = ns'[p]]
      /\ ns[p] = "wired" => ns'[p] = "wired" \/ DestroyNetns(p)
      /\ \E s \in {"created", "release", "off"} : Goto(p, s)
  <2>1. ns \in [Pkgs -> {"none", "plain", "wired"}]
    BY DEF ShapeInv, TypeOK
  <2>. QED BY <2>1 DEF CreateNetns, DestroyNetns, wires
<1>2. /\ \A q \in Pkgs \ {p} : ns'[q] = ns[q] /\ step'[q] = step[q]
      /\ UNCHANGED bridge
  BY <1>1, GotoKeeps DEF ShapeInv, TypeOK
<1>3. ASSUME NEW q \in Pkgs \ {p} PROVE AdoptOf(q)'
  BY <1>1, <1>2, AdoptKept DEF AdoptInv, Kept, memory
<1>4. AdoptOf(p)'
  <2>1. CASE DestroyNetns(p)
    <3>1. veth[p] = "none" /\ step'[p] = "off"
      BY <2>1, GotoKeeps DEF DestroyNetns, AdoptInv, AdoptOf, ShapeInv
    <3>. QED BY <1>1, <3>1 DEF AdoptOf
  <2>2. CASE CreateNetns(p)
    <3>1. step[p] \in {"verified", "off"} /\ step'[p] \in {"created", "release"}
      BY <2>2, GotoKeeps DEF CreateNetns, ShapeInv
    <3>2. veth[p] # "none" => ns'[p] = "wired" /\ step[p] = "verified"
      BY <1>1, <2>2, <3>1 DEF AdoptInv, AdoptOf, CreateNetns, ShapeInv, TypeOK
    <3>. QED BY <1>1, <3>1, <3>2 DEF AdoptInv, AdoptOf, NetworkOn, memory
  <2>. QED BY <2>1, <2>2
<1>. QED BY <1>3, <1>4 DEF AdoptInv

LEMMA AdoptHandled ==
  ASSUME ShapeInv, AdoptInv, NEW p \in Pkgs, Adopt(p) \/ AttachRefused(p)
  PROVE  AdoptInv'
<1>1. /\ UNCHANGED <<memory, host>>
      /\ \E s \in {"on", "release"} : Goto(p, s)
  BY DEF Adopt, AttachRefused
<1>2. \A q \in Pkgs \ {p} : step'[q] = step[q]
  BY <1>1, GotoKeeps DEF ShapeInv
<1>3. UNCHANGED bridge
  BY <1>1 DEF Goto
<1>4. ASSUME NEW q \in Pkgs \ {p} PROVE AdoptOf(q)'
  BY <1>1, <1>2, <1>3, AdoptKept DEF AdoptInv, Kept, memory, host, wires
<1>5. AdoptOf(p)'
  <2>1. step'[p] = "on" => /\ step[p] = "created" /\ veth[p] # "none"
                           /\ bridges[bridge[p]].held[p] # Free
    BY GotoKeeps DEF Adopt, AttachRefused, Present, ShapeInv
  <2>2. step'[p] \in {"on", "release"} /\ bridge[p] \in Bridges
    BY <1>1, GotoKeeps DEF ShapeInv, TypeOK
  <2>. QED BY <1>1, <1>3, <2>1, <2>2 DEF AdoptInv, AdoptOf, NetworkOn, memory, host, wires
<1>. QED BY <1>4, <1>5 DEF AdoptInv

LEMMA AdoptAttachNew ==
  ASSUME ShapeInv, AdoptInv, NEW p \in Pkgs, AttachNew(p)
  PROVE  AdoptInv'
<1>. DEFINE b == bridge[p]
<1>1. /\ b \in Bridges /\ ~Exhausted(p, b) /\ bridges' = BridgesFor(p, b)
      /\ Wire(p, b, AddressFor(p, b)) /\ Goto(p, "on")
  BY DEF AttachNew, CanSetup, Present, ShapeInv, TypeOK
<1>2. AddressFor(p, b) \in Addrs
  BY <1>1, AttachedShape
<1>3. /\ \A q \in Pkgs \ {p} : step'[q] = step[q]
      /\ step'[p] = "on" /\ UNCHANGED bridge
  BY <1>1, GotoKeeps DEF ShapeInv
<1>. HIDE DEF b
<1>4. /\ veth'[p] = b /\ addr'[p] = AddressFor(p, b) /\ ns'[p] = "wired"
      /\ \A q \in Pkgs \ {p} : veth'[q] = veth[q] /\ addr'[q] = addr[q] /\ ns'[q] = ns[q]
  BY <1>1, <1>2, NewLinkShape
<1>5. ASSUME NEW q \in Pkgs \ {p} PROVE AdoptOf(q)'
  <2>1. Kept(q)
    BY <1>1, AttachKeeps DEF Kept
  <2>. QED BY <1>3, <1>4, <2>1, AdoptKept DEF AdoptInv
<1>6. AdoptOf(p)'
  <2>1. /\ addr'[p] = Addr(bridges'[b].subnet, bridges'[b].held[p])
        /\ bridges'[b].held[p] # Free
    BY <1>1, <1>4, AttachEffect DEF Hosts, Free
  <2>2. bridge'[p] = b
    BY <1>3 DEF b
  <2>. QED BY <1>3, <1>4, <2>1, <2>2 DEF AdoptOf, NetworkOn
<1>. QED BY <1>5, <1>6 DEF AdoptInv

LEMMA AdoptAttachFails ==
  ASSUME ShapeInv, AdoptInv, "delete" \notin faults, NEW p \in Pkgs, AttachFails(p)
  PROVE  AdoptInv'
<1>. DEFINE b == bridge[p]
            tracked == BridgesFor(p, b)
<1>1. /\ b \in Bridges /\ ~Exhausted(p, b) /\ Goto(p, "release")
      /\ UNCHANGED <<wires, ns>>
  BY DEF AttachFails, CanSetup, Present, ShapeInv, TypeOK
<1>2. PICK present \in SUBSET Bridges :
        ReleaseAddress(p, b, SlotsFor(b), tracked, present)
  BY AttachFailsTables
<1>. HIDE DEF b
<1>3. SlotsFor(b) \in SubnetTable /\ tracked \in BridgeTable
  BY <1>1, AttachEffect
<1>4. /\ \A q \in Pkgs \ {p} : step'[q] = step[q]
      /\ step'[p] = "release" /\ UNCHANGED bridge
  BY <1>1, GotoKeeps DEF ShapeInv
<1>5. ASSUME NEW q \in Pkgs \ {p} PROVE AdoptOf(q)'
  <2>1. \A c \in Bridges :
                /\ tracked[c].held[q] = bridges[c].held[q]
                /\ bridges[c].held[q] # Free => tracked[c].subnet = bridges[c].subnet
    BY <1>1, AttachKeeps
  <2>. HIDE DEF tracked
  <2>2. \A c \in Bridges :
            /\ bridges'[c].held[q] = tracked[c].held[q]
            /\ tracked[c].held[q] # Free => bridges'[c].subnet = tracked[c].subnet
    BY <1>1, <1>2, <1>3, ReleaseKeeps
  <2>. QED BY <1>1, <1>4, <2>1, <2>2, AdoptKept DEF AdoptInv, Kept, wires
<1>6. AdoptOf(p)'
  BY <1>1, <1>4 DEF AdoptInv, AdoptOf, wires
<1>. QED BY <1>5, <1>6 DEF AdoptInv

LEMMA AdoptDetach ==
  ASSUME ShapeInv, AdoptInv, "delete" \notin faults, NEW p \in Pkgs, Detach(p)
  PROVE  AdoptInv'
<1>1. /\ WithoutVeth(p) /\ ReleaseAddress(p, bridge[p], slots, bridges, links)
      /\ Goto(p, "detached")
  BY DEF Detach
<1>2. /\ slots \in SubnetTable /\ bridges \in BridgeTable /\ links \in SUBSET Bridges
      /\ bridge[p] \in Bridges
  BY DEF ShapeInv, TypeOK, SubnetTable, BridgeTable
<1>3. /\ \A q \in Pkgs \ {p} : step'[q] = step[q]
      /\ step'[p] = "detached" /\ UNCHANGED bridge
  BY <1>1, GotoKeeps DEF ShapeInv
<1>4. ASSUME NEW q \in Pkgs \ {p} PROVE AdoptOf(q)'
  <2>1. Kept(q)
    BY <1>1, <1>2, ReleaseKeeps DEF Kept
  <2>. QED BY <1>1, <1>3, <2>1, WithoutVethShape, AdoptKept DEF AdoptInv
<1>5. AdoptOf(p)'
  BY <1>1, <1>3, WithoutVethShape DEF AdoptOf
<1>. QED BY <1>4, <1>5 DEF AdoptInv

LEMMA AdoptUsers ==
  ASSUME ShapeInv, AdoptInv, NEW p \in Pkgs,
         StartContainer(p) \/ StopContainer(p) \/ Upgrade(p)
  PROVE  AdoptInv'
<1>1. UNCHANGED <<memory, host>>
  BY DEF StartContainer, StopContainer, Upgrade
<1>2. /\ \A q \in Pkgs \ {p} : step'[q] = step[q] /\ bridge'[q] = bridge[q]
      /\ \/ step'[p] = step[p] /\ bridge'[p] = bridge[p]
         \/ step[p] \in {"verified", "off"} /\ step'[p] = "verified"
  BY DEF StartContainer, StopContainer, Upgrade, ShapeInv, TypeOK
<1>3. ASSUME NEW q \in Pkgs, step'[q] = step[q], bridge'[q] = bridge[q]
      PROVE  AdoptOf(q)'
  BY <1>1, <1>3, AdoptKept DEF AdoptInv, Kept, memory, host, wires
<1>4. ASSUME step[p] \in {"verified", "off"}, step'[p] = "verified"
      PROVE  AdoptOf(p)'
  BY <1>1, <1>4 DEF AdoptInv, AdoptOf, NetworkOn, memory, host, wires
<1>. QED BY <1>2, <1>3, <1>4 DEF AdoptInv

\* At the start of the daemon every package is Verified.
LEMMA AdoptAtStart ==
  ASSUME \A q \in Pkgs : veth'[q] # "none" => ns'[q] = "wired",
         step' = [q \in Pkgs |-> "verified"],
         \A q \in Pkgs, c \in Bridges : bridges'[c].held[q] # Free => NetworkOn(q, c)'
  PROVE  AdoptInv'
BY DEF AdoptInv, AdoptOf

LEMMA AdoptDies ==
  ASSUME Dies, \A q \in Pkgs : veth'[q] # "none" => ns'[q] = "wired"
  PROVE  AdoptInv'
<1>1. \A q \in Pkgs, c \in Bridges : bridges'[c].held[q] = Free
  BY DEF Dies, NoBridge, Tracked
<1>. QED BY <1>1, AdoptAtStart DEF Dies

LEMMA AdoptClaim ==
  ASSUME ShapeInv, AdoptInv, NEW p \in Pkgs, ClaimAttach(p)
  PROVE  AdoptInv'
<1>. DEFINE b == veth[p]
            s == addr[p].sub
<1>1. /\ phase = "claim" /\ UNCHANGED <<host, users>>
      /\ step = [q \in Pkgs |-> "verified"]
  BY DEF ClaimAttach, ShapeInv
<1>2. /\ b \in Bridges /\ addr[p] \in Addrs /\ ns[p] = "wired"
      /\ \A c \in Bridges \ {b} : bridges'[c] = bridges[c]
      /\ \A q \in Pkgs \ {p} : bridges'[b].held[q] = bridges[b].held[q]
      /\ ~CanClaim(slots, b, s) => bridges' = bridges
      /\ CanClaim(slots, b, s) =>
           /\ bridges'[b].subnet = IF IsTracked(b) THEN bridges[b].subnet ELSE s
           /\ IF /\ IsTracked(b) => s = bridges[b].subnet
                 /\ CanClaim(bridges[b].held, p, addr[p].host)
              THEN bridges'[b].held[p] = addr[p].host
              ELSE bridges'[b].held[p] = bridges[b].held[p]
  BY ClaimEffect DEF Found
<1>3. \A q \in Pkgs : bridges[b].held[q] # Free => IsTracked(b)
  BY DEF IsTracked, NoBridge, Tracked
<1>4. ASSUME NEW q \in Pkgs \ {p} PROVE AdoptOf(q)'
  <2>1. Kept(q)
    BY <1>2, <1>3 DEF Kept
  <2>. QED BY <1>1, <2>1, AdoptKept DEF AdoptInv, host, wires, users
<1>5. ASSUME NEW c \in Bridges, bridges'[c].held[p] # Free
      PROVE  NetworkOn(p, c)'
  <2>1. CASE bridges'[c].held[p] = bridges[c].held[p]
    <3>1. NetworkOn(p, c)
      <4>1. step[p] = "verified" /\ veth[p] # "none" /\ bridges[c].held[p] # Free
        BY <1>1, <1>2, <1>5, <2>1, NetworkConstantsOK
      <4>. QED BY <4>1 DEF AdoptInv, AdoptOf
    <3>2. bridges'[c].subnet = bridges[c].subnet
      BY <1>2, <1>3, <1>5, <2>1
    <3>. QED BY <1>1, <2>1, <3>1, <3>2 DEF NetworkOn, host, wires
  <2>2. CASE c = b /\ bridges'[b].held[p] = addr[p].host /\ bridges'[b].subnet = s
    BY <1>1, <1>2, <2>2 DEF NetworkOn, host, wires, Addr, Addrs
  <2>. QED BY <1>2, <2>1, <2>2
<1>6. AdoptOf(p)'
  BY <1>1, <1>2, <1>5 DEF AdoptInv, AdoptOf, host, wires, users
<1>. QED BY <1>4, <1>6 DEF AdoptInv

LEMMA AdoptStep ==
  ASSUME ShapeInv, "delete" \notin faults, AdoptInv, [Next]_vars
  PROVE  AdoptInv'
<1>. USE DEF memory, host, wires, start, users
<1>1. ASSUME NEW p \in Pkgs, NamespaceDies(p) PROVE AdoptInv'
  BY <1>1 DEF NamespaceDies, AdoptInv, AdoptOf
<1>2. ASSUME NEW p \in Pkgs, CrashInSetup(p) PROVE AdoptInv'
  <2>1. /\ bridge[p] \in Bridges /\ ~Exhausted(p, bridge[p]) /\ Dies
        /\ \E a \in {NoAddr, AddressFor(p, bridge[p])} : Wire(p, bridge[p], a)
    BY <1>2 DEF CrashInSetup, CanSetup, Present, ShapeInv, TypeOK
  <2>2. AddressFor(p, bridge[p]) \in Addrs
    BY <2>1, AttachedShape
  <2>3. \A q \in Pkgs : veth'[q] # "none" => ns'[q] = "wired"
    BY <2>1, <2>2, NewLinkShape DEF AdoptInv, AdoptOf
  <2>. QED BY <2>1, <2>3, AdoptDies
<1>3. ASSUME Crash PROVE AdoptInv'
  BY <1>3, AdoptDies DEF Crash, AdoptInv, AdoptOf
<1>4. ASSUME Scan \/ (\E p \in Pkgs : Reserve(p)) \/ UNCHANGED vars PROVE AdoptInv'
  <2>1. UNCHANGED <<bridges, host, step, bridge>>
    BY <1>4 DEF Scan, Reserve, vars
  <2>. QED BY <2>1, AdoptKept DEF AdoptInv, Kept
<1>5. ASSUME CleanupOrphans PROVE AdoptInv'
  <2>1. UNCHANGED <<memory, ns, users>>
    BY <1>5 DEF CleanupOrphans
  <2>2. \A q \in Pkgs : \/ veth'[q] = veth[q] /\ addr'[q] = addr[q]
                        \/ veth[q] = "none" /\ veth'[q] = "none"
    <3>1. \A q \in Pkgs : veth[q] # "none" => ns[q] # "none"
      BY DEF AdoptInv, AdoptOf
    <3>2. /\ \A q \in Pkgs : ns[q] # "none" => veth'[q] = veth[q] /\ addr'[q] = addr[q]
          /\ \A q \in Pkgs : veth'[q] = veth[q] \/ veth'[q] = "none"
      BY <1>5, CleanupEffect
    <3>. QED BY <3>1, <3>2
  <2>3. ASSUME NEW q \in Pkgs PROVE AdoptOf(q)'
    <3>1. CASE veth'[q] = veth[q] /\ addr'[q] = addr[q]
      BY <2>1, <3>1, AdoptKept DEF AdoptInv, Kept
    <3>2. CASE veth[q] = "none" /\ veth'[q] = "none"
      <4>1. phase = "claim" /\ step[q] = "verified"
        BY <1>5 DEF CleanupOrphans, ShapeInv
      <4>. QED BY <2>1, <3>2, <4>1 DEF AdoptOf
    <3>. QED BY <2>2, <3>1, <3>2
  <2>. QED BY <2>3 DEF AdoptInv
<1>. QED
  BY <1>1, <1>2, <1>3, <1>4, <1>5, AdoptNamespaces, AdoptHandled, AdoptAttachNew,
     AdoptAttachFails, AdoptDetach, AdoptUsers, AdoptClaim
  DEF Next

-----------------------------------------------------------------------------
(* The theorems *)

LEMMA IInvInit == Init => IInv
BY ShapeInit, SubnetInit, AddressInit, AdoptInit DEF IInv

LEMMA IInvStep ==
  ASSUME IInv, [Next]_vars
  PROVE  IInv'
<1>1. ShapeInv /\ ShapeInv'
  BY ShapeStep DEF IInv
<1>2. /\ SeesAll' <=> SeesAll
      /\ UndoesSetups' <=> UndoesSetups
      /\ "delete" \notin faults' <=> "delete" \notin faults
  BY FaultsKept DEF SeesAll, UndoesSetups
<1>3. SeesAll => SubnetInv /\ SubnetInv'
  BY <1>1, SubnetStep DEF IInv
<1>4. SeesAll /\ UndoesSetups => AddressInv'
  BY <1>1, <1>3, AddressStep DEF IInv
<1>5. "delete" \notin faults => AdoptInv'
  BY <1>1, AdoptStep DEF IInv
<1>. QED BY <1>1, <1>2, <1>3, <1>4, <1>5 DEF IInv

\* Every table and every place of the actor, the host and the packages keeps its
\* type: no slot outside the pool and no host outside its subnet is handed out.
THEOREM NetworkTypeCorrect == Spec => []TypeOK
<1>1. IInv => TypeOK
  BY DEF IInv, ShapeInv
<1>. QED BY <1>1, IInvInit, IInvStep, PTL DEF Spec

\* A bridge with a package's address on it keeps its subnet (destroy_bridge), also
\* of a package whose detach failed and whose namespace has lost its name, through
\* attaches that fail, moves of its packages and restarts of the daemon.  Only the
\* veths a restart did not find by a namespace's name are left out (lost).
THEOREM LiveBridgeKeepsSubnet == Spec => []SlaveKeepsSubnet
<1>1. IInv => SlaveKeepsSubnet
  <2>. SUFFICES ASSUME ShapeInv, SubnetInv, phase = "up"
       PROVE  \A p \in Live : slots[veth[p]] = addr[p].sub
    BY DEF SlaveKeepsSubnet, IInv
  <2>1. Restored = Live
    BY DEF ShapeInv, Restored
  <2>. QED BY <2>1 DEF SubnetInv
<1>. QED BY <1>1, IInvInit, IInvStep, PTL DEF Spec

\* Two packages never have the same address (allocate, claim), however setups,
\* failed detaches, upgrades and restarts follow each other, on a host the start
\* sees whole and a failed setup leaves nothing on.  Only the veths a restart did
\* not find by a namespace's name are left out (lost).
THEOREM AddressesAreDistinct == Spec => []NoSharedAddress
<1>1. IInv => NoSharedAddress
  BY DEF NoSharedAddress, AddressInv, IInv
<1>. QED BY <1>1, IInvInit, IInvStep, PTL DEF Spec

\* What handle_attach has answered Ok is wired, on its bridge and under the address
\* of the tables, whether it was set up or adopted, as long as links can be deleted.
THEOREM AttachedIsConnected == Spec => []AttachedHasNetwork
<1>1. IInv => AttachedHasNetwork
  BY DEF AttachedHasNetwork, Attached, IInv, AdoptInv, AdoptOf, NetworkOn
<1>. QED BY <1>1, IInvInit, IInvStep, PTL DEF Spec
=============================================================================
