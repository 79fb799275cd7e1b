--------------------------- MODULE SlotAllocator ---------------------------
(***************************************************************************)
(* The lowest-free allocator of the network, which hands out host          *)
(* addresses of a bridge and subnets of the pool.  Its state is a function *)
(* from ids to keys; an id that holds nothing is mapped to Free.  Keys are *)
(* numbered from 1 in the order in which they are tried.                   *)
(***************************************************************************)
EXTENDS Naturals

Free == 0

Unheld(held, keys) == {k \in keys : \A id \in DOMAIN held : held[id] # k}

Lowest(keys) == CHOOSE k \in keys : \A other \in keys : k <= other

\* allocate succeeds if the id holds a key already or one is left.
CanAllocate(held, id, keys) == held[id] # Free \/ Unheld(held, keys) # {}

Allocated(held, id, keys) ==
    IF held[id] # Free THEN held
    ELSE [held EXCEPT ![id] = Lowest(Unheld(held, keys))]

\* claim fails, and changes nothing, if another id holds the key.  An id that
\* held another key lets go of it.
CanClaim(held, id, key) == \A other \in DOMAIN held \ {id} : held[other] # key

Claimed(held, id, key) == [held EXCEPT ![id] = key]

Released(held, id) == [held EXCEPT ![id] = Free]

IsEmpty(held) == \A id \in DOMAIN held : held[id] = Free

\* What an allocator promises: no two ids hold the same key.
Distinct(held) ==
    \A i, j \in DOMAIN held : held[i] # Free /\ held[i] = held[j] => i = j
=============================================================================
