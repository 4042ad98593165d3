------------------------------- MODULE Topics -------------------------------
(***************************************************************************)
(* The raw Kafka topics between the generator and the streaming job.       *)
(* External: Kafka keeps a log per partition and a reader's position in    *)
(* it.  A key is a (store, SKU) pair.  Records are partitioned by SKU; the *)
(* model gives every key a partition of its own, which allows every order  *)
(* of reading that fewer partitions allow.                                 *)
(***************************************************************************)
EXTENDS Integers, Sequences, FiniteSets

CONSTANTS
    Keys,        \* (store_id, sku_id) pairs.
    Quantities,  \* Quantities of an order line.
    MaxTime,     \* Bound on the clock.
    Faults,      \* The faults a run admits, of those the actions name.
    MaxFaults    \* Bound on the kinds of fault that strike.

ASSUME TopicsAssumption ==
    /\ IsFiniteSet(Keys)
    /\ Quantities \subseteq Nat \ {0}
    /\ MaxTime \in Nat
    /\ MaxFaults \in Nat

VARIABLES
    clock,
    orders,   \* raw-orders: the order events of each key.
    moves,    \* raw-inventory: on_hand_after of the movements of each key.
    faults    \* The faults that have struck, once or more often.

topicVars == <<clock, orders, moves, faults>>

Times == 0..MaxTime

\* OrderEvent, without the fields nothing distinguishes.
Order == [at : Times, qty : Quantities, anomaly : BOOLEAN]

Published == UNION {{k} \X (1..Len(orders[k])) : k \in Keys}

Event(p) == orders[p[1]][p[2]]

Fault(kind) ==
    /\ kind \in Faults
    /\ faults' = faults \cup {kind}
    /\ Cardinality(faults') <= MaxFaults

TopicsTypeOK ==
    /\ clock \in Times
    /\ orders \in [Keys -> Seq(Order)]
    /\ moves \in [Keys -> Seq(Nat)]
    /\ faults \subseteq Faults

TopicsInit ==
    /\ clock = 0
    /\ orders = [k \in Keys |-> <<>>]
    /\ moves = [k \in Keys |-> <<>>]
    /\ faults = {}

=============================================================================
