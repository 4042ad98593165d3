------------------------------ MODULE Generator ------------------------------
(***************************************************************************)
(* generator/producer.py: run, with its inventory state (inventory.py) and *)
(* anomaly injector (anomaly_injector.py).  One iteration of the loop asks *)
(* the injector, depletes the stock it names or queues a burst of orders,  *)
(* and works off the burst and one ordinary order: each a sale, an order   *)
(* event and an inventory event, or a silent restock when stock is short.  *)
(* Store, SKU and quantity of an order are free choices (Zipf, Poisson and *)
(* round-robin in the code).                                               *)
(*                                                                         *)
(* To send is to put a record into the queue of the Kafka producer         *)
(* (kafka_client.py).  Its thread (external) delivers later: the records   *)
(* of a partition go out in order, those of two topics independently.  An  *)
(* attempt that is not acknowledged may have stored the record or not; it  *)
(* is repeated (retries), so that a record can come twice or be overtaken, *)
(* or given up, which is logged and nothing else.                          *)
(***************************************************************************)
EXTENDS Topics, SequencesExt

CONSTANTS
    InitialStock,    \* Stock every key starts with.
    Restocks,        \* Levels a restock may set.
    SurgeEvery,      \* SURGE_INTERVAL_S
    StockoutEvery,   \* STOCKOUT_INTERVAL_S
    SurgeExtra,      \* surge_extra_events
    StockoutTarget,  \* stockout_target_units
    MaxSent,         \* No iteration begins after so many sales.
    MaxUnacked       \* Bound on the delivery attempts not acknowledged.

ASSUME GeneratorAssumption ==
    /\ InitialStock \in Nat /\ Restocks \subseteq Nat
    /\ {SurgeEvery, StockoutEvery, SurgeExtra, StockoutTarget} \subseteq Nat
    /\ {MaxSent, MaxUnacked} \subseteq Nat

VARIABLES
    stock,       \* InventoryState.stock
    lastSurge,   \* _last_surge_t
    lastOut,     \* _last_stockout_t
    burst,       \* burst_events still to emit: <<key, is_anomaly>>.
    half,        \* Keys whose order is sent and whose movement is not.
    eventsSent,  \* events_sent
    labels,      \* anomaly_labels.jsonl
    alive,       \* The process runs.
    orderQueue,  \* The producer's queue: the orders not delivered yet,
    moveQueue,   \* and the movements.
    unacked      \* Delivery attempts that were not acknowledged.

senderVars == <<orderQueue, moveQueue, unacked>>
loopVars == <<stock, lastSurge, lastOut, burst, half, eventsSent, labels, alive>>
generatorVars == <<loopVars, senderVars>>

\* A queued record, and whether a first attempt to deliver it was made.
Queued(S) == [event : S, tried : BOOLEAN]

GeneratorTypeOK ==
    /\ stock \in [Keys -> Nat]
    /\ {lastSurge, lastOut} \subseteq Times
    /\ burst \in Seq(Keys \X BOOLEAN)
    /\ half \subseteq Keys
    /\ labels \subseteq [type : {"surge", "stockout_risk"}, key : Keys, at : Times]
    /\ alive \in BOOLEAN
    /\ orderQueue \in [Keys -> Seq(Queued(Order))]
    /\ moveQueue \in [Keys -> Seq(Queued(Nat))]
    /\ {eventsSent, unacked} \subseteq Nat

NothingQueued == [k \in Keys |-> <<>>]

GeneratorInit ==
    /\ stock = [k \in Keys |-> InitialStock]
    /\ lastSurge = 0
    /\ lastOut = 0
    /\ burst = <<>>
    /\ half = {}
    /\ eventsSent = 0
    /\ labels = {}
    /\ alive = TRUE
    /\ orderQueue = NothingQueued
    /\ moveQueue = NothingQueued
    /\ unacked = 0

Log(type, k) == labels' = labels \cup {[type |-> type, key |-> k, at |-> clock]}

SurgeDue == clock - lastSurge >= SurgeEvery
StockoutDue == clock - lastOut >= StockoutEvery

Iterate == alive /\ burst = <<>> /\ half = {} /\ eventsSent < MaxSent

\* One ordinary order, queued last.
Plain == \E k \in Keys : burst' = <<<<k, FALSE>>>>

\* A surge that is due goes first; its timer restarts at once.
Surge ==
    /\ Iterate
    /\ SurgeDue
    /\ lastSurge' = clock
    /\ \E k, n \in Keys :
          /\ Log("surge", k)
          /\ burst' = Append([i \in 1..SurgeExtra |-> <<k, TRUE>>], <<n, FALSE>>)
    /\ UNCHANGED <<stock, lastOut, half, eventsSent, alive, senderVars, topicVars>>

\* The depletion itself sends no event.
Stockout ==
    /\ Iterate
    /\ ~SurgeDue
    /\ StockoutDue
    /\ lastOut' = clock
    /\ \E k \in Keys :
          /\ Log("stockout_risk", k)
          /\ stock' = [stock EXCEPT ![k] = IF @ < StockoutTarget THEN @ ELSE StockoutTarget]
    /\ Plain
    /\ UNCHANGED <<lastSurge, half, eventsSent, alive, senderVars, topicVars>>

Quiet ==
    /\ Iterate
    /\ ~SurgeDue
    /\ ~StockoutDue
    /\ Plain
    /\ UNCHANGED <<stock, lastSurge, lastOut, half, eventsSent, labels, alive, senderVars, topicVars>>

Turn == burst # <<>> /\ half = {}

\* send: the record waits for the producer's thread.
Enqueue(queue, k, event) ==
    queue' = [queue EXCEPT ![k] = Append(@, [event |-> event, tried |-> FALSE])]

\* Mutant: sells without looking at the stock.
Sell_Unchecked ==
    /\ Turn
    /\ LET k == Head(burst)[1]
       IN  \E q \in Quantities :
              /\ stock' = [stock EXCEPT ![k] = @ - q]
              /\ Enqueue(orderQueue, k, [at |-> clock, qty |-> q, anomaly |-> Head(burst)[2]])
              /\ half' = {k}
    /\ burst' = Tail(burst)
    /\ UNCHANGED <<lastSurge, lastOut, eventsSent, labels, alive, moveQueue, unacked, topicVars>>

\* sell takes the stock before anything is sent; the order goes first.
Sell ==
    /\ Turn
    /\ LET k == Head(burst)[1]
       IN  \E q \in Quantities :
              /\ stock[k] >= q
              /\ stock' = [stock EXCEPT ![k] = @ - q]
              /\ Enqueue(orderQueue, k, [at |-> clock, qty |-> q, anomaly |-> Head(burst)[2]])
              /\ half' = {k}
    /\ burst' = Tail(burst)
    /\ UNCHANGED <<lastSurge, lastOut, eventsSent, labels, alive, moveQueue, unacked, topicVars>>

\* Mutant: reports the level before the sale.
SendMovement_Before ==
    /\ \E k \in half, q \in Quantities : Enqueue(moveQueue, k, stock[k] + q)
    /\ half' = {}
    /\ eventsSent' = eventsSent + 1
    /\ UNCHANGED <<stock, lastSurge, lastOut, burst, labels, alive, orderQueue, unacked, topicVars>>

SendMovement ==
    /\ \E k \in half : Enqueue(moveQueue, k, stock[k])
    /\ half' = {}
    /\ eventsSent' = eventsSent + 1
    /\ UNCHANGED <<stock, lastSurge, lastOut, burst, labels, alive, orderQueue, unacked, topicVars>>

\* Short of stock: restock, and neither sell nor send anything.
Restock ==
    /\ Turn
    /\ LET k == Head(burst)[1]
       IN  /\ \E q \in Quantities : stock[k] < q
           /\ \E level \in Restocks : stock' = [stock EXCEPT ![k] = level]
    /\ burst' = Tail(burst)
    /\ UNCHANGED <<lastSurge, lastOut, half, eventsSent, labels, alive, senderVars, topicVars>>

\* A kill ends the process, or an exception out of send (the queue is full),
\* after which flush waits ten seconds for deliveries.  What is still queued
\* is lost.  The next process starts over from GeneratorInit, behind its
\* topics.
GeneratorDies ==
    /\ alive
    /\ Fault("generator")
    /\ alive' = FALSE
    /\ burst' = <<>>
    /\ half' = {}
    /\ orderQueue' = NothingQueued
    /\ moveQueue' = NothingQueued
    /\ UNCHANGED <<stock, lastSurge, lastOut, eventsSent, labels, unacked, clock, orders, moves>>

\* Time passes while the loop sleeps, and in the middle of a burst.  A tick
\* between the two sends of an order makes no difference: its event time is
\* set before them.
Tick ==
    /\ alive /\ half = {}
    /\ clock < MaxTime
    /\ clock' = clock + 1
    /\ UNCHANGED <<generatorVars, orders, moves, faults>>

-----------------------------------------------------------------------------
(* The producer's thread.                                                  *)

\* The records that may go out next: the first, and those that only records
\* sent out before them precede.
Ready(queue) == {i \in DOMAIN queue : \A j \in 1..(i - 1) : queue[j].tried}

Acknowledged(log, queue) ==
    /\ \E k \in Keys : \E i \in Ready(queue[k]) :
          /\ log' = [log EXCEPT ![k] = Append(@, queue[k][i].event)]
          /\ queue' = [queue EXCEPT ![k] = RemoveAt(@, i)]
    /\ UNCHANGED <<faults, unacked>>

\* The record may have been stored all the same, and is tried again unless
\* its retries or its time are used up.
Unacknowledged(log, queue) ==
    /\ Fault("publish")
    /\ unacked < MaxUnacked
    /\ unacked' = unacked + 1
    /\ \E k \in Keys : \E i \in Ready(queue[k]) :
          /\ log' \in {log, [log EXCEPT ![k] = Append(@, queue[k][i].event)]}
          /\ queue' \in {[queue EXCEPT ![k] = RemoveAt(@, i)],
                         [queue EXCEPT ![k][i].tried = TRUE]}

PublishOrder ==
    /\ Acknowledged(orders, orderQueue) \/ Unacknowledged(orders, orderQueue)
    /\ UNCHANGED <<loopVars, moveQueue, clock, moves>>

PublishMovement ==
    /\ Acknowledged(moves, moveQueue) \/ Unacknowledged(moves, moveQueue)
    /\ UNCHANGED <<loopVars, orderQueue, clock, orders>>

Produce ==
    \/ Surge \/ Stockout \/ Quiet
    \/ Sell \/ SendMovement \/ Restock
    \/ GeneratorDies \/ Tick

GeneratorNext == Produce \/ PublishOrder \/ PublishMovement

ProducerInit == TopicsInit /\ GeneratorInit

GeneratorSpec == ProducerInit /\ [][GeneratorNext]_<<topicVars, generatorVars>>

-----------------------------------------------------------------------------
(* Properties.                                                             *)

\* All that was handed to the producer and is not lost.
Sent(log, queue) == log \o [i \in DOMAIN queue |-> queue[i].event]

\* The levels the generator can have sold from: the one it reported with the
\* sale before, or that of a restock, which it does not report.
Known(moved, i) == Restocks \cup {IF i = 1 THEN InitialStock ELSE moved[i - 1]}

\* The generator sells only what is there (inventory.py:34-51), and sends
\* every order with its movement (producer.py:176-192): the two queues and
\* topics pair up, sale by sale, however far each has been delivered.  A
\* process that dies keeps no more than the pairing, because each topic is
\* then behind by the end of its queue; and all of it is void once an
\* attempt was not acknowledged (kafka_client.py:20-41), since nobody notices.
EveryOrderMoved ==
    "publish" \notin faults =>
        \A k \in Keys :
            LET sold == Sent(orders[k], orderQueue[k])
                moved == Sent(moves[k], moveQueue[k])
            IN  /\ alive => Len(sold) = Len(moved) + (IF k \in half THEN 1 ELSE 0)
                /\ \A i \in DOMAIN sold \cap DOMAIN moved :
                      \E known \in Known(moved, i) : moved[i] + sold[i].qty <= known

=============================================================================
