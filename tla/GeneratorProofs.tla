--------------------------- MODULE GeneratorProofs ---------------------------
(***************************************************************************)
(* What the generator keeps for any number of keys and orders, any stock   *)
(* levels, intervals and faults, whatever its producer and the streaming   *)
(* job do: types, and that the movements it reports add up with the orders *)
(* it sends.  TLC checks the same on a small instance (GeneratorFaults).   *)
(***************************************************************************)
EXTENDS Pipeline, SequenceTheorems, FiniteSetTheorems, TLAPS

-----------------------------------------------------------------------------
(* The invariant.                                                          *)

\* All orders of k, and all movements.
Sold(k) == Sent(orders[k], orderQueue[k])
Moved(k) == Sent(moves[k], moveQueue[k])

\* The stock of k, with the sale that has its order sent and no movement yet.
Level(k) == stock[k] + (IF k \in half THEN Sold(k)[Len(Sold(k))].qty ELSE 0)

\* The sends of one sale are the only ones between which the generator can
\* be; a dead one is between none.
HalfInv ==
    /\ \A a, b \in half : a = b
    /\ ~alive => burst = <<>> /\ half = {}

Untried(queue) == \A i \in 1..Len(queue) : ~queue[i].tried

\* Only an attempt that was not acknowledged lets a record be overtaken.
UntriedInv ==
    "publish" \notin faults => \A k \in Keys : Untried(orderQueue[k]) /\ Untried(moveQueue[k])

\* Of the orders and movements of k.
Paired(k) ==
    /\ alive => /\ Len(Sold(k)) = Len(Moved(k)) + (IF k \in half THEN 1 ELSE 0)
                /\ \E known \in Known(Moved(k), Len(Moved(k)) + 1) : Level(k) <= known
    /\ \A i \in DOMAIN Sold(k) \cap DOMAIN Moved(k) :
          \E known \in Known(Moved(k), i) : Moved(k)[i] + Sold(k)[i].qty <= known

PairedInv == "publish" \notin faults => \A k \in Keys : Paired(k)

GInv == TopicsTypeOK /\ GeneratorTypeOK /\ HalfInv /\ UntriedInv /\ PairedInv

-----------------------------------------------------------------------------
(* Logs and queues.                                                        *)

Enqueued(queue, e) == Append(queue, [event |-> e, tried |-> FALSE])

\* A log after the first of its queue is delivered.
Delivered(log, queue) == Append(log, queue[1].event)

\* What is queued, in order.
LEMMA EventsOfQueue ==
    ASSUME NEW S, NEW queue \in Seq(Queued(S))
    PROVE  LET events == [i \in DOMAIN queue |-> queue[i].event]
           IN  events \in Seq(S) /\ Len(events) = Len(queue)
<1>1. Len(queue) \in Nat /\ DOMAIN queue = 1..Len(queue)
  BY LenProperties
<1>2. \A i \in 1..Len(queue) : queue[i].event \in S
  <2> TAKE i \in 1..Len(queue)
  <2>1. queue[i] \in Queued(S)
    BY ElementOfSeq
  <2> QED
    BY <2>1 DEF Queued
<1> QED
  BY <1>1, <1>2

\* Sent is the log, and then what is queued.
LEMMA SentProperties ==
    ASSUME NEW S, NEW log \in Seq(S), NEW queue \in Seq(Queued(S))
    PROVE  /\ Sent(log, queue) \in Seq(S)
           /\ Len(log) \in Nat /\ Len(queue) \in Nat
           /\ DOMAIN Sent(log, queue) = 1..(Len(log) + Len(queue))
           /\ Len(Sent(log, queue)) = Len(log) + Len(queue)
           /\ \A i \in 1..(Len(log) + Len(queue)) :
                 Sent(log, queue)[i] = IF i <= Len(log) THEN log[i] ELSE queue[i - Len(log)].event
<1> DEFINE events == [i \in DOMAIN queue |-> queue[i].event]
<1>1. events \in Seq(S) /\ Len(events) = Len(queue)
  BY EventsOfQueue
<1>2. /\ Len(log) \in Nat /\ Len(queue) \in Nat /\ DOMAIN queue = 1..Len(queue)
  BY LenProperties
<1>3. \A i \in 1..Len(queue) : events[i] = queue[i].event
  BY <1>2
<1>4. Sent(log, queue) = log \o events
  BY DEF Sent
<1> HIDE DEF events
<1>5. /\ log \o events \in Seq(S)
      /\ Len(log \o events) = Len(log) + Len(events)
      /\ \A i \in 1..(Len(log) + Len(events)) : (log \o events)[i] =
             IF i <= Len(log) THEN log[i] ELSE events[i - Len(log)]
  BY <1>1, ConcatProperties
<1>6. DOMAIN (log \o events) = 1..(Len(log) + Len(queue))
  BY <1>1, <1>5, LenProperties
<1>7. ASSUME NEW i \in 1..(Len(log) + Len(queue))
      PROVE  Sent(log, queue)[i] = IF i <= Len(log) THEN log[i] ELSE queue[i - Len(log)].event
  <2>1. i > Len(log) => i - Len(log) \in 1..Len(queue)
    BY <1>2
  <2>2. i > Len(log) => events[i - Len(log)] = queue[i - Len(log)].event
    BY <1>3, <2>1
  <2>3. (log \o events)[i] = IF i <= Len(log) THEN log[i] ELSE events[i - Len(log)]
    BY <1>1, <1>5
  <2> QED
    BY <1>2, <1>4, <2>2, <2>3
<1> QED
  BY <1>1, <1>2, <1>4, <1>5, <1>6, <1>7

\* To queue an event adds it at the end.
LEMMA SentGrows ==
    ASSUME NEW S, NEW log \in Seq(S), NEW queue \in Seq(Queued(S)), NEW e \in S
    PROVE  LET n == Len(Sent(log, queue))
               longer == Enqueued(queue, e)
           IN  /\ longer \in Seq(Queued(S))
               /\ n \in Nat
               /\ Len(Sent(log, longer)) = n + 1
               /\ \A i \in 1..n : Sent(log, longer)[i] = Sent(log, queue)[i]
               /\ Sent(log, longer)[n + 1] = e
<1> DEFINE longer == Enqueued(queue, e)
           a == Len(log)
           b == Len(queue)
<1>1. [event |-> e, tried |-> FALSE] \in Queued(S)
  BY DEF Queued
<1>2. /\ longer \in Seq(Queued(S)) /\ Len(longer) = b + 1
      /\ \A i \in 1..b : longer[i] = queue[i]
      /\ longer[b + 1].event = e
  BY <1>1, AppendProperties DEF Enqueued
<1> HIDE DEF longer
<1>3. /\ a \in Nat /\ b \in Nat
      /\ Len(Sent(log, queue)) = a + b
      /\ \A i \in 1..(a + b) :
            Sent(log, queue)[i] = IF i <= a THEN log[i] ELSE queue[i - a].event
  BY SentProperties
<1>4. /\ Len(Sent(log, longer)) = a + (b + 1)
      /\ \A i \in 1..(a + (b + 1)) :
            Sent(log, longer)[i] = IF i <= a THEN log[i] ELSE longer[i - a].event
  BY <1>2, SentProperties
<1> HIDE DEF a, b
<1>5. ASSUME NEW i \in 1..(a + b)
      PROVE  Sent(log, longer)[i] = Sent(log, queue)[i]
  <2>1. i > a => i - a \in 1..b
    BY <1>3
  <2>2. i > a => longer[i - a] = queue[i - a]
    BY <1>2, <2>1
  <2>3. Sent(log, queue)[i] = IF i <= a THEN log[i] ELSE queue[i - a].event
    BY <1>3
  <2>4. i \in 1..(a + (b + 1))
    BY <1>3
  <2>5. Sent(log, longer)[i] = IF i <= a THEN log[i] ELSE longer[i - a].event
    BY <1>4, <2>4
  <2>6. i <= a \/ i > a
    BY <1>3
  <2> QED
    BY <2>2, <2>3, <2>5, <2>6
<1>6. Sent(log, longer)[(a + b) + 1] = e
  <2>1. /\ (a + b) + 1 \in 1..(a + (b + 1)) /\ ~((a + b) + 1 <= a)
        /\ ((a + b) + 1) - a = b + 1
    BY <1>3
  <2> QED
    BY <1>2, <1>4, <2>1
<1>7. a + b \in Nat /\ a + (b + 1) = (a + b) + 1
  BY <1>3
<1> QED
  BY <1>2, <1>3, <1>4, <1>5, <1>6, <1>7 DEF longer

\* Of a record taken out of a queue.
LEMMA Removed ==
    ASSUME NEW S, NEW queue \in Seq(S), NEW i \in 1..Len(queue)
    PROVE  /\ RemoveAt(queue, i) \in Seq(S)
           /\ Len(RemoveAt(queue, i)) = Len(queue) - 1
           /\ \A j \in 1..(Len(queue) - 1) :
                 RemoveAt(queue, i)[j] = IF j < i THEN queue[j] ELSE queue[j + 1]
<1> DEFINE n == Len(queue)
           before == SubSeq(queue, 1, i - 1)
           after == SubSeq(queue, i + 1, n)
<1>1. n \in Nat /\ i \in Nat /\ 1 <= i /\ i <= n
  BY LenProperties
<1>2. \A j \in 1..n : queue[j] \in S
  BY ElementOfSeq
<1>3. 1 \in Int /\ i - 1 \in Int /\ i + 1 \in Int /\ n \in Int
  BY <1>1
<1>4. /\ before \in Seq(S)
      /\ Len(before) = i - 1
      /\ \A j \in 1..(i - 1) : before[j] = queue[j]
  <2>1. \A j \in 1..(i - 1) : queue[j] \in S
    BY <1>1, <1>2
  <2>2. /\ before \in Seq(S)
        /\ Len(before) = IF 1 <= i - 1 THEN (i - 1) - 1 + 1 ELSE 0
        /\ \A j \in 1..((i - 1) - 1 + 1) : before[j] = queue[1 + j - 1]
    BY <1>3, <2>1, SubSeqProperties
  <2> HIDE DEF before
  <2> QED
    BY <1>1, <2>2
<1>5. /\ after \in Seq(S)
      /\ Len(after) = n - i
      /\ \A j \in 1..(n - i) : after[j] = queue[j + i]
  <2>1. \A j \in (i + 1)..n : queue[j] \in S
    BY <1>1, <1>2
  <2>2. /\ after \in Seq(S)
        /\ Len(after) = IF i + 1 <= n THEN n - (i + 1) + 1 ELSE 0
        /\ \A j \in 1..(n - (i + 1) + 1) : after[j] = queue[(i + 1) + j - 1]
    BY <1>3, <2>1, SubSeqProperties
  <2> HIDE DEF after
  <2> QED
    BY <1>1, <2>2
<1>6. RemoveAt(queue, i) = before \o after
  BY DEF RemoveAt
<1> HIDE DEF before, after, n
<1>7. /\ before \o after \in Seq(S)
      /\ Len(before \o after) = Len(before) + Len(after)
      /\ \A j \in 1..(Len(before) + Len(after)) : (before \o after)[j] =
            IF j <= Len(before) THEN before[j] ELSE after[j - Len(before)]
  BY <1>4, <1>5, ConcatProperties
<1>8. ASSUME NEW j \in 1..(n - 1)
      PROVE  (before \o after)[j] = IF j < i THEN queue[j] ELSE queue[j + 1]
  <2>1. (before \o after)[j] = IF j <= i - 1 THEN before[j] ELSE after[j - (i - 1)]
    BY <1>1, <1>4, <1>5, <1>7
  <2>2. CASE j < i
    BY <1>1, <1>4, <2>1, <2>2
  <2>3. CASE ~(j < i)
    <3>1. j - (i - 1) \in 1..(n - i) /\ (j - (i - 1)) + i = j + 1
      BY <1>1, <2>3
    <3>2. after[j - (i - 1)] = queue[j + 1]
      BY <1>5, <3>1
    <3> QED
      BY <1>1, <2>1, <2>3, <3>2
  <2> QED
    BY <2>2, <2>3
<1> QED
  BY <1>1, <1>4, <1>5, <1>6, <1>7, <1>8 DEF n

\* To deliver the first of a queue leaves what was sent as it is.
LEMMA SentDelivered ==
    ASSUME NEW S, NEW log \in Seq(S), NEW queue \in Seq(Queued(S)), 1 \in 1..Len(queue)
    PROVE  Sent(Delivered(log, queue), RemoveAt(queue, 1)) = Sent(log, queue)
<1> DEFINE longer == Delivered(log, queue)
           rest == RemoveAt(queue, 1)
           a == Len(log)
           b == Len(queue)
<1>1. 1 \in 1..b /\ queue[1] \in Queued(S)
  BY ElementOfSeq
<1>2. queue[1].event \in S
  BY <1>1 DEF Queued
<1>3. /\ longer \in Seq(S) /\ Len(longer) = a + 1
      /\ \A i \in 1..a : longer[i] = log[i]
      /\ longer[a + 1] = queue[1].event
  BY <1>2, AppendProperties DEF Delivered
<1>4. /\ rest \in Seq(Queued(S)) /\ Len(rest) = b - 1
      /\ \A j \in 1..(b - 1) : rest[j] = IF j < 1 THEN queue[j] ELSE queue[j + 1]
  BY <1>1, Removed
<1> HIDE DEF longer, rest
<1>5. /\ a \in Nat /\ b \in Nat
      /\ Sent(log, queue) \in Seq(S)
      /\ Len(Sent(log, queue)) = a + b
      /\ \A i \in 1..(a + b) :
            Sent(log, queue)[i] = IF i <= a THEN log[i] ELSE queue[i - a].event
  BY SentProperties
<1>6. /\ Sent(longer, rest) \in Seq(S)
      /\ Len(Sent(longer, rest)) = Len(longer) + Len(rest)
      /\ \A i \in 1..(Len(longer) + Len(rest)) : Sent(longer, rest)[i] =
            IF i <= Len(longer) THEN longer[i] ELSE rest[i - Len(longer)].event
  BY <1>3, <1>4, SentProperties
<1> HIDE DEF a, b
<1>7. Len(longer) = a + 1 /\ Len(longer) + Len(rest) = a + b
  <2>1. Len(longer) = a + 1 /\ Len(rest) = b - 1 /\ a \in Nat /\ b \in Nat
    BY <1>3, <1>4, <1>5
  <2> QED
    BY <2>1
<1>8. ASSUME NEW i \in 1..(a + b)
      PROVE  Sent(longer, rest)[i] = Sent(log, queue)[i]
  <2> DEFINE old == IF i <= a THEN log[i] ELSE queue[i - a].event
             new == IF i <= a + 1 THEN longer[i] ELSE rest[i - (a + 1)].event
  <2>1. Sent(log, queue)[i] = old
    BY <1>5
  <2>2. Sent(longer, rest)[i] = new
    BY <1>6, <1>7
  <2>3. CASE i <= a
    <3>1. i \in 1..a /\ i <= a + 1
      BY <1>5, <2>3
    <3>2. longer[i] = log[i]
      BY <1>3, <3>1
    <3> QED
      BY <2>3, <2>1, <2>2, <3>1, <3>2
  <2>4. CASE i = a + 1
    <3>1. ~(i <= a) /\ i <= a + 1 /\ i - a = 1
      BY <1>5, <2>4
    <3> QED
      BY <1>3, <2>4, <2>1, <2>2, <3>1
  <2>5. CASE i > a + 1
    <3>1. /\ ~(i <= a) /\ ~(i <= a + 1)
          /\ i - (a + 1) \in 1..(b - 1) /\ ~(i - (a + 1) < 1)
          /\ (i - (a + 1)) + 1 = i - a
      BY <1>5, <2>5
    <3>2. rest[i - (a + 1)] = queue[i - a]
      BY <1>4, <3>1
    <3> QED
      BY <2>1, <2>2, <3>1, <3>2
  <2> QED
    BY <1>5, <2>3, <2>4, <2>5
<1> QED
  <2>1. Sent(longer, rest) = Sent(log, queue)
    BY <1>5, <1>6, <1>7, <1>8, SeqEqual
  <2> QED
    BY <2>1 DEF longer, rest
\* The keys' logs after a record is appended to the log of k.
LEMMA LogAppended ==
    ASSUME NEW S, NEW log \in [Keys -> Seq(S)], NEW k \in Keys, NEW e \in S
    PROVE  LET new == [log EXCEPT ![k] = Append(@, e)]
           IN  /\ new \in [Keys -> Seq(S)]
               /\ \A x \in Keys : x # k => new[x] = log[x]
               /\ Len(log[k]) \in Nat
               /\ Len(new[k]) = Len(log[k]) + 1
               /\ \A i \in 1..Len(log[k]) : new[k][i] = log[k][i]
               /\ new[k][Len(log[k]) + 1] = e
<1>1. log[k] \in Seq(S)
  OBVIOUS
<1>2. /\ Append(log[k], e) \in Seq(S)
      /\ Len(Append(log[k], e)) = Len(log[k]) + 1
      /\ \A i \in 1..Len(log[k]) : Append(log[k], e)[i] = log[k][i]
      /\ Append(log[k], e)[Len(log[k]) + 1] = e
  BY <1>1, AppendProperties
<1>3. Len(log[k]) \in Nat
  BY <1>1, LenProperties
<1> DEFINE app == Append(log[k], e)
<1> HIDE DEF app
<1>4. /\ [log EXCEPT ![k] = app][k] = app
      /\ \A x \in Keys : x # k => [log EXCEPT ![k] = app][x] = log[x]
      /\ app \in Seq(S) => [log EXCEPT ![k] = app] \in [Keys -> Seq(S)]
  OBVIOUS
<1> QED
  BY <1>2, <1>3, <1>4 DEF app


\* A record may be overtaken only once it was tried.
LEMMA FirstReady ==
    ASSUME NEW S, NEW queue \in Seq(Queued(S)), Untried(queue), NEW i \in Ready(queue)
    PROVE  i = 1 /\ 1 \in 1..Len(queue)
<1>1. Len(queue) \in Nat /\ DOMAIN queue = 1..Len(queue)
  BY LenProperties
<1>2. i \in 1..Len(queue) /\ \A j \in 1..(i - 1) : queue[j].tried
  BY <1>1 DEF Ready
<1>3. i # 1 => 1 \in 1..(i - 1) /\ 1 \in 1..Len(queue)
  BY <1>1, <1>2
<1>4. i = 1
  BY <1>2, <1>3 DEF Untried
<1> QED
  BY <1>2, <1>4

LEMMA UntriedRest ==
    ASSUME NEW S, NEW queue \in Seq(Queued(S)), Untried(queue), NEW i \in 1..Len(queue)
    PROVE  Untried(RemoveAt(queue, i))
<1>1. /\ Len(queue) \in Nat
      /\ Len(RemoveAt(queue, i)) = Len(queue) - 1
      /\ \A j \in 1..(Len(queue) - 1) :
            RemoveAt(queue, i)[j] = IF j < i THEN queue[j] ELSE queue[j + 1]
  BY Removed, LenProperties
<1>2. \A j \in 1..(Len(queue) - 1) : j \in 1..Len(queue) /\ j + 1 \in 1..Len(queue)
  BY <1>1
<1> QED
  BY <1>1, <1>2 DEF Untried

LEMMA UntriedMore ==
    ASSUME NEW S, NEW queue \in Seq(Queued(S)), Untried(queue), NEW e \in S
    PROVE  Untried(Enqueued(queue, e))
<1> DEFINE r == [event |-> e, tried |-> FALSE]
<1>1. r \in Queued(S) /\ ~r.tried
  BY DEF Queued
<1> HIDE DEF r
<1>2. /\ Len(queue) \in Nat /\ Len(Append(queue, r)) = Len(queue) + 1
      /\ \A i \in 1..Len(queue) : Append(queue, r)[i] = queue[i]
      /\ Append(queue, r)[Len(queue) + 1] = r
  BY <1>1, AppendProperties, LenProperties
<1>3. \A i \in 1..(Len(queue) + 1) : i \in 1..Len(queue) \/ i = Len(queue) + 1
  BY <1>2
<1>4. Untried(Append(queue, r))
  BY <1>1, <1>2, <1>3 DEF Untried
<1> QED
  BY <1>4 DEF Enqueued, r

\* What an attempt to deliver does to a topic and its queue keeps their types.
LEMMA Delivery ==
    ASSUME NEW S, NEW log \in [Keys -> Seq(S)], NEW queue \in [Keys -> Seq(Queued(S))],
           NEW k \in Keys, NEW i \in Ready(queue[k])
    PROVE  /\ i \in 1..Len(queue[k]) /\ queue[k][i].event \in S
           /\ [log EXCEPT ![k] = Append(@, queue[k][i].event)] \in [Keys -> Seq(S)]
           /\ [queue EXCEPT ![k] = RemoveAt(@, i)] \in [Keys -> Seq(Queued(S))]
           /\ [queue EXCEPT ![k][i].tried = TRUE] \in [Keys -> Seq(Queued(S))]
<1>1. queue[k] \in Seq(Queued(S)) /\ log[k] \in Seq(S)
  OBVIOUS
<1>2. i \in 1..Len(queue[k])
  BY <1>1, LenProperties DEF Ready
<1>3. queue[k][i] \in Queued(S)
  BY <1>1, <1>2, ElementOfSeq
<1>4. queue[k][i].event \in S
  BY <1>3 DEF Queued
<1>5. [log EXCEPT ![k] = Append(@, queue[k][i].event)] \in [Keys -> Seq(S)]
  BY <1>4, LogAppended
<1>6. RemoveAt(queue[k], i) \in Seq(Queued(S))
  BY <1>1, <1>2, Removed
<1> DEFINE tried == [queue[k] EXCEPT ![i] = [@ EXCEPT !.tried = TRUE]]
<1>7. tried \in Seq(Queued(S))
  <2>1. [queue[k][i] EXCEPT !.tried = TRUE] \in Queued(S)
    BY <1>3 DEF Queued
  <2> QED
    BY <1>1, <1>2, <2>1, ExceptSeq
<1>8. [queue EXCEPT ![k][i].tried = TRUE] = [queue EXCEPT ![k] = tried]
  OBVIOUS
<1> HIDE DEF tried
<1>9. [queue EXCEPT ![k] = tried] \in [Keys -> Seq(Queued(S))]
  BY <1>7
<1>10. [queue EXCEPT ![k] = RemoveAt(@, i)] \in [Keys -> Seq(Queued(S))]
  BY <1>6
<1> QED
  BY <1>2, <1>4, <1>5, <1>8, <1>9, <1>10

-----------------------------------------------------------------------------
(* What a step can do to topics and queues.                                *)

\* The streaming job only reads them, and its faults are remembered.
LEMMA JobLeavesTopics ==
    ASSUME JobNext, TopicsTypeOK, TopicsAssumption
    PROVE  /\ UNCHANGED <<clock, orders, moves>>
           /\ faults \subseteq faults' /\ faults' \subseteq Faults
<1>1. \/ faults' = faults
      \/ \E kind \in Faults : faults' = faults \cup {kind}
  BY DEF JobNext, ReadOrder, Quarantine, EmitWatermark, Fire, StoreRow, InsertAlert,
     SendAlert, Deliver, DeliveryFails, Crash, Cancel, Submit, Fault, topicVars
<1>2. UNCHANGED <<clock, orders, moves>>
  BY DEF JobNext, ReadOrder, Quarantine, EmitWatermark, Fire, StoreRow, InsertAlert,
     SendAlert, Deliver, DeliveryFails, Crash, Cancel, Submit, topicVars
<1> QED
  BY <1>1, <1>2 DEF TopicsTypeOK, TopicsAssumption

\* A sale queues one order of the key that is worked off.
LEMMA SaleQueued ==
    ASSUME GInv, Sell, TopicsAssumption
    PROVE  \E k \in Keys, q \in Quantities, a \in BOOLEAN :
              /\ stock[k] >= q
              /\ stock' = [stock EXCEPT ![k] = @ - q]
              /\ orderQueue' = [orderQueue EXCEPT ![k] =
                    Enqueued(@, [at |-> clock, qty |-> q, anomaly |-> a])]
              /\ half' = {k}
              /\ half = {}
              /\ burst' \in Seq(Keys \X BOOLEAN)
              /\ [at |-> clock, qty |-> q, anomaly |-> a] \in Order
<1>1. burst # <<>> /\ half = {} /\ burst \in Seq(Keys \X BOOLEAN) /\ clock \in Times
  BY DEF GInv, Sell, Turn, GeneratorTypeOK, TopicsTypeOK
<1>2. Head(burst) \in Keys \X BOOLEAN /\ Tail(burst) \in Seq(Keys \X BOOLEAN)
  BY <1>1, HeadTailProperties
<1>3. Head(burst)[1] \in Keys /\ Head(burst)[2] \in BOOLEAN
  BY <1>2
<1>4. PICK q \in Quantities :
         LET k == Head(burst)[1]
         IN  /\ stock[k] >= q
             /\ stock' = [stock EXCEPT ![k] = @ - q]
             /\ orderQueue' = [orderQueue EXCEPT ![k] =
                   Enqueued(@, [at |-> clock, qty |-> q, anomaly |-> Head(burst)[2]])]
             /\ half' = {k}
  BY DEF Sell, Enqueue, Enqueued
<1>5. [at |-> clock, qty |-> q, anomaly |-> Head(burst)[2]] \in Order
  BY <1>1, <1>3 DEF Order
<1>6. burst' \in Seq(Keys \X BOOLEAN)
  BY <1>2 DEF Sell
<1> QED
  BY <1>1, <1>3, <1>4, <1>5, <1>6

\* An attempt to deliver an order; what is not acknowledged is a fault.
LEMMA OrderAttempted ==
    ASSUME PublishOrder, TopicsTypeOK
    PROVE  /\ faults \subseteq faults' /\ faults' \subseteq Faults
           /\ \E k \in Keys : \E i \in Ready(orderQueue[k]) :
                 /\ orders' \in {orders, [orders EXCEPT ![k] = Append(@, orderQueue[k][i].event)]}
                 /\ orderQueue' \in {[orderQueue EXCEPT ![k] = RemoveAt(@, i)],
                                    [orderQueue EXCEPT ![k][i].tried = TRUE]}
                 /\ "publish" \notin faults' =>
                       /\ orders' = [orders EXCEPT ![k] = Append(@, orderQueue[k][i].event)]
                       /\ orderQueue' = [orderQueue EXCEPT ![k] = RemoveAt(@, i)]
<1>1. CASE Acknowledged(orders, orderQueue)
  BY <1>1 DEF Acknowledged, TopicsTypeOK
<1>2. CASE Unacknowledged(orders, orderQueue)
  BY <1>2 DEF Unacknowledged, Fault, TopicsTypeOK
<1> QED
  BY <1>1, <1>2 DEF PublishOrder

LEMMA MovementAttempted ==
    ASSUME PublishMovement, TopicsTypeOK
    PROVE  /\ faults \subseteq faults' /\ faults' \subseteq Faults
           /\ \E k \in Keys : \E i \in Ready(moveQueue[k]) :
                 /\ moves' \in {moves, [moves EXCEPT ![k] = Append(@, moveQueue[k][i].event)]}
                 /\ moveQueue' \in {[moveQueue EXCEPT ![k] = RemoveAt(@, i)],
                                   [moveQueue EXCEPT ![k][i].tried = TRUE]}
                 /\ "publish" \notin faults' =>
                       /\ moves' = [moves EXCEPT ![k] = Append(@, moveQueue[k][i].event)]
                       /\ moveQueue' = [moveQueue EXCEPT ![k] = RemoveAt(@, i)]
<1>1. CASE Acknowledged(moves, moveQueue)
  BY <1>1 DEF Acknowledged, TopicsTypeOK
<1>2. CASE Unacknowledged(moves, moveQueue)
  BY <1>2 DEF Unacknowledged, Fault, TopicsTypeOK
<1> QED
  BY <1>1, <1>2 DEF PublishMovement

\* Faults are remembered.
LEMMA GeneratorFaults ==
    ASSUME GeneratorNext, TopicsTypeOK
    PROVE  faults \subseteq faults' /\ faults' \subseteq Faults
<1>1. faults \subseteq Faults
  BY DEF TopicsTypeOK
<1>2. CASE Produce
  BY <1>1, <1>2 DEF Produce, Surge, Stockout, Quiet, Sell, SendMovement, Restock,
     GeneratorDies, Fault, Tick, topicVars
<1> QED
  BY <1>2, OrderAttempted, MovementAttempted DEF GeneratorNext

LEMMA Repeated ==
    ASSUME NEW S, NEW e \in S, NEW n \in Nat
    PROVE  [i \in 1..n |-> e] \in Seq(S)
OBVIOUS

LEMMA QueueGrows ==
    ASSUME NEW S, NEW queue \in [Keys -> Seq(Queued(S))], NEW k \in Keys, NEW e \in S
    PROVE  [queue EXCEPT ![k] = Enqueued(@, e)] \in [Keys -> Seq(Queued(S))]
<1>1. [event |-> e, tried |-> FALSE] \in Queued(S)
  BY DEF Queued
<1> QED
  BY <1>1, LogAppended DEF Enqueued

LEMMA GeneratorKeepsTypes ==
    ASSUME TopicsAssumption, GeneratorAssumption, GInv, GeneratorNext
    PROVE  TopicsTypeOK' /\ GeneratorTypeOK'
<1>1. TopicsTypeOK /\ GeneratorTypeOK
  BY DEF GInv
<1> DEFINE Burst == Seq(Keys \X BOOLEAN)
<1>2. /\ clock \in Times /\ burst \in Burst /\ stock \in [Keys -> Nat]
      /\ orders \in [Keys -> Seq(Order)] /\ moves \in [Keys -> Seq(Nat)]
      /\ orderQueue \in [Keys -> Seq(Queued(Order))] /\ moveQueue \in [Keys -> Seq(Queued(Nat))]
      /\ MaxTime \in Nat /\ {eventsSent, unacked} \subseteq Nat
  BY <1>1 DEF TopicsTypeOK, GeneratorTypeOK, TopicsAssumption
<1>3. /\ <<>> \in Burst
      /\ \A k \in Keys, a \in BOOLEAN : <<<<k, a>>>> \in Burst
  BY EmptySeq
<1>4. faults' \subseteq Faults
  BY <1>1, GeneratorFaults
<1>5. CASE Surge
  <2>1. PICK k \in Keys, n \in Keys :
           /\ Log("surge", k)
           /\ burst' = Append([i \in 1..SurgeExtra |-> <<k, TRUE>>], <<n, FALSE>>)
    BY <1>5 DEF Surge
  <2> DEFINE extra == [i \in 1..SurgeExtra |-> <<k, TRUE>>]
  <2>2. SurgeExtra \in Nat /\ \A i \in 1..SurgeExtra : <<k, TRUE>> \in Keys \X BOOLEAN
    BY DEF GeneratorAssumption
  <2>3. extra \in Burst
    BY <2>2, Repeated
  <2>4. burst' \in Burst
    BY <2>1, <2>3, AppendProperties
  <2>5. labels' \subseteq [type : {"surge", "stockout_risk"}, key : Keys, at : Times]
    BY <1>1, <1>2, <2>1 DEF Log, GeneratorTypeOK
  <2> QED
    BY <1>1, <1>2, <1>5, <2>4, <2>5
    DEF Surge, GeneratorTypeOK, TopicsTypeOK, topicVars, senderVars
<1>6. CASE Stockout
  <2>1. PICK k \in Keys :
           /\ Log("stockout_risk", k)
           /\ stock' = [stock EXCEPT ![k] = IF @ < StockoutTarget THEN @ ELSE StockoutTarget]
    BY <1>6 DEF Stockout
  <2>2. stock' \in [Keys -> Nat]
    BY <1>2, <2>1 DEF GeneratorAssumption
  <2>3. labels' \subseteq [type : {"surge", "stockout_risk"}, key : Keys, at : Times]
    BY <1>1, <1>2, <2>1 DEF Log, GeneratorTypeOK
  <2>4. burst' \in Burst
    BY <1>3, <1>6 DEF Stockout, Plain
  <2> QED
    BY <1>1, <1>2, <1>6, <2>2, <2>3, <2>4
    DEF Stockout, GeneratorTypeOK, TopicsTypeOK, topicVars, senderVars
<1>7. CASE Quiet
  BY <1>1, <1>3, <1>7 DEF Quiet, Plain, GeneratorTypeOK, TopicsTypeOK, topicVars, senderVars
<1>8. CASE Sell
  <2>1. PICK k \in Keys, q \in Quantities, a \in BOOLEAN :
           /\ stock[k] >= q
           /\ stock' = [stock EXCEPT ![k] = @ - q]
           /\ orderQueue' = [orderQueue EXCEPT ![k] =
                 Enqueued(@, [at |-> clock, qty |-> q, anomaly |-> a])]
           /\ half' = {k}
           /\ burst' \in Burst
           /\ [at |-> clock, qty |-> q, anomaly |-> a] \in Order
    BY <1>8, SaleQueued
  <2>2. orderQueue' \in [Keys -> Seq(Queued(Order))]
    BY <1>2, <2>1, QueueGrows
  <2>3. stock' \in [Keys -> Nat]
    <3>1. stock[k] \in Nat /\ q \in Nat
      BY <1>2 DEF TopicsAssumption
    <3>2. stock[k] - q \in Nat
      BY <2>1, <3>1
    <3> QED
      BY <1>2, <2>1, <3>2
  <2> QED
    BY <1>1, <1>8, <2>1, <2>2, <2>3 DEF Sell, GeneratorTypeOK, TopicsTypeOK, topicVars
<1>9. CASE SendMovement
  <2>1. PICK k \in half : moveQueue' = [moveQueue EXCEPT ![k] = Enqueued(@, stock[k])]
    BY <1>9 DEF SendMovement, Enqueue, Enqueued
  <2>2. k \in Keys /\ stock[k] \in Nat
    BY <1>1, <1>2 DEF GeneratorTypeOK
  <2>3. moveQueue' \in [Keys -> Seq(Queued(Nat))]
    BY <1>2, <2>1, <2>2, QueueGrows DEF Enqueue
  <2>4. eventsSent' \in Nat
    BY <1>2, <1>9 DEF SendMovement
  <2> QED
    BY <1>1, <1>9, <2>3, <2>4 DEF SendMovement, GeneratorTypeOK, TopicsTypeOK, topicVars
<1>10. CASE Restock
  <2>1. burst' \in Burst
    BY <1>2, <1>10, HeadTailProperties DEF Restock, Turn
  <2>2. Restocks \subseteq Nat
    BY DEF GeneratorAssumption
  <2>3. stock' \in [Keys -> Nat]
    BY <1>2, <1>10, <2>2 DEF Restock
  <2> QED
    BY <1>1, <1>10, <2>1, <2>3 DEF Restock, GeneratorTypeOK, TopicsTypeOK, topicVars, senderVars
<1>11. CASE GeneratorDies
  <2>1. \A S : NothingQueued \in [Keys -> Seq(Queued(S))]
    BY EmptySeq DEF NothingQueued
  <2> QED
    BY <1>1, <1>3, <1>4, <1>11, <2>1 DEF GeneratorDies, GeneratorTypeOK, TopicsTypeOK
<1>12. CASE Tick
  <2>1. clock' \in Times
    BY <1>2, <1>12 DEF Tick, Times
  <2> QED
    BY <1>1, <1>12, <2>1
    DEF Tick, GeneratorTypeOK, TopicsTypeOK, generatorVars, loopVars, senderVars
<1>13. CASE PublishOrder
  <2>1. PICK k, i :
           /\ k \in Keys
           /\ i \in Ready(orderQueue[k])
           /\ orders' \in {orders, [orders EXCEPT ![k] = Append(@, orderQueue[k][i].event)]}
           /\ orderQueue' \in {[orderQueue EXCEPT ![k] = RemoveAt(@, i)],
                              [orderQueue EXCEPT ![k][i].tried = TRUE]}
    BY <1>1, <1>13, OrderAttempted
  <2>2. orders' \in [Keys -> Seq(Order)] /\ orderQueue' \in [Keys -> Seq(Queued(Order))]
    <3>1. /\ [orders EXCEPT ![k] = Append(@, orderQueue[k][i].event)] \in [Keys -> Seq(Order)]
          /\ [orderQueue EXCEPT ![k] = RemoveAt(@, i)] \in [Keys -> Seq(Queued(Order))]
          /\ [orderQueue EXCEPT ![k][i].tried = TRUE] \in [Keys -> Seq(Queued(Order))]
      BY <1>2, <2>1, Delivery
    <3> QED
      BY <1>2, <2>1, <3>1
  <2>3. unacked' \in Nat
    <3>1. unacked' = unacked \/ unacked' = unacked + 1
      BY <1>13 DEF PublishOrder, Acknowledged, Unacknowledged
    <3> QED
      BY <1>2, <3>1
  <2> QED
    BY <1>1, <1>4, <1>13, <2>2, <2>3 DEF PublishOrder, GeneratorTypeOK, TopicsTypeOK, loopVars
<1>14. CASE PublishMovement
  <2>1. PICK k, i :
           /\ k \in Keys
           /\ i \in Ready(moveQueue[k])
           /\ moves' \in {moves, [moves EXCEPT ![k] = Append(@, moveQueue[k][i].event)]}
           /\ moveQueue' \in {[moveQueue EXCEPT ![k] = RemoveAt(@, i)],
                             [moveQueue EXCEPT ![k][i].tried = TRUE]}
    BY <1>1, <1>14, MovementAttempted
  <2>2. moves' \in [Keys -> Seq(Nat)] /\ moveQueue' \in [Keys -> Seq(Queued(Nat))]
    <3>1. /\ [moves EXCEPT ![k] = Append(@, moveQueue[k][i].event)] \in [Keys -> Seq(Nat)]
          /\ [moveQueue EXCEPT ![k] = RemoveAt(@, i)] \in [Keys -> Seq(Queued(Nat))]
          /\ [moveQueue EXCEPT ![k][i].tried = TRUE] \in [Keys -> Seq(Queued(Nat))]
      BY <1>2, <2>1, Delivery
    <3> QED
      BY <1>2, <2>1, <3>1
  <2>3. unacked' \in Nat
    <3>1. unacked' = unacked \/ unacked' = unacked + 1
      BY <1>14 DEF PublishMovement, Acknowledged, Unacknowledged
    <3> QED
      BY <1>2, <3>1
  <2> QED
    BY <1>1, <1>4, <1>14, <2>2, <2>3 DEF PublishMovement, GeneratorTypeOK, TopicsTypeOK, loopVars
<1> QED
  BY <1>5, <1>6, <1>7, <1>8, <1>9, <1>10, <1>11, <1>12, <1>13, <1>14 DEF GeneratorNext, Produce

LEMMA GeneratorKeepsHalf ==
    ASSUME TopicsAssumption, GInv, GeneratorNext
    PROVE  HalfInv'
<1>1. /\ half \subseteq Keys /\ alive \in BOOLEAN
      /\ HalfInv
  BY DEF GInv, GeneratorTypeOK
<1>2. CASE Surge \/ Stockout \/ Quiet
  BY <1>1, <1>2 DEF Surge, Stockout, Quiet, Iterate, HalfInv
<1>3. CASE Sell \/ SendMovement \/ Restock
  BY <1>1, <1>3 DEF Sell, SendMovement, Restock, Turn, HalfInv
<1>4. CASE GeneratorDies
  BY <1>1, <1>4 DEF GeneratorDies, HalfInv
<1>5. CASE Tick \/ PublishOrder \/ PublishMovement
  BY <1>1, <1>5 DEF Tick, PublishOrder, PublishMovement, HalfInv, generatorVars, loopVars
<1> QED
  BY <1>2, <1>3, <1>4, <1>5 DEF GeneratorNext, Produce

LEMMA GeneratorKeepsUntried ==
    ASSUME TopicsAssumption, GInv, GeneratorNext
    PROVE  UntriedInv'
<1> SUFFICES ASSUME "publish" \notin faults', NEW k \in Keys
             PROVE  Untried(orderQueue'[k]) /\ Untried(moveQueue'[k])
  BY DEF UntriedInv, Untried
<1>1. TopicsTypeOK /\ "publish" \notin faults
  BY GeneratorFaults DEF GInv
<1>2. /\ \A x \in Keys : Untried(orderQueue[x]) /\ Untried(moveQueue[x])
      /\ orderQueue \in [Keys -> Seq(Queued(Order))] /\ moveQueue \in [Keys -> Seq(Queued(Nat))]
      /\ stock \in [Keys -> Nat] /\ half \subseteq Keys
  BY <1>1 DEF GInv, UntriedInv, GeneratorTypeOK
<1>3. CASE UNCHANGED <<orderQueue, moveQueue>>
  BY <1>2, <1>3
<1>4. CASE Sell
  <2>1. PICK x \in Keys, q \in Quantities, a \in BOOLEAN :
           /\ orderQueue' = [orderQueue EXCEPT ![x] =
                 Enqueued(@, [at |-> clock, qty |-> q, anomaly |-> a])]
           /\ [at |-> clock, qty |-> q, anomaly |-> a] \in Order
    BY <1>4, SaleQueued
  <2> DEFINE o == [at |-> clock, qty |-> q, anomaly |-> a]
  <2> HIDE DEF o
  <2>2. o \in Order /\ orderQueue' = [orderQueue EXCEPT ![x] = Enqueued(@, o)]
    BY <2>1 DEF o
  <2>3. Untried(Enqueued(orderQueue[x], o))
    BY <1>2, <2>2, UntriedMore
  <2> QED
    BY <1>2, <1>4, <2>2, <2>3 DEF Sell
<1>5. CASE SendMovement
  <2>1. PICK x \in half : moveQueue' = [moveQueue EXCEPT ![x] = Enqueued(@, stock[x])]
    BY <1>5 DEF SendMovement, Enqueue, Enqueued
  <2>2. Untried(Enqueued(moveQueue[x], stock[x]))
    BY <1>2, <2>1, UntriedMore
  <2> QED
    BY <1>2, <1>5, <2>1, <2>2 DEF SendMovement
<1>6. CASE GeneratorDies
  <2>1. orderQueue'[k] = <<>> /\ moveQueue'[k] = <<>>
    BY <1>6 DEF GeneratorDies, NothingQueued
  <2>2. Untried(<<>>)
    BY EmptySeq DEF Untried
  <2> QED
    BY <2>1, <2>2
<1>7. CASE PublishOrder
  <2>1. PICK x, i :
           /\ x \in Keys
           /\ i \in Ready(orderQueue[x])
           /\ orderQueue' = [orderQueue EXCEPT ![x] = RemoveAt(@, i)]
    BY <1>1, <1>7, OrderAttempted
  <2>2. i \in 1..Len(orderQueue[x])
    BY <1>2, <2>1, LenProperties DEF Ready
  <2>3. Untried(RemoveAt(orderQueue[x], i))
    BY <1>2, <2>1, <2>2, UntriedRest
  <2> QED
    BY <1>2, <1>7, <2>1, <2>3 DEF PublishOrder
<1>8. CASE PublishMovement
  <2>1. PICK x, i :
           /\ x \in Keys
           /\ i \in Ready(moveQueue[x])
           /\ moveQueue' = [moveQueue EXCEPT ![x] = RemoveAt(@, i)]
    BY <1>1, <1>8, MovementAttempted
  <2>2. i \in 1..Len(moveQueue[x])
    BY <1>2, <2>1, LenProperties DEF Ready
  <2>3. Untried(RemoveAt(moveQueue[x], i))
    BY <1>2, <2>1, <2>2, UntriedRest
  <2> QED
    BY <1>2, <1>8, <2>1, <2>3 DEF PublishMovement
<1> QED
  BY <1>3, <1>4, <1>5, <1>6, <1>7, <1>8 DEF GeneratorNext, Produce, Surge, Stockout, Quiet,
     Restock, Tick, generatorVars, senderVars

-----------------------------------------------------------------------------
(* Orders and movements pair up.                                           *)

LEMMA SentTypes ==
    ASSUME GInv, NEW k \in Keys
    PROVE  /\ Sold(k) \in Seq(Order) /\ Moved(k) \in Seq(Nat)
           /\ Len(Sold(k)) \in Nat /\ DOMAIN Sold(k) = 1..Len(Sold(k))
           /\ Len(Moved(k)) \in Nat /\ DOMAIN Moved(k) = 1..Len(Moved(k))
           /\ \A i \in DOMAIN Moved(k) : Moved(k)[i] \in Nat
<1>1. /\ orders[k] \in Seq(Order) /\ orderQueue[k] \in Seq(Queued(Order))
      /\ moves[k] \in Seq(Nat) /\ moveQueue[k] \in Seq(Queued(Nat))
  BY DEF GInv, TopicsTypeOK, GeneratorTypeOK
<1>2. Sold(k) \in Seq(Order)
  BY <1>1, SentProperties DEF Sold
<1>3. Moved(k) \in Seq(Nat)
  BY <1>1, SentProperties DEF Moved
<1> QED
  BY <1>2, <1>3, LenProperties, ElementOfSeq

\* What a dead generator leaves is a beginning of what it sent.
LEMMA SentCut ==
    ASSUME NEW S, NEW log \in Seq(S), NEW queue \in Seq(Queued(S))
    PROVE  \A i \in DOMAIN Sent(log, <<>>) :
              /\ i \in DOMAIN Sent(log, queue)
              /\ Sent(log, <<>>)[i] = Sent(log, queue)[i]
              /\ i # 1 => i - 1 \in DOMAIN Sent(log, <<>>)
<1>1. <<>> \in Seq(Queued(S)) /\ Len(<<>>) = 0
  BY EmptySeq
<1>2. /\ Len(log) \in Nat
      /\ DOMAIN Sent(log, <<>>) = 1..(Len(log) + Len(<<>>))
      /\ \A i \in 1..(Len(log) + Len(<<>>)) :
            Sent(log, <<>>)[i] = IF i <= Len(log) THEN log[i] ELSE <<>>[i - Len(log)].event
  BY <1>1, SentProperties
<1>3. /\ Len(queue) \in Nat
      /\ DOMAIN Sent(log, queue) = 1..(Len(log) + Len(queue))
      /\ \A i \in 1..(Len(log) + Len(queue)) :
            Sent(log, queue)[i] = IF i <= Len(log) THEN log[i] ELSE queue[i - Len(log)].event
  BY SentProperties
<1> SUFFICES ASSUME NEW i \in DOMAIN Sent(log, <<>>)
             PROVE  /\ i \in DOMAIN Sent(log, queue)
                    /\ Sent(log, <<>>)[i] = Sent(log, queue)[i]
                    /\ i # 1 => i - 1 \in DOMAIN Sent(log, <<>>)
  OBVIOUS
<1>4. Len(log) + Len(<<>>) = Len(log)
  BY <1>1, <1>2
<1>5. i \in 1..Len(log) /\ i <= Len(log)
  BY <1>2, <1>4
<1>6. i \in 1..(Len(log) + Len(queue)) /\ (i # 1 => i - 1 \in 1..Len(log))
  BY <1>2, <1>3, <1>5
<1>7. Sent(log, <<>>)[i] = log[i] /\ Sent(log, queue)[i] = log[i]
  BY <1>2, <1>3, <1>4, <1>5, <1>6
<1> QED
  BY <1>2, <1>3, <1>4, <1>6, <1>7

\* A key of which nothing is sold or reported, and whose stock, if the
\* generator goes on, is not raised except to a level of a restock.
LEMMA PairedKept ==
    ASSUME GInv, NEW k \in Keys, Paired(k),
           Sold(k)' = Sold(k), Moved(k)' = Moved(k),
           alive' => /\ alive
                     /\ k \in half' <=> k \in half
                     /\ \/ stock'[k] = stock[k]
                        \/ /\ k \notin half
                           /\ stock'[k] \in Restocks
                        \/ /\ k \notin half
                           /\ stock'[k] <= stock[k]
                           /\ stock'[k] \in Int,
           GeneratorAssumption
    PROVE  Paired(k)'
<1>1. /\ stock[k] \in Nat
      /\ \A i : Known(Moved(k), i)' = Known(Moved(k), i)
      /\ Restocks \subseteq Nat /\ InitialStock \in Nat
  BY DEF GInv, GeneratorTypeOK, Known, GeneratorAssumption
<1>2. /\ Len(Moved(k)) \in Nat /\ DOMAIN Moved(k) = 1..Len(Moved(k))
      /\ \A i \in DOMAIN Moved(k) : Moved(k)[i] \in Nat
  BY SentTypes
<1> DEFINE last == Known(Moved(k), Len(Moved(k)) + 1)
<1>3. last \subseteq Nat
  <2> DEFINE n == Len(Moved(k))
  <2>1. n + 1 # 1 => (n + 1) - 1 = n /\ n \in 1..n
    BY <1>2
  <2>2. (IF n + 1 = 1 THEN InitialStock ELSE Moved(k)[(n + 1) - 1]) \in Nat
    BY <1>1, <1>2, <2>1
  <2> QED
    BY <1>1, <2>2 DEF Known
<1>4. ASSUME alive' PROVE \E known \in last : Level(k)' <= known
  <2>1. PICK known \in last : Level(k) <= known
    BY <1>4 DEF Paired
  <2>2. CASE stock'[k] = stock[k]
    <3>1. Level(k)' = Level(k)
      BY <1>4, <2>2 DEF Level
    <3> QED
      BY <2>1, <3>1
  <2>3. CASE k \notin half /\ stock'[k] \in Restocks
    <3>1. Level(k)' = stock'[k] + 0 /\ stock'[k] \in Nat
      BY <1>1, <1>4, <2>3 DEF Level
    <3>2. stock'[k] \in last
      BY <2>3 DEF Known
    <3> QED
      BY <3>1, <3>2
  <2>4. CASE k \notin half /\ stock'[k] <= stock[k] /\ stock'[k] \in Int
    <3>1. Level(k)' = stock'[k] + 0 /\ Level(k) = stock[k] + 0
      BY <1>4, <2>4 DEF Level
    <3>2. known \in Nat
      BY <1>3, <2>1
    <3> QED
      BY <1>1, <2>1, <2>4, <3>1, <3>2
  <2> QED
    BY <1>4, <2>2, <2>3, <2>4
<1> QED
  BY <1>1, <1>4 DEF Paired

\* A sale lowers the stock by what its order adds.
LEMMA SellKeepsPaired ==
    ASSUME TopicsAssumption, GInv, Sell, \A k \in Keys : Paired(k)
    PROVE  \A k \in Keys : Paired(k)'
<1>1. PICK k \in Keys, q \in Quantities, a \in BOOLEAN :
         /\ stock[k] >= q
         /\ stock' = [stock EXCEPT ![k] = @ - q]
         /\ orderQueue' = [orderQueue EXCEPT ![k] =
               Enqueued(@, [at |-> clock, qty |-> q, anomaly |-> a])]
         /\ half' = {k}
         /\ half = {}
         /\ [at |-> clock, qty |-> q, anomaly |-> a] \in Order
  BY SaleQueued
<1> DEFINE o == [at |-> clock, qty |-> q, anomaly |-> a]
           n == Len(Sold(k))
<1>2. o.qty = q /\ o \in Order
  BY <1>1
<1>3. orderQueue' = [orderQueue EXCEPT ![k] = Enqueued(@, o)]
  BY <1>1
<1> HIDE DEF o
<1>4. /\ orders \in [Keys -> Seq(Order)] /\ orderQueue \in [Keys -> Seq(Queued(Order))]
      /\ stock \in [Keys -> Nat] /\ Quantities \subseteq Nat
      /\ orders' = orders /\ moves' = moves /\ moveQueue' = moveQueue
      /\ alive /\ alive'
  BY DEF GInv, TopicsTypeOK, GeneratorTypeOK, TopicsAssumption, HalfInv, Sell, Turn, topicVars
<1>5. \A x : Moved(x)' = Moved(x)
  BY <1>4 DEF Moved
<1>6. \A x, i : Known(Moved(x), i)' = Known(Moved(x), i)
  BY <1>5 DEF Known
<1>7. ASSUME NEW x \in Keys, x # k PROVE Paired(x)'
  <2>1. Sold(x)' = Sold(x)
    BY <1>3, <1>4, <1>7 DEF Sold
  <2>2. stock'[x] = stock[x] /\ x \notin half /\ x \notin half'
    BY <1>1, <1>4, <1>7
  <2>3. Level(x)' = Level(x)
    BY <2>1, <2>2 DEF Level
  <2> QED
    BY <1>4, <1>5, <1>6, <2>1, <2>2, <2>3 DEF Paired
<1>8. Paired(k)'
  <2> DEFINE queue == Enqueued(orderQueue[k], o)
  <2>1. /\ orders[k] \in Seq(Order) /\ orderQueue[k] \in Seq(Queued(Order))
        /\ Sold(k)' = Sent(orders[k], queue)
    BY <1>3, <1>4 DEF Sold
  <2>2. LET m == Len(Sent(orders[k], orderQueue[k]))
        IN  /\ m \in Nat /\ Len(Sent(orders[k], queue)) = m + 1
            /\ \A i \in 1..m : Sent(orders[k], queue)[i] = Sent(orders[k], orderQueue[k])[i]
            /\ Sent(orders[k], queue)[m + 1] = o
    BY <1>2, <2>1, SentGrows
  <2>3. /\ n \in Nat /\ Len(Sold(k)') = n + 1
        /\ \A i \in 1..n : Sold(k)'[i] = Sold(k)[i]
        /\ Sold(k)'[n + 1] = o
    BY <2>1, <2>2 DEF Sold
  <2> HIDE DEF queue
  <2>4. n = Len(Moved(k)) /\ Paired(k)
    <3>1. Len(Moved(k)) \in Nat
      BY SentTypes
    <3>2. n = Len(Moved(k)) + 0
      BY <1>1, <1>4 DEF Paired
    <3> QED
      BY <3>1, <3>2
  <2>5. DOMAIN Moved(k) = 1..n /\ DOMAIN Sold(k) = 1..n
    BY <2>4, SentTypes
  <2>6. Level(k) = stock[k] /\ Level(k)' = stock[k]
    <3>1. stock[k] \in Nat /\ q \in Nat /\ stock'[k] = stock[k] - q
      BY <1>1, <1>4
    <3>2. Level(k) = stock[k] + 0
      BY <1>1 DEF Level
    <3>3. Level(k)' = stock'[k] + q
      BY <1>1, <1>2, <2>3 DEF Level
    <3> QED
      BY <3>1, <3>2, <3>3
  <2>7. \E known \in Known(Moved(k), Len(Moved(k)) + 1)' : Level(k)' <= known
    <3>1. \E known \in Known(Moved(k), Len(Moved(k)) + 1) : Level(k) <= known
      BY <1>4, <2>4 DEF Paired
    <3>2. Known(Moved(k), Len(Moved(k)) + 1)' = Known(Moved(k), Len(Moved(k)) + 1)
      BY <1>5 DEF Known
    <3> QED
      BY <2>6, <3>1, <3>2
  <2>8. \A i \in DOMAIN Sold(k)' \cap DOMAIN Moved(k)' :
           \E known \in Known(Moved(k), i)' : Moved(k)'[i] + Sold(k)'[i].qty <= known
    <3> TAKE i \in DOMAIN Sold(k)' \cap DOMAIN Moved(k)'
    <3>1. i \in 1..n /\ i \in DOMAIN Sold(k) \cap DOMAIN Moved(k)
      BY <1>5, <2>5
    <3>2. Sold(k)'[i] = Sold(k)[i] /\ Moved(k)'[i] = Moved(k)[i]
      BY <1>5, <2>3, <3>1
    <3> QED
      BY <1>6, <2>4, <3>1, <3>2 DEF Paired
  <2>9. Len(Sold(k)') = Len(Moved(k)') + (IF k \in half' THEN 1 ELSE 0)
    BY <1>1, <1>5, <2>3, <2>4
  <2> QED
    BY <2>7, <2>8, <2>9 DEF Paired
<1> QED
  BY <1>7, <1>8

\* A movement reports the level after its sale.
LEMMA SendMovementKeepsPaired ==
    ASSUME TopicsAssumption, GInv, SendMovement, \A k \in Keys : Paired(k)
    PROVE  \A k \in Keys : Paired(k)'
<1>1. PICK k \in half : moveQueue' = [moveQueue EXCEPT ![k] = Enqueued(@, stock[k])]
  BY DEF SendMovement, Enqueue, Enqueued
<1> DEFINE n == Len(Moved(k))
<1>2. moveQueue' = [moveQueue EXCEPT ![k] = Enqueued(@, stock[k])]
  BY <1>1
<1>3. /\ moves \in [Keys -> Seq(Nat)] /\ moveQueue \in [Keys -> Seq(Queued(Nat))]
      /\ stock \in [Keys -> Nat] /\ k \in Keys /\ half = {k} /\ half' = {}
      /\ orders' = orders /\ moves' = moves /\ orderQueue' = orderQueue /\ stock' = stock
      /\ alive /\ alive'
  BY <1>1 DEF GInv, TopicsTypeOK, GeneratorTypeOK, HalfInv, SendMovement, topicVars
<1>4. \A x : Sold(x)' = Sold(x)
  BY <1>3 DEF Sold
<1>5. ASSUME NEW x \in Keys, x # k PROVE Paired(x)'
  <2>1. Moved(x)' = Moved(x)
    BY <1>2, <1>3, <1>5 DEF Moved
  <2>2. /\ x \notin half /\ x \notin half'
        /\ Sold(x)' = Sold(x) /\ \A i : Known(Moved(x), i)' = Known(Moved(x), i)
    BY <1>3, <1>4, <1>5, <2>1 DEF Known
  <2>3. Level(x)' = Level(x)
    BY <1>3, <2>2 DEF Level
  <2> QED
    BY <1>3, <2>1, <2>2, <2>3 DEF Paired
<1>6. Paired(k)'
  <2> DEFINE queue == Enqueued(moveQueue[k], stock[k])
  <2>1. /\ moves[k] \in Seq(Nat) /\ moveQueue[k] \in Seq(Queued(Nat)) /\ stock[k] \in Nat
        /\ Moved(k)' = Sent(moves[k], queue)
    BY <1>2, <1>3 DEF Moved
  <2>2. LET m == Len(Sent(moves[k], moveQueue[k]))
        IN  /\ m \in Nat /\ Len(Sent(moves[k], queue)) = m + 1
            /\ \A i \in 1..m : Sent(moves[k], queue)[i] = Sent(moves[k], moveQueue[k])[i]
            /\ Sent(moves[k], queue)[m + 1] = stock[k]
            /\ queue \in Seq(Queued(Nat))
    <3>1. LET m == Len(Sent(moves[k], moveQueue[k]))
          IN  /\ m \in Nat /\ Len(Sent(moves[k], queue)) = m + 1
              /\ \A i \in 1..m : Sent(moves[k], queue)[i] = Sent(moves[k], moveQueue[k])[i]
              /\ Sent(moves[k], queue)[m + 1] = stock[k]
      BY <2>1, SentGrows
    <3>2. queue \in Seq(Queued(Nat))
      BY <2>1, SentGrows
    <3> QED
      BY <3>1, <3>2
  <2>3. /\ n \in Nat /\ Len(Moved(k)') = n + 1
        /\ \A i \in 1..n : Moved(k)'[i] = Moved(k)[i]
        /\ Moved(k)'[n + 1] = stock[k]
    BY <2>1, <2>2 DEF Moved
  <2>4. DOMAIN Moved(k)' = 1..(n + 1)
    <3>1. Sent(moves[k], queue) \in Seq(Nat)
      BY <2>1, <2>2, SentProperties
    <3>2. Moved(k)' \in Seq(Nat)
      BY <2>1, <3>1
    <3> QED
      BY <2>3, <3>2, LenProperties
  <2> HIDE DEF queue
  <2>5. /\ Paired(k)
        /\ Len(Sold(k)) = n + 1
        /\ DOMAIN Sold(k) = 1..(n + 1) /\ DOMAIN Moved(k) = 1..n
    <3>1. Paired(k) /\ k \in half
      BY <1>3
    <3>2. Len(Sold(k)) = n + 1
      BY <1>3, <3>1 DEF Paired
    <3> QED
      BY <1>3, <3>1, <3>2, SentTypes
  <2>6. Level(k) = stock[k] + Sold(k)[n + 1].qty /\ Level(k)' = stock[k] + 0
    BY <1>3, <2>5 DEF Level
  <2>7. \A i \in 1..(n + 1) : Known(Moved(k), i)' = Known(Moved(k), i)
    <3> TAKE i \in 1..(n + 1)
    <3>1. i # 1 => i - 1 \in 1..n
      BY <2>3
    <3>2. i # 1 => Moved(k)'[i - 1] = Moved(k)[i - 1]
      BY <2>3, <3>1
    <3> QED
      BY <3>2 DEF Known
  <2>8. \A i \in DOMAIN Sold(k)' \cap DOMAIN Moved(k)' :
           \E known \in Known(Moved(k), i)' : Moved(k)'[i] + Sold(k)'[i].qty <= known
    <3> TAKE i \in DOMAIN Sold(k)' \cap DOMAIN Moved(k)'
    <3>1. i \in 1..(n + 1)
      BY <2>4
    <3>2. CASE i <= n
      <4>1. i \in 1..n /\ i \in DOMAIN Sold(k) \cap DOMAIN Moved(k)
        BY <2>3, <2>5, <3>1, <3>2
      <4>2. Moved(k)'[i] = Moved(k)[i] /\ Sold(k)'[i] = Sold(k)[i]
        BY <1>4, <2>3, <4>1
      <4>3. \E known \in Known(Moved(k), i) : Moved(k)[i] + Sold(k)[i].qty <= known
        BY <2>5, <4>1 DEF Paired
      <4> QED
        BY <2>7, <3>1, <4>2, <4>3
    <3>3. CASE i = n + 1
      <4>1. \E known \in Known(Moved(k), n + 1) : Level(k) <= known
        BY <1>3, <2>5 DEF Paired
      <4>2. Moved(k)'[i] + Sold(k)'[i].qty = Level(k)
        BY <1>4, <2>3, <2>6, <3>3
      <4> QED
        BY <2>7, <3>1, <3>3, <4>1, <4>2
    <3> QED
      BY <2>3, <3>1, <3>2, <3>3
  <2>9. \E known \in Known(Moved(k), Len(Moved(k)) + 1)' : Level(k)' <= known
    <3>1. Len(Moved(k)') + 1 # 1 /\ (Len(Moved(k)') + 1) - 1 = n + 1
      BY <2>3
    <3>2. Moved(k)'[(Len(Moved(k)') + 1) - 1] = stock[k]
      BY <2>3, <3>1
    <3>3. stock[k] \in Known(Moved(k), Len(Moved(k)) + 1)'
      BY <3>1, <3>2 DEF Known
    <3>4. Level(k)' <= stock[k]
      BY <2>1, <2>6
    <3> QED
      BY <3>3, <3>4
  <2>10. Len(Sold(k)') = Len(Moved(k)') + (IF k \in half' THEN 1 ELSE 0)
    BY <1>3, <1>4, <2>3, <2>5
  <2> QED
    BY <2>8, <2>9, <2>10 DEF Paired
<1> QED
  BY <1>5, <1>6

\* What is delivered in order, or cut off by a death, pairs up as before.
LEMMA DeliveryKeepsPaired ==
    ASSUME GeneratorAssumption, GInv, PublishOrder \/ PublishMovement,
           "publish" \notin faults, "publish" \notin faults', NEW k \in Keys, Paired(k)
    PROVE  Paired(k)'
<1>1. /\ orders \in [Keys -> Seq(Order)] /\ moves \in [Keys -> Seq(Nat)]
      /\ orderQueue \in [Keys -> Seq(Queued(Order))] /\ moveQueue \in [Keys -> Seq(Queued(Nat))]
      /\ \A x \in Keys : Untried(orderQueue[x]) /\ Untried(moveQueue[x])
      /\ TopicsTypeOK
  BY DEF GInv, TopicsTypeOK, GeneratorTypeOK, UntriedInv
<1>2. CASE PublishOrder
  <2>1. PICK x, i :
           /\ x \in Keys
           /\ i \in Ready(orderQueue[x])
           /\ orders' = [orders EXCEPT ![x] = Append(@, orderQueue[x][i].event)]
           /\ orderQueue' = [orderQueue EXCEPT ![x] = RemoveAt(@, i)]
    BY <1>1, <1>2, OrderAttempted
  <2>2. i = 1 /\ 1 \in 1..Len(orderQueue[x])
    BY <1>1, <2>1, FirstReady
  <2> DEFINE log == Delivered(orders[x], orderQueue[x])
             queue == RemoveAt(orderQueue[x], 1)
  <2>3. orders' = [orders EXCEPT ![x] = log] /\ orderQueue' = [orderQueue EXCEPT ![x] = queue]
    BY <2>1, <2>2 DEF Delivered
  <2>4. orders[x] \in Seq(Order) /\ orderQueue[x] \in Seq(Queued(Order))
    BY <1>1, <2>1
  <2>5. Sent(log, queue) = Sent(orders[x], orderQueue[x])
    BY <2>2, <2>4, SentDelivered
  <2> HIDE DEF log, queue
  <2>6. Sold(k)' = Sold(k)
    BY <1>1, <2>3, <2>5 DEF Sold
  <2>7. Moved(k)' = Moved(k) /\ UNCHANGED <<alive, half, stock>>
    BY <1>2 DEF PublishOrder, Moved, loopVars
  <2> QED
    BY <2>6, <2>7, PairedKept
<1>3. CASE PublishMovement
  <2>1. PICK x, i :
           /\ x \in Keys
           /\ i \in Ready(moveQueue[x])
           /\ moves' = [moves EXCEPT ![x] = Append(@, moveQueue[x][i].event)]
           /\ moveQueue' = [moveQueue EXCEPT ![x] = RemoveAt(@, i)]
    BY <1>1, <1>3, MovementAttempted
  <2>2. i = 1 /\ 1 \in 1..Len(moveQueue[x])
    BY <1>1, <2>1, FirstReady
  <2> DEFINE log == Delivered(moves[x], moveQueue[x])
             queue == RemoveAt(moveQueue[x], 1)
  <2>3. moves' = [moves EXCEPT ![x] = log] /\ moveQueue' = [moveQueue EXCEPT ![x] = queue]
    BY <2>1, <2>2 DEF Delivered
  <2>4. moves[x] \in Seq(Nat) /\ moveQueue[x] \in Seq(Queued(Nat))
    BY <1>1, <2>1
  <2>5. Sent(log, queue) = Sent(moves[x], moveQueue[x])
    BY <2>2, <2>4, SentDelivered
  <2> HIDE DEF log, queue
  <2>6. Moved(k)' = Moved(k)
    BY <1>1, <2>3, <2>5 DEF Moved
  <2>7. Sold(k)' = Sold(k) /\ UNCHANGED <<alive, half, stock>>
    BY <1>3 DEF PublishMovement, Sold, loopVars
  <2> QED
    BY <2>6, <2>7, PairedKept
<1> QED
  BY <1>2, <1>3

LEMMA DeathKeepsPaired ==
    ASSUME GInv, GeneratorDies, NEW k \in Keys, Paired(k)
    PROVE  Paired(k)'
<1>1. /\ orders[k] \in Seq(Order) /\ moves[k] \in Seq(Nat)
      /\ orderQueue[k] \in Seq(Queued(Order)) /\ moveQueue[k] \in Seq(Queued(Nat))
  BY DEF GInv, TopicsTypeOK, GeneratorTypeOK
<1> DEFINE sold == Sent(orders[k], <<>>)
           moved == Sent(moves[k], <<>>)
<1>2. ~alive' /\ Sold(k)' = sold /\ Moved(k)' = moved
  BY DEF GeneratorDies, NothingQueued, Sold, Moved
<1>3. \A i \in DOMAIN sold : i \in DOMAIN Sold(k) /\ sold[i] = Sold(k)[i]
  BY <1>1, SentCut DEF Sold
<1>4. \A i \in DOMAIN moved :
         /\ i \in DOMAIN Moved(k) /\ moved[i] = Moved(k)[i]
         /\ i # 1 => moved[i - 1] = Moved(k)[i - 1]
  BY <1>1, SentCut DEF Moved
<1> HIDE DEF sold, moved
<1>5. ASSUME NEW i \in DOMAIN sold \cap DOMAIN moved
      PROVE  \E known \in Known(moved, i) : moved[i] + sold[i].qty <= known
  <2>1. \E known \in Known(Moved(k), i) : Moved(k)[i] + Sold(k)[i].qty <= known
    BY <1>3, <1>4 DEF Paired
  <2>2. Known(moved, i) = Known(Moved(k), i)
    BY <1>4 DEF Known
  <2> QED
    BY <1>3, <1>4, <2>1, <2>2
<1>6. \A i : Known(Moved(k), i)' = Known(moved, i)
  BY <1>2 DEF Known
<1> QED
  BY <1>2, <1>5, <1>6 DEF Paired

LEMMA GeneratorKeepsPaired ==
    ASSUME TopicsAssumption, GeneratorAssumption, GInv, GeneratorNext
    PROVE  PairedInv'
<1> SUFFICES ASSUME "publish" \notin faults', NEW k \in Keys
             PROVE  Paired(k)'
  BY DEF PairedInv, Paired
<1>1. "publish" \notin faults
  BY GeneratorFaults DEF GInv
<1>2. \A x \in Keys : Paired(x)
  BY <1>1 DEF GInv, PairedInv
<1>3. /\ StockoutTarget \in Nat /\ stock \in [Keys -> Nat]
  BY DEF GInv, GeneratorTypeOK, GeneratorAssumption
<1>4. CASE Surge \/ Stockout \/ Quiet \/ Restock \/ Tick
  <2>1. UNCHANGED <<orders, moves, orderQueue, moveQueue>>
    BY <1>4 DEF Surge, Stockout, Quiet, Restock, Tick, topicVars, generatorVars, senderVars
  <2>2. Sold(k)' = Sold(k) /\ Moved(k)' = Moved(k)
    BY <2>1 DEF Sold, Moved
  <2>3. /\ UNCHANGED <<half, alive>>
        /\ \/ stock'[k] = stock[k]
           \/ half = {} /\ stock'[k] \in Restocks
           \/ half = {} /\ stock'[k] <= stock[k] /\ stock'[k] \in Int
    <3>1. CASE Surge \/ Quiet \/ Tick
      BY <3>1 DEF Surge, Quiet, Tick, generatorVars, loopVars
    <3>2. CASE Stockout
      BY <1>3, <3>2 DEF Stockout, Iterate
    <3>3. CASE Restock
      BY <1>3, <3>3 DEF Restock, Turn
    <3> QED
      BY <1>4, <3>1, <3>2, <3>3
  <2> QED
    BY <1>2, <2>2, <2>3, PairedKept
<1>5. CASE Sell
  BY <1>2, <1>5, SellKeepsPaired
<1>6. CASE SendMovement
  BY <1>2, <1>6, SendMovementKeepsPaired
<1>7. CASE GeneratorDies
  BY <1>2, <1>7, DeathKeepsPaired
<1>8. CASE PublishOrder \/ PublishMovement
  BY <1>1, <1>2, <1>8, DeliveryKeepsPaired
<1> QED
  BY <1>4, <1>5, <1>6, <1>7, <1>8 DEF GeneratorNext, Produce

-----------------------------------------------------------------------------
(* The theorems of the specifications.                                     *)

LEMMA OthersKeepGInv ==
    ASSUME GInv, UNCHANGED <<clock, orders, moves, generatorVars>>,
           faults \subseteq faults', faults' \subseteq Faults
    PROVE  GInv'
<1>1. TopicsTypeOK' /\ GeneratorTypeOK'
  BY DEF GInv, TopicsTypeOK, GeneratorTypeOK, generatorVars, loopVars, senderVars
<1>2. HalfInv'
  BY DEF GInv, HalfInv, generatorVars, loopVars
<1>3. UntriedInv'
  BY DEF GInv, UntriedInv, Untried, generatorVars, senderVars
<1>4. PairedInv'
  <2>1. \A k : Sold(k)' = Sold(k) /\ Moved(k)' = Moved(k)
    BY DEF Sold, Moved, generatorVars, senderVars
  <2>2. UNCHANGED <<alive, half, stock>>
    BY DEF generatorVars, loopVars
  <2>3. \A k : Level(k)' = Level(k) /\ \A i : Known(Moved(k), i)' = Known(Moved(k), i)
    BY <2>1, <2>2 DEF Level, Known
  <2>4. \A k : Paired(k) => Paired(k)'
    BY <2>1, <2>2, <2>3 DEF Paired
  <2> QED
    BY <2>4 DEF GInv, PairedInv
<1> QED
  BY <1>1, <1>2, <1>3, <1>4 DEF GInv

LEMMA InitGInv ==
    ASSUME TopicsAssumption, GeneratorAssumption, TopicsInit, GeneratorInit
    PROVE  GInv
<1>1. TopicsTypeOK
  BY EmptySeq DEF TopicsInit, TopicsTypeOK, TopicsAssumption, Times
<1>2. GeneratorTypeOK
  <2>1. <<>> \in Seq(Keys \X BOOLEAN) /\ \A S : <<>> \in Seq(Queued(S))
    BY EmptySeq
  <2>2. 0 \in Times
    BY DEF TopicsAssumption, Times
  <2>3. orderQueue \in [Keys -> Seq(Queued(Order))] /\ moveQueue \in [Keys -> Seq(Queued(Nat))]
    BY <2>1 DEF GeneratorInit, NothingQueued
  <2> QED
    BY <2>1, <2>2, <2>3 DEF GeneratorInit, GeneratorTypeOK, GeneratorAssumption
<1>3. HalfInv
  BY DEF GeneratorInit, HalfInv
<1>4. ASSUME NEW k \in Keys
      PROVE  /\ orderQueue[k] = <<>> /\ moveQueue[k] = <<>>
             /\ orders[k] = <<>> /\ moves[k] = <<>>
  BY DEF TopicsInit, GeneratorInit, NothingQueued
<1>5. UntriedInv
  BY <1>4, EmptySeq DEF UntriedInv, Untried
<1>6. PairedInv
  <2> SUFFICES ASSUME NEW k \in Keys PROVE Paired(k)
    BY DEF PairedInv
  <2>1. Len(Sold(k)) = 0 /\ Len(Moved(k)) = 0 /\ DOMAIN Moved(k) = {}
    <3>1. Len(<<>>) = 0 /\ \A S : <<>> \in Seq(S) /\ <<>> \in Seq(Queued(S))
      BY EmptySeq
    <3>2. Len(Sent(<<>>, <<>>)) = 0 + 0 /\ DOMAIN Sent(<<>>, <<>>) = 1..(0 + 0)
      BY <3>1, SentProperties
    <3> QED
      BY <1>4, <3>2 DEF Sold, Moved
  <2>2. half = {} /\ Level(k) = InitialStock + 0 /\ InitialStock \in Nat
    BY DEF GeneratorInit, Level, GeneratorAssumption
  <2>3. InitialStock \in Known(Moved(k), 0 + 1)
    BY DEF Known
  <2> QED
    BY <2>1, <2>2, <2>3 DEF Paired
<1> QED
  BY <1>1, <1>2, <1>3, <1>5, <1>6 DEF GInv

LEMMA GeneratorKeepsGInv ==
    ASSUME TopicsAssumption, GeneratorAssumption, GInv, GeneratorNext
    PROVE  GInv'
BY GeneratorKeepsTypes, GeneratorKeepsHalf, GeneratorKeepsUntried, GeneratorKeepsPaired DEF GInv

LEMMA GInvSuffices ==
    ASSUME GInv
    PROVE  EveryOrderMoved
<1> SUFFICES ASSUME "publish" \notin faults, NEW k \in Keys
             PROVE  LET sold == Sent(orders[k], orderQueue[k])
                        moved == Sent(moves[k], moveQueue[k])
                    IN  /\ alive => Len(sold) = Len(moved) + (IF k \in half THEN 1 ELSE 0)
                        /\ \A i \in DOMAIN sold \cap DOMAIN moved :
                              \E known \in Known(moved, i) : moved[i] + sold[i].qty <= known
  BY DEF EveryOrderMoved
<1>1. Paired(k)
  BY DEF GInv, PairedInv
<1> QED
  BY <1>1 DEF Paired, Sold, Moved

\* The generator sells only what is there, and hands every order to the
\* producer with its movement, as far as deliveries are acknowledged
\* (producer.py:176-192, inventory.py:34-51, kafka_client.py:20-41).
THEOREM OrdersMoved == GeneratorSpec => []EveryOrderMoved
<1>1. ProducerInit => GInv
  BY InitGInv, TopicsAssumption, GeneratorAssumption DEF ProducerInit
<1>2. GInv /\ [GeneratorNext]_<<topicVars, generatorVars>> => GInv'
  <2>1. CASE GInv /\ GeneratorNext
    BY <2>1, GeneratorKeepsGInv, TopicsAssumption, GeneratorAssumption
  <2>2. CASE GInv /\ UNCHANGED <<topicVars, generatorVars>>
    BY <2>2, OthersKeepGInv DEF topicVars, GInv, TopicsTypeOK
  <2> QED
    BY <2>1, <2>2
<1> QED
  BY <1>1, <1>2, GInvSuffices, PTL DEF GeneratorSpec

\* The same, and the generator's types, in every interleaving of the
\* generator, its producer and the streaming job.
THEOREM GeneratorInvariance == PipelineSpec => [](GInv /\ EveryOrderMoved)
<1>1. PipelineInit => GInv
  BY InitGInv, TopicsAssumption, GeneratorAssumption DEF PipelineInit
<1>2. GInv /\ [PipelineNext]_pipelineVars => GInv'
  <2>1. CASE GInv /\ GeneratorNext
    BY <2>1, GeneratorKeepsGInv, TopicsAssumption, GeneratorAssumption
  <2>2. CASE GInv /\ JobNext /\ UNCHANGED generatorVars
    BY <2>2, JobLeavesTopics, OthersKeepGInv, TopicsAssumption DEF GInv
  <2>3. CASE GInv /\ UNCHANGED pipelineVars
    BY <2>3, OthersKeepGInv DEF pipelineVars, topicVars, GInv, TopicsTypeOK
  <2> QED
    BY <2>1, <2>2, <2>3 DEF PipelineNext
<1> QED
  BY <1>1, <1>2, GInvSuffices, PTL DEF PipelineSpec

=============================================================================
