------------------------------ MODULE StreamJob ------------------------------
(***************************************************************************)
(* streaming/: the Flink job.  It reads raw-orders (parallelism 1, one     *)
(* watermark over all partitions), drops or quarantines what it cannot     *)
(* use, counts orders per key in tumbling event-time windows, and for      *)
(* every window that closes writes the feature row, scores it, and writes  *)
(* and publishes each alert, one commit or send after the other.  There is *)
(* no checkpoint: a new submission starts empty, at the end of the topic.  *)
(* Records in flight between the two operator chains keep their order with *)
(* the watermarks, so reading one and assigning it to a window is a step.  *)
(***************************************************************************)
EXTENDS Topics

CONSTANTS
    WindowSize,    \* Length of a tumbling window.
    Lateness,      \* for_bounded_out_of_orderness
    SurgeOrders,   \* Orders per window whose momentum reaches the threshold.
    ReorderPoint,
    NoRow

ASSUME StreamAssumption ==
    /\ WindowSize \in Nat \ {0}
    /\ {Lateness, ReorderPoint} \subseteq Nat
    /\ SurgeOrders \in Nat \ {0}

VARIABLES
    up,          \* The job runs.
    offset,      \* Position of the next order to read, per key.
    newest,      \* Newest event time read.
    watermark,
    open,        \* Orders held in windows that have not fired.
    late,        \* Orders dropped as late; the code keeps no trace of them.
    dead,        \* dead-letter: the orders quarantined.
    sink,        \* What FeatureSinkFn.map does next.
    row,         \* The feature row it is at.
    pending,     \* The alerts still to write or publish for it.
    detector,    \* _detector_loader, and whether it is ready.
    outbox,      \* Alerts handed to the Kafka producer.
    rows,        \* windowed_features: order_rate per key and window; 0: none.
    alerts,      \* alerts: the window each key and type was last raised for.
    sent         \* stockout-alerts and surge-alerts

taskVars == <<up, offset, newest, watermark, open, late, sink, row, pending, detector, outbox>>
storeVars == <<dead, rows, alerts, sent>>
jobVars == <<taskVars, storeVars>>

-----------------------------------------------------------------------------
Window(t) == t \div WindowSize
Windows == 0..Window(MaxTime)
WindowEnd(w) == (w + 1) * WindowSize

WindowOf(p) == Window(Event(p).at)
InWindow(S, k, w) == {p \in S : p[1] = k /\ WindowOf(p) = w}

Closed(w) == WindowEnd(w) - 1 <= watermark

Types == {"stockout_risk", "surge"}
NoAlert == -1
Row == [key : Keys, window : Windows, orders : Nat \ {0}]

ASSUME NoRowAssumption == NoRow \notin Row

Alert == Keys \X Types \X Windows

StreamTypeOK ==
    /\ up \in BOOLEAN
    /\ offset \in [Keys -> Nat \ {0}]
    /\ newest \in Times
    /\ watermark \in Int
    /\ open \cup late \cup dead \subseteq Keys \X (Nat \ {0})
    /\ sink \in {"idle", "row", "insert", "send"}
    /\ row \in Row \cup {NoRow}
    /\ pending \in Seq(Types)
    /\ detector \in {"unset", "off", "waiting", "ready"}
    /\ outbox \cup sent \subseteq Alert
    /\ rows \in [Keys \X Windows -> Nat]
    /\ alerts \in [Keys \X Types -> Windows \cup {NoAlert}]

\* A task starts with no window, no watermark and no loader.
Fresh ==
    /\ newest' = 0
    /\ watermark' = -Lateness - 1
    /\ open' = {}
    /\ late' = {}
    /\ sink' = "idle"
    /\ row' = NoRow
    /\ pending' = <<>>
    /\ detector' = "unset"
    /\ outbox' = {}

StreamInit ==
    /\ up = TRUE
    /\ offset = [k \in Keys |-> 1]
    /\ newest = 0
    /\ watermark = -Lateness - 1
    /\ open = {} /\ late = {} /\ dead = {}
    /\ sink = "idle"
    /\ row = NoRow
    /\ pending = <<>>
    /\ detector = "unset"
    /\ outbox = {}
    /\ rows = [x \in Keys \X Windows |-> 0]
    /\ alerts = [x \in Keys \X Types |-> NoAlert]
    /\ sent = {}

-----------------------------------------------------------------------------
(* Reading.                                                                *)

Unread(k) == up /\ offset[k] <= Len(orders[k])

Advance(k) == offset' = [offset EXCEPT ![k] = @ + 1]

\* Mutant: a late order opens its window again.
ReadOrder_Reopens(k) ==
    /\ Unread(k)
    /\ LET p == <<k, offset[k]>>
       IN  /\ newest' = IF Event(p).at > newest THEN Event(p).at ELSE newest
           /\ open' = open \cup {p}
    /\ Advance(k)
    /\ UNCHANGED <<up, watermark, late, sink, row, pending, detector, outbox, storeVars, topicVars>>

\* A valid order moves the newest event time; its window takes it unless
\* the watermark has passed the window.
ReadOrder(k) ==
    /\ Unread(k)
    /\ LET p == <<k, offset[k]>>
       IN  /\ newest' = IF Event(p).at > newest THEN Event(p).at ELSE newest
           /\ IF Closed(WindowOf(p))
              THEN late' = late \cup {p} /\ UNCHANGED open
              ELSE open' = open \cup {p} /\ UNCHANGED late
    /\ Advance(k)
    /\ UNCHANGED <<up, watermark, sink, row, pending, detector, outbox, storeVars, topicVars>>

\* The generator's orders are well formed; validation refuses one when the
\* clocks disagree and its event time lies too far ahead.
Quarantine(k) ==
    /\ Unread(k)
    /\ Fault("skew")
    /\ dead' = dead \cup {<<k, offset[k]>>}
    /\ Advance(k)
    /\ UNCHANGED <<up, newest, watermark, open, late, sink, row, pending,
                   detector, outbox, rows, alerts, sent, clock, orders, moves>>

\* Mutant: the newest event time taken as the watermark.
EmitWatermark_NoBound ==
    /\ up
    /\ newest - 1 > watermark
    /\ watermark' = newest - 1
    /\ UNCHANGED <<up, offset, newest, open, late, sink, row, pending,
                   detector, outbox, storeVars, topicVars>>

\* Mutant: a step of one tick is not worth an emission.
EmitWatermark_Coarse ==
    /\ up
    /\ newest - Lateness - 1 > watermark + 1
    /\ watermark' = newest - Lateness - 1
    /\ UNCHANGED <<up, offset, newest, open, late, sink, row, pending,
                   detector, outbox, storeVars, topicVars>>

\* Periodic emission.
EmitWatermark ==
    /\ up
    /\ newest - Lateness - 1 > watermark
    /\ watermark' = newest - Lateness - 1
    /\ UNCHANGED <<up, offset, newest, open, late, sink, row, pending,
                   detector, outbox, storeVars, topicVars>>

-----------------------------------------------------------------------------
(* Windows and the sink.                                                   *)

\* Mutant: the window is not purged when it fires.
Fire_NotPurged ==
    /\ up
    /\ sink = "idle"
    /\ \E p \in open :
          /\ Closed(WindowOf(p))
          /\ \A q \in open : WindowOf(q) >= WindowOf(p)
          /\ row' = [key |-> p[1], window |-> WindowOf(p),
                      orders |-> Cardinality(InWindow(open, p[1], WindowOf(p)))]
    /\ sink' = "row"
    /\ UNCHANGED <<up, offset, newest, watermark, open, late, pending, detector,
                   outbox, storeVars, topicVars>>

\* Mutant: windows fire in any order.
Fire_AnyOrder ==
    /\ up
    /\ sink = "idle"
    /\ \E p \in open :
          /\ Closed(WindowOf(p))
          /\ LET mine == InWindow(open, p[1], WindowOf(p))
             IN  /\ row' = [key |-> p[1], window |-> WindowOf(p), orders |-> Cardinality(mine)]
                 /\ open' = open \ mine
    /\ sink' = "row"
    /\ UNCHANGED <<up, offset, newest, watermark, late, pending, detector,
                   outbox, storeVars, topicVars>>

\* Timers fire oldest window first.
Fire ==
    /\ up
    /\ sink = "idle"
    /\ \E p \in open :
          /\ Closed(WindowOf(p))
          /\ \A q \in open : WindowOf(q) >= WindowOf(p)
          /\ LET mine == InWindow(open, p[1], WindowOf(p))
             IN  /\ row' = [key |-> p[1], window |-> WindowOf(p), orders |-> Cardinality(mine)]
                 /\ open' = open \ mine
    /\ sink' = "row"
    /\ UNCHANGED <<up, offset, newest, watermark, late, pending, detector,
                   outbox, storeVars, topicVars>>

\* enrich_with_long_rate: no depletion, nothing on hand, a long rate of 1.0,
\* so that the momentum of a row is its number of orders per minute.
OnHand == 0

\* Mutant: strictly above the threshold.
Exceeds_Strict(type, r) ==
    IF type = "surge" THEN r.orders > SurgeOrders ELSE OnHand <= ReorderPoint

Exceeds(type, r) ==
    IF type = "surge" THEN r.orders >= SurgeOrders ELSE OnHand <= ReorderPoint

Judge(type, r) == IF Exceeds(type, r) THEN <<type>> ELSE <<>>

\* _score_rules and _score_ml append their alerts in opposite orders.
Rules(r) == Judge("stockout_risk", r) \o Judge("surge", r)

Anomaly(r) == Judge("surge", r) \o Judge("stockout_risk", r)

\* _get_detector_loader: the first score builds the loader; when that fails,
\* the process never tries again.  A loader once ready stays ready.
DetectorNext ==
    CASE detector = "unset" -> {"off", "waiting", "ready"}
      [] detector = "waiting" -> {"waiting", "ready"}
      [] OTHER -> {detector}

\* The model may call the row normal or an anomaly, or fail.
Scores(r, d) == IF d = "ready" THEN {<<>>, Anomaly(r), Rules(r)} ELSE {Rules(r)}

\* Mutant: an alert is published without being written.
After_SendOnly(todo) ==
    /\ pending' = todo
    /\ sink' = IF todo = <<>> THEN "idle" ELSE "send"
    /\ row' = IF todo = <<>> THEN NoRow ELSE row

After(todo) == /\ pending' = todo
               /\ sink' = IF todo = <<>> THEN "idle" ELSE "insert"
               /\ row' = IF todo = <<>> THEN NoRow ELSE row

StoreRow ==
    /\ sink = "row"
    /\ rows' = [rows EXCEPT ![<<row.key, row.window>>] = row.orders]
    /\ detector' \in DetectorNext
    /\ \E todo \in Scores(row, detector') : After(todo)
    /\ UNCHANGED <<up, offset, newest, watermark, open, late, outbox,
                   dead, alerts, sent, topicVars>>

\* Upserted per key and type: resolved is FALSE in every write.
InsertAlert ==
    /\ sink = "insert"
    /\ alerts' = [alerts EXCEPT ![<<row.key, Head(pending)>>] = row.window]
    /\ sink' = "send"
    /\ UNCHANGED <<up, offset, newest, watermark, open, late, row, pending,
                   detector, outbox, dead, rows, sent, topicVars>>

\* Mutant: one slot for the undelivered alert.
SendAlert_OneSlot ==
    /\ sink = "send"
    /\ outbox' = {<<row.key, Head(pending), row.window>>}
    /\ After(Tail(pending))
    /\ UNCHANGED <<up, offset, newest, watermark, open, late, detector,
                   storeVars, topicVars>>

SendAlert ==
    /\ sink = "send"
    /\ outbox' = outbox \cup {<<row.key, Head(pending), row.window>>}
    /\ After(Tail(pending))
    /\ UNCHANGED <<up, offset, newest, watermark, open, late, detector,
                   storeVars, topicVars>>

\* The producer's own thread delivers what send queued.
Deliver ==
    /\ \E a \in outbox : sent' = sent \cup {a} /\ outbox' = outbox \ {a}
    /\ UNCHANGED <<up, offset, newest, watermark, open, late, sink, row,
                   pending, detector, dead, rows, alerts, topicVars>>

\* The future that send returns, and any error in it, is ignored.
DeliveryFails ==
    /\ Fault("delivery")
    /\ \E a \in outbox : outbox' = outbox \ {a}
    /\ UNCHANGED <<up, offset, newest, watermark, open, late, sink, row,
                   pending, detector, storeVars, clock, orders, moves>>

-----------------------------------------------------------------------------
(* Stopping and submitting.                                                *)

\* A killed task manager, or an exception anywhere in the chain: Postgres
\* out of reach, an event the validator cannot compare.
Crash ==
    /\ up
    /\ Fault("crash")
    /\ up' = FALSE
    /\ Fresh
    /\ UNCHANGED <<offset, storeVars, clock, orders, moves>>

\* A job that is cancelled, or fails in order, closes its functions, which
\* flushes the producer.
Cancel ==
    /\ up
    /\ Fault("cancel")
    /\ up' = FALSE
    /\ Fresh
    /\ sent' = sent \cup outbox
    /\ UNCHANGED <<offset, dead, rows, alerts, clock, orders, moves>>

\* Starting offsets: the latest.  The orders published after that moment are
\* the ones left to read.
Submit ==
    /\ ~up
    /\ up' = TRUE
    /\ offset' \in [Keys -> 1..(Cardinality(Published) + 1)]
    /\ \A k \in Keys : offset'[k] \in offset[k]..(Len(orders[k]) + 1)
    /\ UNCHANGED <<newest, watermark, open, late, sink, row, pending,
                   detector, outbox, storeVars, topicVars>>

JobNext ==
    \/ \E k \in Keys : ReadOrder(k) \/ Quarantine(k)
    \/ EmitWatermark \/ Fire
    \/ StoreRow \/ InsertAlert \/ SendAlert
    \/ Deliver \/ DeliveryFails
    \/ Crash \/ Cancel \/ Submit

=============================================================================
