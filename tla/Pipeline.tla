------------------------------ MODULE Pipeline ------------------------------
(***************************************************************************)
(* The generator and the streaming job, joined by the raw topics: what     *)
(* becomes of an order, a window, an alert and an injected surge.          *)
(***************************************************************************)
EXTENDS Generator, StreamJob

pipelineVars == <<topicVars, generatorVars, jobVars>>

PipelineInit == TopicsInit /\ GeneratorInit /\ StreamInit

PipelineNext ==
    \/ GeneratorNext /\ UNCHANGED jobVars
    \/ JobNext /\ UNCHANGED generatorVars

\* As long as the job is up, Flink emits watermarks, fires timers and runs
\* the sink on.  Nothing is assumed of the generator or of reading.
JobFairness ==
    WF_pipelineVars(/\ EmitWatermark \/ Fire \/ StoreRow \/ InsertAlert \/ SendAlert
                    /\ UNCHANGED generatorVars)

PipelineSpec == PipelineInit /\ [][PipelineNext]_pipelineVars /\ JobFairness

\* For TLC: the orders are complete before the job begins to read.  The job
\* may lag behind by any amount and never looks past what it reads, and the
\* generator never looks at the job, so no state of the job is missed: the
\* orders it has not read yet might as well not be published yet.  Nor does
\* it look at the movements, which stay in the producer's queue.
Complete ==
    \/ ~alive
    \/ /\ burst = <<>>
       /\ half = {}
       /\ eventsSent >= MaxSent
       /\ orderQueue = NothingQueued

LaggingNext ==
    \/ ~Complete /\ (Produce \/ PublishOrder) /\ UNCHANGED jobVars
    \/ Complete /\ JobNext /\ UNCHANGED generatorVars

LaggingSpec == PipelineInit /\ [][LaggingNext]_pipelineVars /\ JobFairness

-----------------------------------------------------------------------------
(* Properties.  An order is an entry of the topic: one that the producer   *)
(* sent twice (retries without idempotence, kafka_client.py:28-32) is two. *)

PipelineTypeOK == TopicsTypeOK /\ GeneratorTypeOK /\ StreamTypeOK

\* The job is the one first submitted.  The generator may have died, clocks
\* may disagree, and deliveries may have failed.
Uninterrupted == faults \cap {"crash", "cancel"} = {}

Read == {p \in Published : p[2] < offset[p[1]]}

\* The orders read that were neither dropped nor quarantined.
InTime == Read \ (late \cup dead)

\* Every order the job reads (job.py:173-188, 256) is late, quarantined, held
\* by an open window, in the row at the sink, or counted once by its window's
\* row; and a row counts all of its window's orders that were in time.
OrdersAccounted ==
    Uninterrupted =>
        /\ \A p \in InTime \ open :
              \/ rows[<<p[1], WindowOf(p)>>] # 0
              \/ row # NoRow /\ row.key = p[1] /\ row.window = WindowOf(p)
        /\ \A k \in Keys, w \in Windows : rows[<<k, w>>] # 0 =>
              /\ rows[<<k, w>>] = Cardinality(InWindow(InTime, k, w))
              /\ InWindow(open, k, w) = {}

\* Whatever crashes, is cancelled or is submitted again, a row never counts
\* more orders than were published for its window.
NeverOvercounted ==
    \A k \in Keys, w \in Windows :
        rows[<<k, w>>] <= Cardinality(InWindow(Published, k, w))

\* An order is dropped only when it lags the newest one read by more than
\* the lateness bound (job.py:321-325).
LateMeansLate ==
    \A p \in late : Event(p).at + Lateness < newest

\* The alert of a key and type moves to newer windows only, as long as the
\* job runs: "the dashboard always shows current state" (init_db.sql:27-28).
AlertsMoveForward ==
    [][\A x \in Keys \X Types :
          Uninterrupted => alerts'[x] >= alerts[x]]_pipelineVars

\* Consumers of the alert topics find every alert they receive in Postgres,
\* with the feature row it was raised for, whatever failed (job.py:256-262).
SentWereStored ==
    \A a \in sent \cup outbox :
        /\ alerts[<<a[1], a[2]>>] # NoAlert
        /\ rows[<<a[1], a[3]>>] # 0

\* Conversely, while the job runs and nothing is lost on the way, an alert in
\* the table is in the topic, in the producer's queue, or being sent.
StoredAlertsSent ==
    Uninterrupted /\ "delivery" \notin faults =>
        \A k \in Keys, t \in Types : alerts[<<k, t>>] # NoAlert =>
            \/ <<k, t, alerts[<<k, t>>]>> \in sent \cup outbox
            \/ sink = "send" /\ row.key = k /\ Head(pending) = t

\* An injected surge is found: when its orders are read in time and handled,
\* and there are enough of them for some window to surge however they are
\* spread, the key has a surge alert, as long as the rules judge.
SurgeDetected ==
    \A l \in labels :
        LET mine == {p \in Published : p[1] = l.key /\ Event(p).anomaly /\ Event(p).at >= l.at}
        IN  /\ Uninterrupted
            /\ Cardinality(mine) > (SurgeOrders - 1) * Cardinality({WindowOf(p) : p \in mine})
            /\ mine \subseteq InTime \ open
            /\ sink = "idle"
            /\ detector # "ready"
            => alerts[<<l.key, "surge">>] # NoAlert

\* The feature rows are the counts of an abstract tumbling-window counter
\* (WindowCounts): published once, in window order, never revised, of all
\* the orders in time; orders in flight, timers, sink and scoring are hidden.
ByCell(S) == [x \in Keys \X Windows |-> InWindow(S, x[1], x[2])]

Counts == INSTANCE WindowCounts WITH
              published <- ByCell(Published),
              taken <- ByCell(InTime),
              dropped <- ByCell(late),
              refused <- ByCell(dead),
              counts <- rows,
              failed <- ~Uninterrupted

ImplementsCounts == Counts!CountsSpec

\* While the job is up it keeps catching up: every window whose end the
\* newest order read has passed by the lateness bound (job.py:358) is fired
\* and its row stored and scored to the end, however the events lagged.
OverdueStored ==
    []<>(up => /\ sink = "idle"
               /\ \A p \in open : WindowEnd(WindowOf(p)) + Lateness > newest)

=============================================================================
