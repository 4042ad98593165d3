---------------------------- MODULE StreamProofs ----------------------------
(***************************************************************************)
(* What becomes of an order and of an alert in the streaming job, for any  *)
(* number of keys, orders, windows and faults, and in every interleaving   *)
(* with the generator.  TLC checks the same on a small instance            *)
(* (PipelineFaults.cfg).                                                   *)
(***************************************************************************)
EXTENDS GeneratorProofs

-----------------------------------------------------------------------------
(* Windows.                                                                *)

LEMMA DivisionBounds ==
    ASSUME NEW t \in Nat, NEW size \in Nat \ {0}
    PROVE  /\ t \div size \in Nat
           /\ (t \div size) * size <= t
           /\ t < (t \div size) * size + size
OBVIOUS

LEMMA ProductMonotone ==
    ASSUME NEW a \in Int, NEW b \in Int, NEW size \in Nat, a <= b
    PROVE  a * size <= b * size
OBVIOUS

LEMMA WindowProperties ==
    ASSUME StreamAssumption, NEW t \in Nat
    PROVE  /\ Window(t) \in Nat
           /\ Window(t) * WindowSize <= t
           /\ t < WindowEnd(Window(t))
<1> DEFINE w == t \div WindowSize
<1>1. WindowSize \in Nat \ {0}
  BY DEF StreamAssumption
<1>2. w \in Nat /\ w * WindowSize <= t /\ t < w * WindowSize + WindowSize
  BY <1>1, DivisionBounds
<1> HIDE DEF w
<1>3. (w + 1) * WindowSize = w * WindowSize + WindowSize
  BY <1>1, <1>2
<1>4. Window(t) = w /\ WindowEnd(Window(t)) = (w + 1) * WindowSize
  BY DEF Window, WindowEnd, w
<1> QED
  BY <1>2, <1>3, <1>4

\* A later window ends later.
LEMMA EndsAscend ==
    ASSUME StreamAssumption, NEW v \in Int, NEW w \in Int, v <= w
    PROVE  WindowEnd(v) \in Int /\ WindowEnd(w) \in Int /\ WindowEnd(v) <= WindowEnd(w)
<1>1. WindowSize \in Nat
  BY DEF StreamAssumption
<1>2. (v + 1) * WindowSize <= (w + 1) * WindowSize
  BY <1>1, ProductMonotone
<1>3. (v + 1) * WindowSize \in Int /\ (w + 1) * WindowSize \in Int
  BY <1>1
<1> QED
  BY <1>2, <1>3 DEF WindowEnd

LEMMA WindowsAscend ==
    ASSUME StreamAssumption, NEW t \in Nat, NEW u \in Nat, t <= u
    PROVE  Window(t) <= Window(u)
<1>1. /\ Window(t) \in Nat /\ Window(u) \in Nat
      /\ Window(t) * WindowSize <= t /\ u < WindowEnd(Window(u))
  BY WindowProperties
<1>2. SUFFICES ASSUME Window(u) < Window(t) PROVE FALSE
  BY <1>1
<1>3. (Window(u) + 1) * WindowSize <= Window(t) * WindowSize
  BY <1>1, <1>2, ProductMonotone DEF StreamAssumption
<1>4. WindowEnd(Window(u)) = (Window(u) + 1) * WindowSize
  BY DEF WindowEnd
<1>5. Window(t) * WindowSize \in Int /\ (Window(u) + 1) * WindowSize \in Int
  BY <1>1 DEF StreamAssumption
<1> QED
  BY <1>1, <1>3, <1>4, <1>5

\* A window that is closed is before every window that is not.
LEMMA ClosedBefore ==
    ASSUME StreamAssumption, NEW v \in Nat, NEW w \in Nat, watermark \in Int,
           Closed(v), ~Closed(w)
    PROVE  v < w
<1>1. WindowEnd(v) \in Int /\ WindowEnd(w) \in Int
  BY EndsAscend
<1>2. SUFFICES ASSUME w <= v PROVE FALSE
  OBVIOUS
<1>3. WindowEnd(w) <= WindowEnd(v)
  BY <1>2, EndsAscend
<1> QED
  BY <1>1, <1>3 DEF Closed

-----------------------------------------------------------------------------
(* Orders.                                                                 *)

LEMMA PublishedEvents ==
    ASSUME TopicsTypeOK, TopicsAssumption, StreamAssumption, NEW p \in Published
    PROVE  /\ p[1] \in Keys /\ p[2] \in 1..Len(orders[p[1]]) /\ p = <<p[1], p[2]>>
           /\ Len(orders[p[1]]) \in Nat
           /\ Event(p) \in Order /\ Event(p).at \in Times /\ Event(p).at \in Nat
           /\ WindowOf(p) \in Windows /\ WindowOf(p) \in Nat
<1>1. PICK k \in Keys : p \in {k} \X (1..Len(orders[k]))
  BY DEF Published
<1>2. p[1] = k /\ p[2] \in 1..Len(orders[k]) /\ p = <<p[1], p[2]>>
  BY <1>1
<1>3. orders[k] \in Seq(Order)
  BY DEF TopicsTypeOK
<1>4. Len(orders[k]) \in Nat /\ Event(p) \in Order
  BY <1>2, <1>3, LenProperties, ElementOfSeq DEF Event
<1>5. Event(p).at \in Times
  BY <1>4 DEF Order
<1>6. Event(p).at \in Nat /\ MaxTime \in Nat /\ Event(p).at <= MaxTime
  BY <1>5 DEF Times, TopicsAssumption
<1>7. Window(Event(p).at) \in Nat /\ Window(MaxTime) \in Nat
      /\ Window(Event(p).at) <= Window(MaxTime)
  BY <1>6, WindowProperties, WindowsAscend
<1> QED
  BY <1>2, <1>4, <1>5, <1>6, <1>7 DEF WindowOf, Windows

LEMMA IsPublished ==
    ASSUME NEW k \in Keys, NEW i \in 1..Len(orders[k])
    PROVE  <<k, i>> \in Published
<1>1. <<k, i>> \in {k} \X (1..Len(orders[k]))
  OBVIOUS
<1> QED
  BY <1>1 DEF Published

LEMMA OfOneKeyFinite ==
    ASSUME NEW n \in Nat, NEW k, NEW S, S \subseteq {k} \X (1..n)
    PROVE  IsFiniteSet(S) /\ Cardinality(S) \in Nat
<1>1. IsFiniteSet({k})
  BY FS_Singleton
<1>2. IsFiniteSet(1..n)
  BY FS_Interval
<1>3. IsFiniteSet({k} \X (1..n))
  BY <1>1, <1>2, FS_Product
<1> QED
  BY <1>3, FS_Subset, FS_CardinalityType

\* The orders of a window are finitely many.
LEMMA InWindowFinite ==
    ASSUME TopicsTypeOK, TopicsAssumption, StreamAssumption,
           NEW S \in SUBSET Published, NEW k \in Keys, NEW w
    PROVE  /\ IsFiniteSet(InWindow(S, k, w))
           /\ Cardinality(InWindow(S, k, w)) \in Nat
<1>1. Len(orders[k]) \in Nat
  BY LenProperties DEF TopicsTypeOK
<1>2. InWindow(S, k, w) \subseteq {k} \X (1..Len(orders[k]))
  BY PublishedEvents DEF InWindow
<1> QED
  BY <1>1, <1>2, OfOneKeyFinite

\* What is published stays, as it is.
OrdersKept ==
    /\ \A p \in Published : p \in Published' /\ Event(p)' = Event(p)
    /\ \A k \in Keys : Len(orders[k]) <= Len(orders'[k])

LEMMA OrdersStay ==
    ASSUME TopicsAssumption, StreamAssumption, GInv, orders' = orders
    PROVE  OrdersKept /\ Published' = Published /\ \A p : Event(p)' = Event(p)
<1>1. \A k \in Keys : Len(orders[k]) \in Nat
  BY LenProperties DEF GInv, TopicsTypeOK
<1> QED
  BY <1>1 DEF OrdersKept, Published, Event

LEMMA GeneratorKeepsOrders ==
    ASSUME TopicsAssumption, StreamAssumption, GInv, GeneratorNext
    PROVE  OrdersKept
<1>1. CASE orders' = orders
  BY <1>1, OrdersStay
<1>2. CASE PublishOrder /\ orders' # orders
  <2>1. PICK k, n :
           /\ k \in Keys
           /\ n \in Ready(orderQueue[k])
           /\ orders' = [orders EXCEPT ![k] = Append(@, orderQueue[k][n].event)]
    BY <1>2, OrderAttempted DEF GInv
  <2>2. orders \in [Keys -> Seq(Order)] /\ orderQueue[k][n].event \in Order
    <3>1. orders \in [Keys -> Seq(Order)] /\ orderQueue \in [Keys -> Seq(Queued(Order))]
      BY DEF GInv, TopicsTypeOK, GeneratorTypeOK
    <3> QED
      BY <2>1, <3>1, Delivery
  <2>3. /\ \A x \in Keys : x # k => orders'[x] = orders[x]
        /\ Len(orders[k]) \in Nat /\ Len(orders'[k]) = Len(orders[k]) + 1
        /\ \A i \in 1..Len(orders[k]) : orders'[k][i] = orders[k][i]
    BY <2>1, <2>2, LogAppended
  <2>4. ASSUME NEW x \in Keys
        PROVE  /\ Len(orders[x]) \in Nat /\ Len(orders'[x]) \in Nat
               /\ Len(orders[x]) <= Len(orders'[x])
               /\ \A i \in 1..Len(orders[x]) : orders'[x][i] = orders[x][i]
    BY <2>2, <2>3, LenProperties
  <2>5. ASSUME NEW p \in Published
        PROVE  p \in Published' /\ Event(p)' = Event(p)
    <3>1. p[1] \in Keys /\ p[2] \in 1..Len(orders[p[1]]) /\ p = <<p[1], p[2]>>
      BY PublishedEvents DEF GInv
    <3>2. p[2] \in 1..Len(orders'[p[1]]) /\ orders'[p[1]][p[2]] = orders[p[1]][p[2]]
      BY <2>4, <3>1
    <3>3. p \in {p[1]} \X (1..Len(orders'[p[1]]))
      BY <3>1, <3>2
    <3> QED
      BY <3>1, <3>2, <3>3 DEF Published, Event
  <2> QED
    BY <2>4, <2>5 DEF OrdersKept
<1> QED
  BY <1>1, <1>2 DEF GeneratorNext, Produce, Surge, Stockout, Quiet, Sell, SendMovement,
     Restock, GeneratorDies, Tick, PublishMovement, topicVars

-----------------------------------------------------------------------------
(* The invariant, whatever fails.                                          *)

\* The job holds and drops orders it has read; the watermark lags the newest
\* of them by the lateness bound.
ReadInv ==
    /\ \A k \in Keys : offset[k] <= Len(orders[k]) + 1
    /\ open \cup late \subseteq Read
    /\ watermark <= newest - Lateness - 1
    /\ LateMeansLate

\* What is quarantined was read, and is neither held nor dropped.
DeadInv ==
    /\ dead \subseteq Read
    /\ dead \cap (open \cup late) = {}

\* An alert is written before it is sent, and its row before it.
SinkInv ==
    /\ sink = "idle" <=> row = NoRow
    /\ sink \in {"insert", "send"} => pending # <<>> /\ rows[<<row.key, row.window>>] # 0
    /\ sink = "send" => alerts[<<row.key, Head(pending)>>] # NoAlert
    /\ SentWereStored

\* What is counted was published.
CountInv ==
    /\ sink = "row" => row.orders <= Cardinality(InWindow(Published, row.key, row.window))
    /\ NeverOvercounted

SInv == GInv /\ StreamTypeOK /\ ReadInv /\ DeadInv /\ SinkInv /\ CountInv

\* The types, for use in proofs.
LEMMA StreamTypes ==
    ASSUME SInv, TopicsAssumption
    PROVE  /\ offset \in [Keys -> Nat \ {0}]
           /\ newest \in Nat /\ newest \in Times /\ watermark \in Int
           /\ sink # "idle" => /\ row \in Row
                               /\ row.key \in Keys /\ row.window \in Windows
                               /\ row.orders \in Nat \ {0}
           /\ pending \in Seq(Types)
           /\ rows \in [Keys \X Windows -> Nat]
           /\ alerts \in [Keys \X Types -> Windows \cup {NoAlert}]
           /\ outbox \subseteq Alert /\ sent \subseteq Alert
           /\ pending # <<>> => Head(pending) \in Types /\ Tail(pending) \in Seq(Types)
<1>1. StreamTypeOK /\ (sink # "idle" => row # NoRow)
  BY DEF SInv, SinkInv
<1>2. newest \in Nat
  BY <1>1 DEF StreamTypeOK, Times, TopicsAssumption
<1>3. pending # <<>> => Head(pending) \in Types /\ Tail(pending) \in Seq(Types)
  BY <1>1, HeadTailProperties DEF StreamTypeOK
<1>4. sink # "idle" => /\ row \in Row
                       /\ row.key \in Keys /\ row.window \in Windows
                       /\ row.orders \in Nat \ {0}
  BY <1>1 DEF StreamTypeOK, Row
<1> QED
  BY <1>1, <1>2, <1>3, <1>4 DEF StreamTypeOK

LEMMA ScoresTypes ==
    ASSUME NEW r, NEW d, NEW todo \in Scores(r, d)
    PROVE  todo \in Seq(Types)
<1>1. /\ <<>> \in Seq(Types)
      /\ \A t \in Types : <<t>> \in Seq(Types)
  BY EmptySeq
<1>2. \A t \in Types : Judge(t, r) \in Seq(Types)
  BY <1>1 DEF Judge
<1>3. Rules(r) \in Seq(Types) /\ Anomaly(r) \in Seq(Types)
  BY <1>2, ConcatProperties DEF Rules, Anomaly, Types
<1> QED
  BY <1>1, <1>3 DEF Scores

\* A window that fires had an order, and its row counts those it held.
LEMMA FiredRow ==
    ASSUME TopicsAssumption, StreamAssumption, SInv, Fire
    PROVE  \E k \in Keys, w \in Windows :
              LET mine == InWindow(open, k, w)
              IN  /\ row' = [key |-> k, window |-> w, orders |-> Cardinality(mine)]
                  /\ row' \in Row
                  /\ row' # NoRow
                  /\ open' = open \ mine
                  /\ Closed(w)
                  /\ \A p \in open : WindowOf(p) >= w
                  /\ mine # {}
<1>1. TopicsTypeOK /\ open \subseteq Published
  BY DEF SInv, GInv, ReadInv, Read
<1>2. PICK p \in open :
         /\ Closed(WindowOf(p))
         /\ \A q \in open : WindowOf(q) >= WindowOf(p)
         /\ LET mine == InWindow(open, p[1], WindowOf(p))
            IN  /\ row' = [key |-> p[1], window |-> WindowOf(p), orders |-> Cardinality(mine)]
                /\ open' = open \ mine
  BY DEF Fire
<1> DEFINE k == p[1]
           w == WindowOf(p)
           mine == InWindow(open, k, w)
<1>3. p \in Published /\ k \in Keys /\ w \in Windows
  BY <1>1, <1>2, PublishedEvents
<1>4. p \in mine
  BY <1>2 DEF InWindow
<1>5. IsFiniteSet(mine) /\ Cardinality(mine) \in Nat
  BY <1>1, <1>3, InWindowFinite
<1>6. Cardinality(mine) # 0
  BY <1>4, <1>5, FS_EmptySet
<1> HIDE DEF mine
<1>7. row' \in Row
  BY <1>2, <1>3, <1>5, <1>6 DEF Row, mine
<1>8. row' # NoRow
  BY <1>7, NoRowAssumption
<1> QED
  BY <1>2, <1>3, <1>4, <1>7, <1>8 DEF mine

LEMMA JobKeepsTypes ==
    ASSUME TopicsAssumption, StreamAssumption, SInv, JobNext
    PROVE  StreamTypeOK'
<1>1. StreamTypeOK /\ TopicsTypeOK /\ open \subseteq Published
  BY DEF SInv, GInv, ReadInv, Read
<1>2. offset \in [Keys -> Nat \ {0}]
  BY <1>1 DEF StreamTypeOK
<1>3. \A k \in Keys : <<k, offset[k]>> \in Keys \X (Nat \ {0}) /\ offset[k] + 1 \in Nat \ {0}
  BY <1>2
<1>4. Lateness \in Nat /\ MaxTime \in Nat /\ newest \in Nat
  BY StreamTypes DEF StreamAssumption, TopicsAssumption
<1>5. <<>> \in Seq(Types)
  BY EmptySeq
<1>6. ASSUME NEW k \in Keys, ReadOrder(k) PROVE StreamTypeOK'
  <2> DEFINE p == <<k, offset[k]>>
  <2>1. offset[k] \in 1..Len(orders[k])
    <3>1. Len(orders[k]) \in Nat
      BY <1>1, LenProperties DEF TopicsTypeOK
    <3> QED
      BY <1>2, <1>6, <3>1 DEF ReadOrder, Unread
  <2>2. p \in Published
    BY <2>1, IsPublished
  <2>3. Event(p).at \in Times
    BY <1>1, <2>2, PublishedEvents
  <2>4. newest' \in Times
    BY <1>1, <1>6, <2>3 DEF ReadOrder, StreamTypeOK
  <2>5. offset' \in [Keys -> Nat \ {0}]
    BY <1>2, <1>3, <1>6 DEF ReadOrder, Advance
  <2>6. open' \cup late' \cup dead' \subseteq Keys \X (Nat \ {0})
    BY <1>1, <1>3, <1>6 DEF ReadOrder, StreamTypeOK, storeVars
  <2> QED
    BY <1>1, <1>6, <2>4, <2>5, <2>6 DEF ReadOrder, StreamTypeOK, storeVars
<1>7. ASSUME NEW k \in Keys, Quarantine(k) PROVE StreamTypeOK'
  <2>1. offset' \in [Keys -> Nat \ {0}]
    BY <1>2, <1>3, <1>7 DEF Quarantine, Advance
  <2>2. open' \cup late' \cup dead' \subseteq Keys \X (Nat \ {0})
    BY <1>1, <1>3, <1>7 DEF Quarantine, StreamTypeOK
  <2> QED
    BY <1>1, <1>7, <2>1, <2>2 DEF Quarantine, StreamTypeOK
<1>8. CASE EmitWatermark
  BY <1>1, <1>4, <1>8 DEF EmitWatermark, StreamTypeOK, storeVars
<1>9. CASE Fire
  <2>1. row' \in Row /\ open' \subseteq open
    BY <1>9, FiredRow
  <2> QED
    BY <1>1, <1>9, <2>1 DEF Fire, StreamTypeOK, storeVars
<1>10. ASSUME NEW todo \in Seq(Types), After(todo)
       PROVE  /\ pending' \in Seq(Types) /\ row' \in Row \cup {NoRow}
              /\ sink' \in {"idle", "row", "insert", "send"}
  BY <1>1, <1>10 DEF After, StreamTypeOK
<1>11. CASE StoreRow
  <2>1. row.key \in Keys /\ row.window \in Windows /\ row.orders \in Nat
    BY <1>11, StreamTypes DEF StoreRow
  <2>2. rows' \in [Keys \X Windows -> Nat]
    BY <1>1, <1>11, <2>1 DEF StoreRow, StreamTypeOK
  <2>3. detector' \in {"unset", "off", "waiting", "ready"}
    BY <1>1, <1>11 DEF StoreRow, DetectorNext, StreamTypeOK
  <2>4. PICK todo \in Scores(row, detector') : After(todo)
    BY <1>11 DEF StoreRow
  <2>5. /\ pending' \in Seq(Types) /\ row' \in Row \cup {NoRow}
        /\ sink' \in {"idle", "row", "insert", "send"}
    BY <1>10, <2>4, ScoresTypes
  <2> QED
    BY <1>1, <1>11, <2>2, <2>3, <2>5 DEF StoreRow, StreamTypeOK
<1>12. CASE InsertAlert
  <2>1. row.key \in Keys /\ row.window \in Windows /\ Head(pending) \in Types
    BY <1>12, StreamTypes DEF InsertAlert, SInv, SinkInv
  <2>2. alerts' \in [Keys \X Types -> Windows \cup {NoAlert}]
    BY <1>1, <1>12, <2>1 DEF InsertAlert, StreamTypeOK
  <2> QED
    BY <1>1, <1>12, <2>2 DEF InsertAlert, StreamTypeOK
<1>13. CASE SendAlert
  <2>1. /\ row.key \in Keys /\ row.window \in Windows /\ Head(pending) \in Types
        /\ Tail(pending) \in Seq(Types)
    BY <1>13, StreamTypes DEF SendAlert, SInv, SinkInv
  <2>2. outbox' \cup sent' \subseteq Alert
    BY <1>1, <1>13, <2>1 DEF SendAlert, StreamTypeOK, storeVars, Alert
  <2>3. /\ pending' \in Seq(Types) /\ row' \in Row \cup {NoRow}
        /\ sink' \in {"idle", "row", "insert", "send"}
    BY <1>10, <1>13, <2>1 DEF SendAlert
  <2> QED
    BY <1>1, <1>13, <2>2, <2>3 DEF SendAlert, StreamTypeOK, storeVars
<1>14. CASE Deliver
  BY <1>1, <1>14 DEF Deliver, StreamTypeOK
<1>15. CASE DeliveryFails
  BY <1>1, <1>15 DEF DeliveryFails, StreamTypeOK, storeVars
<1>16. ASSUME Fresh
       PROVE  /\ newest' \in Times /\ watermark' \in Int /\ open' = {} /\ late' = {}
              /\ sink' = "idle" /\ row' = NoRow /\ pending' \in Seq(Types)
              /\ detector' = "unset" /\ outbox' = {}
  BY <1>4, <1>5, <1>16 DEF Fresh, Times
<1>17. CASE Crash
  BY <1>1, <1>16, <1>17 DEF Crash, StreamTypeOK, storeVars
<1>18. CASE Cancel
  BY <1>1, <1>16, <1>18 DEF Cancel, StreamTypeOK
<1>19. CASE Submit
  <2>1. \A k \in Keys : offset'[k] \in Nat \ {0}
    <3> TAKE k \in Keys
    <3>1. offset[k] \in Nat \ {0} /\ Len(orders[k]) + 1 \in Nat
      BY <1>1, <1>2, LenProperties DEF TopicsTypeOK
    <3> QED
      BY <1>19, <3>1 DEF Submit
  <2>2. offset' \in [Keys -> Nat \ {0}]
    BY <1>19, <2>1 DEF Submit
  <2> QED
    BY <1>1, <1>19, <2>2 DEF Submit, StreamTypeOK, storeVars
<1> QED
  BY <1>6, <1>7, <1>8, <1>9, <1>11, <1>12, <1>13, <1>14, <1>15, <1>17, <1>18, <1>19 DEF JobNext

\* Reading goes forward, so that what was read stays read.
LEMMA ReadGrows ==
    ASSUME TopicsAssumption, StreamAssumption, SInv, OrdersKept,
           \A k \in Keys : offset'[k] \in Int /\ offset[k] <= offset'[k]
    PROVE  Read \subseteq Read'
<1> SUFFICES ASSUME NEW p \in Read PROVE p \in Read'
  OBVIOUS
<1>1. p \in Published /\ p[2] < offset[p[1]]
  BY DEF Read
<1>2. p[1] \in Keys /\ p[2] \in Int /\ offset[p[1]] \in Int
  BY <1>1, PublishedEvents, StreamTypes DEF SInv, GInv
<1>3. p \in Published' /\ p[2] < offset'[p[1]]
  BY <1>1, <1>2 DEF OrdersKept
<1> QED
  BY <1>3 DEF Read

\* The job's steps leave the topics as they are.
LEMMA JobKeepsOrders ==
    ASSUME TopicsAssumption, StreamAssumption, SInv, JobNext
    PROVE  /\ orders' = orders /\ clock' = clock
           /\ OrdersKept /\ Published' = Published /\ \A p : Event(p)' = Event(p)
BY JobLeavesTopics, OrdersStay DEF SInv, GInv

\* What is read next was published.
LEMMA NextOrder ==
    ASSUME TopicsAssumption, StreamAssumption, SInv, NEW k \in Keys, Unread(k)
    PROVE  /\ <<k, offset[k]>> \in Published /\ <<k, offset[k]>> \notin Read
           /\ offset[k] \in Nat \ {0} /\ Len(orders[k]) \in Nat
           /\ offset[k] + 1 <= Len(orders[k]) + 1
<1>1. offset[k] \in Nat \ {0} /\ Len(orders[k]) \in Nat
  BY StreamTypes, LenProperties DEF SInv, GInv, TopicsTypeOK
<1>2. offset[k] <= Len(orders[k]) /\ offset[k] \in 1..Len(orders[k])
  BY <1>1 DEF Unread
<1>3. <<k, offset[k]>> \in Published
  BY <1>2, IsPublished
<1> QED
  BY <1>1, <1>2, <1>3 DEF Read

\* The lag of the watermark only grows with the newest event.
LEMMA LagKept ==
    ASSUME NEW mark \in Int, NEW old \in Nat, NEW new \in Nat, NEW lag \in Nat,
           mark <= old - lag - 1, old <= new
    PROVE  mark <= new - lag - 1
OBVIOUS

LEMMA JobKeepsRead ==
    ASSUME TopicsAssumption, StreamAssumption, SInv, JobNext
    PROVE  ReadInv'
<1>1. /\ orders' = orders /\ OrdersKept /\ Published' = Published
      /\ \A p : Event(p)' = Event(p)
  BY JobKeepsOrders
<1>2. /\ ReadInv /\ TopicsTypeOK
      /\ offset \in [Keys -> Nat \ {0}] /\ newest \in Nat /\ watermark \in Int
      /\ Lateness \in Nat
      /\ \A k \in Keys : Len(orders[k]) \in Nat
  BY StreamTypes, LenProperties DEF SInv, GInv, TopicsTypeOK, StreamAssumption
<1>3. \A p \in open \cup late : p \in Published /\ Event(p).at \in Nat
  BY <1>2, PublishedEvents DEF ReadInv, Read
<1>4. ASSUME NEW k \in Keys, ReadOrder(k) PROVE ReadInv'
  <2> DEFINE p == <<k, offset[k]>>
             e == Event(p)
  <2>1. Unread(k) /\ Advance(k)
    BY <1>4 DEF ReadOrder
  <2>2. /\ p \in Published
        /\ offset[k] + 1 <= Len(orders[k]) + 1
    BY <2>1, NextOrder
  <2>3. e.at \in Nat /\ WindowOf(p) \in Nat
    BY <1>2, <2>2, PublishedEvents
  <2>4. /\ \A x \in Keys : offset'[x] = IF x = k THEN offset[x] + 1 ELSE offset[x]
    BY <1>2, <2>1 DEF Advance
  <2>5. Read \subseteq Read'
    BY <1>1, <1>2, <2>4, ReadGrows
  <2>6. p \in Read'
    BY <1>1, <1>2, <2>2, <2>4 DEF Read
  <2>7. /\ newest' \in Nat /\ newest <= newest' /\ watermark' = watermark
        /\ open' \cup late' \subseteq open \cup late \cup {p}
    BY <1>2, <1>4, <2>3 DEF ReadOrder
  <2>8. ASSUME NEW q \in late' PROVE Event(q).at + Lateness < newest'
    <3>1. CASE q \in late
      <4>1. Event(q).at + Lateness < newest /\ Event(q).at \in Nat
        BY <1>2, <1>3, <3>1 DEF ReadInv, LateMeansLate
      <4> QED
        BY <1>2, <2>7, <4>1
    <3>2. CASE q = p /\ Closed(WindowOf(p))
      <4>1. e.at < WindowEnd(WindowOf(p)) /\ WindowEnd(WindowOf(p)) \in Int
        BY <2>3, WindowProperties, EndsAscend DEF WindowOf
      <4>2. WindowEnd(WindowOf(p)) - 1 <= watermark /\ watermark <= newest - Lateness - 1
        BY <1>2, <3>2 DEF Closed, ReadInv
      <4> HIDE DEF e
      <4>3. e.at + Lateness < newest
        BY <1>2, <2>3, <4>1, <4>2
      <4> QED
        BY <1>2, <2>3, <2>7, <3>2, <4>3 DEF e
    <3> QED
      BY <1>4, <3>1, <3>2 DEF ReadOrder
  <2>9. LateMeansLate'
    BY <1>1, <2>8 DEF LateMeansLate
  <2>10. \A x \in Keys : offset'[x] <= Len(orders'[x]) + 1
    BY <1>1, <1>2, <2>2, <2>4 DEF ReadInv
  <2>11. open' \cup late' \subseteq Read'
    BY <1>2, <2>5, <2>6, <2>7 DEF ReadInv
  <2>12. watermark' <= newest' - Lateness - 1
    <3>1. watermark <= newest - Lateness - 1
      BY <1>2 DEF ReadInv
    <3>2. /\ newest \in Nat /\ newest' \in Nat /\ newest <= newest'
          /\ watermark \in Int /\ watermark' = watermark /\ Lateness \in Nat
      BY <1>2, <2>7
    <3> QED
      BY <3>1, <3>2, LagKept
  <2> QED
    BY <2>9, <2>10, <2>11, <2>12 DEF ReadInv
<1>5. ASSUME NEW k \in Keys, Quarantine(k) PROVE ReadInv'
  <2>1. /\ Unread(k) /\ Advance(k)
        /\ UNCHANGED <<newest, watermark, open, late>>
    BY <1>5 DEF Quarantine
  <2>2. offset[k] + 1 <= Len(orders[k]) + 1
    BY <2>1, NextOrder
  <2>3. \A x \in Keys : offset'[x] = IF x = k THEN offset[x] + 1 ELSE offset[x]
    BY <1>2, <2>1 DEF Advance
  <2>4. Read \subseteq Read'
    BY <1>1, <1>2, <2>3, ReadGrows
  <2>5. \A x \in Keys : offset'[x] <= Len(orders'[x]) + 1
    BY <1>1, <1>2, <2>2, <2>3 DEF ReadInv
  <2> QED
    BY <1>1, <1>2, <2>1, <2>4, <2>5 DEF ReadInv, LateMeansLate
<1>6. CASE EmitWatermark
  <2>1. Read' = Read /\ UNCHANGED <<offset, newest, open, late>>
    BY <1>1, <1>6 DEF EmitWatermark, Read
  <2>2. watermark' = newest - Lateness - 1
    BY <1>6 DEF EmitWatermark
  <2> QED
    BY <1>1, <1>2, <2>1, <2>2 DEF ReadInv, LateMeansLate
<1>7. CASE Fire
  <2>1. Read' = Read /\ UNCHANGED <<offset, newest, watermark, late>>
    BY <1>1, <1>7 DEF Fire, Read
  <2>2. open' \subseteq open
    BY <1>7, FiredRow
  <2> QED
    BY <1>1, <1>2, <2>1, <2>2 DEF ReadInv, LateMeansLate
<1>8. CASE StoreRow \/ InsertAlert \/ SendAlert \/ Deliver \/ DeliveryFails
  <2>1. Read' = Read /\ UNCHANGED <<offset, newest, watermark, open, late>>
    BY <1>1, <1>8 DEF StoreRow, InsertAlert, SendAlert, Deliver, DeliveryFails, Read
  <2> QED
    BY <1>1, <1>2, <2>1 DEF ReadInv, LateMeansLate
<1>9. CASE Crash \/ Cancel
  <2>1. /\ open' = {} /\ late' = {} /\ newest' = 0 /\ watermark' = -Lateness - 1
        /\ offset' = offset
    BY <1>9 DEF Crash, Cancel, Fresh
  <2>2. watermark' <= newest' - Lateness - 1
    BY <1>2, <2>1
  <2> QED
    BY <1>1, <1>2, <2>1, <2>2 DEF ReadInv, LateMeansLate
<1>10. CASE Submit
  <2>1. UNCHANGED <<newest, watermark, open, late>>
    BY <1>10 DEF Submit
  <2>2. ASSUME NEW x \in Keys
        PROVE  /\ offset'[x] \in Int /\ offset[x] <= offset'[x]
               /\ offset'[x] <= Len(orders'[x]) + 1
    <3>1. offset'[x] \in offset[x]..(Len(orders[x]) + 1)
      BY <1>10 DEF Submit
    <3> QED
      BY <1>1, <1>2, <3>1
  <2>3. Read \subseteq Read'
    BY <1>1, <2>2, ReadGrows
  <2> QED
    BY <1>1, <1>2, <2>1, <2>2, <2>3 DEF ReadInv, LateMeansLate
<1> QED
  BY <1>4, <1>5, <1>6, <1>7, <1>8, <1>9, <1>10 DEF JobNext

\* The job never goes back behind what it has read, even when it is
\* submitted again.
LEMMA JobReadsOn ==
    ASSUME TopicsAssumption, StreamAssumption, SInv, JobNext
    PROVE  Read \subseteq Read'
<1>1. \A k \in Keys : offset[k] \in Nat /\ Len(orders[k]) \in Nat
  BY StreamTypes, LenProperties DEF SInv, GInv, TopicsTypeOK
<1>2. \A k \in Keys : offset'[k] \in Int /\ offset[k] <= offset'[k]
  <2>1. CASE offset' = offset
    BY <1>1, <2>1
  <2>2. CASE \E v \in Keys : Advance(v)
    BY <1>1, <2>2, StreamTypes DEF Advance
  <2>3. CASE Submit
    BY <1>1, <2>3 DEF Submit
  <2> QED
    BY <2>1, <2>2, <2>3 DEF JobNext, ReadOrder, Quarantine, EmitWatermark, Fire, StoreRow,
       InsertAlert, SendAlert, Deliver, DeliveryFails, Crash, Cancel
<1> QED
  BY <1>2, JobKeepsOrders, ReadGrows

\* An order that is read is one more, and nothing else is read.
LEMMA OneMoreRead ==
    ASSUME TopicsAssumption, StreamAssumption, SInv, JobNext,
           NEW k \in Keys, Unread(k), Advance(k)
    PROVE  LET p == <<k, offset[k]>>
           IN  /\ p \in Published \ Read
               /\ Read' = Read \cup {p}
<1> DEFINE p == <<k, offset[k]>>
<1>1. Published' = Published
  BY JobKeepsOrders
<1>2. p \in Published /\ p \notin Read
  BY NextOrder
<1>3. \A x \in Keys : offset[x] \in Nat /\ offset'[x] = IF x = k THEN offset[x] + 1 ELSE offset[x]
  BY StreamTypes DEF Advance
<1>4. ASSUME NEW q \in Published
      PROVE  q[2] < offset'[q[1]] <=> q[2] < offset[q[1]] \/ q = p
  <2>1. q[1] \in Keys /\ q[2] \in Int /\ q = <<q[1], q[2]>>
    BY PublishedEvents DEF SInv, GInv
  <2> QED
    BY <1>3, <2>1
<1> QED
  BY <1>1, <1>2, <1>4 DEF Read

LEMMA JobKeepsDead ==
    ASSUME TopicsAssumption, StreamAssumption, SInv, JobNext
    PROVE  DeadInv'
<1>1. Read \subseteq Read'
  BY JobReadsOn
<1>2. /\ DeadInv /\ open \cup late \subseteq Read
  BY DEF SInv, ReadInv
<1>3. CASE dead' = dead /\ open' \cup late' \subseteq open \cup late
  BY <1>1, <1>2, <1>3 DEF DeadInv
<1>4. ASSUME NEW k \in Keys, ReadOrder(k) \/ Quarantine(k)
      PROVE  DeadInv'
  <2> DEFINE p == <<k, offset[k]>>
  <2>1. p \notin Read /\ p \in Read'
    BY <1>4, OneMoreRead DEF ReadOrder, Quarantine
  <2>2. \/ dead' = dead /\ open' \cup late' = open \cup late \cup {p}
        \/ dead' = dead \cup {p} /\ open' \cup late' = open \cup late
    BY <1>4 DEF ReadOrder, Quarantine, storeVars
  <2> HIDE DEF p
  <2> QED
    BY <1>1, <1>2, <2>1, <2>2 DEF DeadInv
<1>5. CASE Fire
  <2>1. open' \subseteq open
    BY <1>5, FiredRow
  <2> QED
    BY <1>3, <1>5, <2>1 DEF Fire, storeVars
<1>6. CASE \/ EmitWatermark \/ StoreRow \/ InsertAlert \/ SendAlert \/ Deliver
           \/ DeliveryFails \/ Crash \/ Cancel \/ Submit
  BY <1>3, <1>6 DEF EmitWatermark, StoreRow, InsertAlert, SendAlert, Deliver, DeliveryFails,
     Crash, Cancel, Submit, Fresh, storeVars
<1> QED
  BY <1>4, <1>5, <1>6 DEF JobNext

LEMMA JobKeepsSink ==
    ASSUME TopicsAssumption, StreamAssumption, SInv, JobNext
    PROVE  SinkInv'
<1>1. /\ SinkInv
      /\ rows \in [Keys \X Windows -> Nat]
      /\ alerts \in [Keys \X Types -> Windows \cup {NoAlert}]
      /\ outbox \subseteq Alert /\ sent \subseteq Alert
      /\ sink # "idle" => /\ row.key \in Keys /\ row.window \in Windows
                          /\ row.orders \in Nat \ {0}
      /\ pending # <<>> => Head(pending) \in Types
  BY StreamTypes DEF SInv
<1>2. \A w \in Windows : w # NoAlert
  <2>1. Window(MaxTime) \in Nat
    BY WindowProperties DEF TopicsAssumption
  <2> QED
    BY <2>1 DEF Windows, NoAlert
\* The sink goes on to the next alert, or to the next row.
<1>3. ASSUME NEW todo, After(todo),
             sink # "idle", row # NoRow, rows'[<<row.key, row.window>>] # 0, SentWereStored'
      PROVE  SinkInv'
  <2>1. CASE todo = <<>>
    BY <1>3, <2>1 DEF After, SinkInv
  <2>2. CASE todo # <<>>
    BY <1>3, <2>2 DEF After, SinkInv
  <2> QED
    BY <2>1, <2>2
<1>4. CASE UNCHANGED <<sink, row, pending, outbox, rows, alerts, sent>>
  BY <1>1, <1>4 DEF SinkInv, SentWereStored
<1>5. CASE \/ \E k \in Keys : ReadOrder(k) \/ Quarantine(k)
           \/ EmitWatermark \/ Submit
  BY <1>4, <1>5 DEF ReadOrder, Quarantine, EmitWatermark, Submit, storeVars
<1>6. CASE Fire
  <2>1. row' # NoRow
    BY <1>6, FiredRow
  <2>2. sink' = "row" /\ UNCHANGED <<rows, alerts, sent, outbox>>
    BY <1>6 DEF Fire, storeVars
  <2> QED
    BY <1>1, <2>1, <2>2 DEF SinkInv, SentWereStored
<1>7. CASE StoreRow
  <2>1. /\ sink = "row" /\ row # NoRow
        /\ rows' = [rows EXCEPT ![<<row.key, row.window>>] = row.orders]
        /\ UNCHANGED <<alerts, sent, outbox>>
    BY <1>1, <1>7 DEF StoreRow, SinkInv
  <2>2. /\ rows'[<<row.key, row.window>>] # 0
        /\ \A x \in Keys \X Windows : rows[x] # 0 => rows'[x] # 0
    BY <1>1, <2>1
  <2>3. \A a \in sent \cup outbox : <<a[1], a[3]>> \in Keys \X Windows
    BY <1>1 DEF Alert
  <2>4. SentWereStored'
    BY <1>1, <2>1, <2>2, <2>3 DEF SinkInv, SentWereStored
  <2>5. PICK todo : After(todo)
    BY <1>7 DEF StoreRow
  <2> QED
    BY <1>3, <2>1, <2>2, <2>4, <2>5
<1>8. CASE InsertAlert
  <2>1. /\ sink = "insert" /\ sink' = "send" /\ pending # <<>>
        /\ alerts' = [alerts EXCEPT ![<<row.key, Head(pending)>>] = row.window]
        /\ UNCHANGED <<rows, sent, outbox, row, pending>>
        /\ row.key \in Keys /\ row.window \in Windows /\ Head(pending) \in Types
    BY <1>1, <1>8 DEF InsertAlert, SinkInv
  <2>2. /\ alerts'[<<row.key, Head(pending)>>] # NoAlert
        /\ \A x \in Keys \X Types : alerts[x] # NoAlert => alerts'[x] # NoAlert
    BY <1>1, <1>2, <2>1
  <2>3. \A a \in sent \cup outbox : <<a[1], a[2]>> \in Keys \X Types
    BY <1>1 DEF Alert
  <2>4. SentWereStored'
    BY <1>1, <2>1, <2>2, <2>3 DEF SinkInv, SentWereStored
  <2> QED
    BY <1>1, <2>1, <2>2, <2>4 DEF SinkInv
<1>9. CASE SendAlert
  <2>1. /\ sink = "send" /\ row # NoRow
        /\ rows[<<row.key, row.window>>] # 0
        /\ alerts[<<row.key, Head(pending)>>] # NoAlert
        /\ outbox' = outbox \cup {<<row.key, Head(pending), row.window>>}
        /\ After(Tail(pending))
        /\ UNCHANGED <<rows, alerts, sent>>
    BY <1>1, <1>9 DEF SendAlert, SinkInv, storeVars
  <2> DEFINE new == <<row.key, Head(pending), row.window>>
  <2>2. /\ new[1] = row.key /\ new[2] = Head(pending) /\ new[3] = row.window
    OBVIOUS
  <2> HIDE DEF new
  <2>3. outbox' = outbox \cup {new}
    BY <2>1 DEF new
  <2>4. ASSUME NEW a \in sent' \cup outbox'
        PROVE  alerts[<<a[1], a[2]>>] # NoAlert /\ rows[<<a[1], a[3]>>] # 0
    <3>1. CASE a \in sent \cup outbox
      BY <1>1, <3>1 DEF SinkInv, SentWereStored
    <3>2. CASE a = new
      BY <2>1, <2>2, <3>2
    <3> QED
      BY <2>1, <2>3, <2>4, <3>1, <3>2
  <2>5. SentWereStored'
    BY <2>1, <2>4 DEF SentWereStored
  <2> QED
    BY <1>3, <2>1, <2>5
<1>10. CASE Deliver \/ DeliveryFails
  <2>1. /\ sent' \cup outbox' \subseteq sent \cup outbox
        /\ UNCHANGED <<sink, row, pending, rows, alerts>>
    BY <1>10 DEF Deliver, DeliveryFails, storeVars
  <2> QED
    BY <1>1, <2>1 DEF SinkInv, SentWereStored
<1>11. CASE Crash \/ Cancel
  <2>1. /\ sent' \cup outbox' \subseteq sent \cup outbox
        /\ sink' = "idle" /\ row' = NoRow
        /\ UNCHANGED <<rows, alerts>>
    BY <1>11 DEF Crash, Cancel, Fresh, storeVars
  <2> QED
    BY <1>1, <2>1 DEF SinkInv, SentWereStored
<1> QED
  BY <1>5, <1>6, <1>7, <1>8, <1>9, <1>10, <1>11 DEF JobNext

LEMMA JobKeepsCount ==
    ASSUME TopicsAssumption, StreamAssumption, SInv, JobNext
    PROVE  CountInv'
<1>1. /\ CountInv /\ TopicsTypeOK /\ open \subseteq Published
      /\ rows \in [Keys \X Windows -> Nat]
      /\ sink # "idle" => /\ row.key \in Keys /\ row.window \in Windows
                          /\ row.orders \in Nat \ {0}
      /\ SinkInv
  BY StreamTypes DEF SInv, GInv, ReadInv, Read
<1>2. Published' = Published /\ \A p : Event(p)' = Event(p)
  BY JobKeepsOrders
<1>3. \A k, w : InWindow(Published, k, w)' = InWindow(Published, k, w)
  BY <1>2 DEF InWindow, WindowOf, Window
<1>4. CASE rows' = rows /\ (sink' = "row" => sink = "row" /\ row' = row)
  BY <1>1, <1>3, <1>4 DEF CountInv, NeverOvercounted
<1>5. CASE Fire
  <2>1. PICK k \in Keys, w \in Windows :
           row' = [key |-> k, window |-> w, orders |-> Cardinality(InWindow(open, k, w))]
    BY <1>5, FiredRow
  <2>2. InWindow(open, k, w) \subseteq InWindow(Published, k, w)
    BY <1>1 DEF InWindow
  <2>3. /\ IsFiniteSet(InWindow(Published, k, w))
        /\ Cardinality(InWindow(Published, k, w)) \in Nat
    BY <1>1, InWindowFinite
  <2>4. Cardinality(InWindow(open, k, w)) <= Cardinality(InWindow(Published, k, w))
    BY <2>2, <2>3, FS_Subset
  <2>5. row'.orders <= Cardinality(InWindow(Published, row'.key, row'.window))
    BY <2>1, <2>4
  <2>6. rows' = rows
    BY <1>5 DEF Fire, storeVars
  <2> QED
    BY <1>1, <1>3, <2>5, <2>6 DEF CountInv, NeverOvercounted
<1>6. CASE StoreRow
  <2>1. /\ sink = "row" /\ rows' = [rows EXCEPT ![<<row.key, row.window>>] = row.orders]
        /\ row.orders <= Cardinality(InWindow(Published, row.key, row.window))
        /\ row.key \in Keys /\ row.window \in Windows /\ row.orders \in Nat
        /\ sink' # "row"
    BY <1>1, <1>6 DEF StoreRow, CountInv, After
  <2>2. ASSUME NEW k \in Keys, NEW w \in Windows
        PROVE  rows'[<<k, w>>] <= Cardinality(InWindow(Published, k, w))
    <3>1. CASE <<k, w>> = <<row.key, row.window>>
      BY <1>1, <2>1, <3>1
    <3>2. CASE <<k, w>> # <<row.key, row.window>>
      BY <1>1, <2>1, <3>2 DEF CountInv, NeverOvercounted
    <3> QED
      BY <3>1, <3>2
  <2> QED
    BY <1>3, <2>1, <2>2 DEF CountInv, NeverOvercounted
<1>7. CASE \/ \E k \in Keys : ReadOrder(k) \/ Quarantine(k)
           \/ EmitWatermark \/ InsertAlert \/ SendAlert \/ Deliver \/ DeliveryFails
           \/ Crash \/ Cancel \/ Submit
  <2>1. rows' = rows /\ (sink' = "row" => sink = "row" /\ row' = row)
    BY <1>7 DEF ReadOrder, Quarantine, EmitWatermark, InsertAlert, SendAlert, After, Deliver,
       DeliveryFails, Crash, Cancel, Submit, Fresh, storeVars
  <2> QED
    BY <1>4, <2>1
<1> QED
  BY <1>5, <1>6, <1>7 DEF JobNext

\* What is published is not read yet.
LEMMA ReadStays ==
    ASSUME TopicsAssumption, StreamAssumption, SInv, GInv', OrdersKept, offset' = offset
    PROVE  Read' = Read
<1>1. /\ \A k \in Keys : offset[k] <= Len(orders[k]) + 1
      /\ offset \in [Keys -> Nat \ {0}]
      /\ \A k \in Keys : Len(orders[k]) \in Nat /\ Len(orders'[k]) \in Nat
  BY LenProperties DEF SInv, ReadInv, GInv, TopicsTypeOK, StreamTypeOK
<1>2. ASSUME NEW p \in Published', p[2] < offset[p[1]]
      PROVE  p \in Published
  <2>1. PICK k \in Keys : p \in {k} \X (1..Len(orders'[k]))
    BY DEF Published
  <2>2. p = <<k, p[2]>> /\ p[2] \in 1..Len(orders'[k]) /\ p[1] = k
    BY <2>1
  <2>3. p[2] \in Int /\ p[2] >= 1 /\ offset[k] \in Nat /\ p[2] < offset[k]
    BY <1>1, <1>2, <2>2
  <2>4. p[2] \in 1..Len(orders[k])
    BY <1>1, <2>3
  <2> QED
    BY <2>2, <2>4, IsPublished
<1> QED
  BY <1>2 DEF Read, OrdersKept

\* While the generator moves, nothing the job has done changes.
LEMMA GeneratorKeepsSInv ==
    ASSUME TopicsAssumption, GeneratorAssumption, StreamAssumption, SInv,
           GeneratorNext, UNCHANGED jobVars, GInv'
    PROVE  SInv'
<1>1. UNCHANGED <<up, offset, newest, watermark, open, late, sink, row, pending, detector,
                  outbox, dead, rows, alerts, sent>>
  BY DEF jobVars, taskVars, storeVars
<1>2. OrdersKept
  BY GeneratorKeepsOrders DEF SInv
<1>3. /\ ReadInv /\ CountInv /\ TopicsTypeOK /\ TopicsTypeOK'
      /\ offset \in [Keys -> Nat \ {0}]
      /\ rows \in [Keys \X Windows -> Nat]
      /\ sink # "idle" => /\ row.key \in Keys /\ row.window \in Windows
                          /\ row.orders \in Nat \ {0}
      /\ SinkInv
  BY StreamTypes DEF SInv, GInv
<1>4. StreamTypeOK'
  BY <1>1 DEF SInv, StreamTypeOK
<1>5. SinkInv'
  BY <1>1, <1>3 DEF SinkInv, SentWereStored
<1>6. ReadInv'
  <2>1. Read \subseteq Read'
    BY <1>1, <1>2, <1>3, ReadGrows
  <2>2. \A k \in Keys : offset'[k] <= Len(orders'[k]) + 1
    <3> TAKE k \in Keys
    <3>1. /\ Len(orders[k]) \in Nat /\ Len(orders'[k]) \in Nat /\ offset[k] \in Nat
          /\ Len(orders[k]) <= Len(orders'[k]) /\ offset[k] <= Len(orders[k]) + 1
      BY <1>2, <1>3, LenProperties DEF TopicsTypeOK, OrdersKept, ReadInv
    <3> QED
      BY <1>1, <3>1
  <2>3. LateMeansLate'
    <3>1. \A p \in late : Event(p)' = Event(p)
      BY <1>2, <1>3 DEF OrdersKept, ReadInv, Read
    <3> QED
      BY <1>1, <1>3, <3>1 DEF ReadInv, LateMeansLate
  <2> QED
    BY <1>1, <1>3, <2>1, <2>2, <2>3 DEF ReadInv
<1>7. CountInv'
  <2>1. ASSUME NEW k \in Keys, NEW w, NEW n \in Nat,
               n <= Cardinality(InWindow(Published, k, w))
        PROVE  n <= Cardinality(InWindow(Published, k, w))'
    <3>1. InWindow(Published, k, w) \subseteq InWindow(Published, k, w)'
      BY <1>2 DEF OrdersKept, InWindow, WindowOf, Window
    <3>2. Cardinality(InWindow(Published, k, w)) \in Nat
      BY <1>3, InWindowFinite
    <3>3. /\ IsFiniteSet(InWindow(Published, k, w)')
          /\ Cardinality(InWindow(Published, k, w))' \in Nat
      <4>1. Len(orders'[k]) \in Nat
        BY <1>3, LenProperties DEF TopicsTypeOK
      <4>2. InWindow(Published, k, w)' \subseteq {k} \X (1..Len(orders'[k]))
        BY DEF InWindow, Published
      <4> QED
        BY <4>1, <4>2, OfOneKeyFinite
    <3> QED
      BY <2>1, <3>1, <3>2, <3>3, FS_Subset
  <2>2. \A k \in Keys, w \in Windows : rows'[<<k, w>>] <= Cardinality(InWindow(Published, k, w))'
    BY <1>1, <1>3, <2>1 DEF CountInv, NeverOvercounted
  <2>3. sink' = "row" =>
           row'.orders <= Cardinality(InWindow(Published, row.key, row.window))'
    <3>1. ASSUME sink = "row"
          PROVE  row.orders <= Cardinality(InWindow(Published, row.key, row.window))
      BY <1>3, <3>1 DEF CountInv
    <3> QED
      BY <1>1, <1>3, <2>1, <3>1
  <2> QED
    BY <2>2, <2>3 DEF CountInv, NeverOvercounted
<1>8. DeadInv'
  <2>1. Read' = Read
    BY <1>1, <1>2, ReadStays
  <2> QED
    BY <1>1, <2>1 DEF SInv, DeadInv
<1> QED
  BY <1>4, <1>5, <1>6, <1>7, <1>8 DEF SInv

LEMMA InitSInv ==
    ASSUME TopicsAssumption, GeneratorAssumption, StreamAssumption, PipelineInit
    PROVE  SInv
<1>1. GInv
  BY InitGInv DEF PipelineInit
<1>2. StreamTypeOK
  <2>1. <<>> \in Seq(Types) /\ 0 \in Times /\ -Lateness - 1 \in Int
    BY EmptySeq DEF TopicsAssumption, StreamAssumption, Times
  <2> QED
    BY <2>1 DEF PipelineInit, StreamInit, StreamTypeOK
<1>3. ReadInv
  <2>1. \A k \in Keys : orders[k] = <<>> /\ offset[k] = 1 /\ Len(<<>>) = 0
    BY EmptySeq DEF PipelineInit, TopicsInit, StreamInit
  <2>2. Lateness \in Nat
    BY DEF StreamAssumption
  <2> QED
    BY <2>1, <2>2 DEF PipelineInit, StreamInit, ReadInv, LateMeansLate
<1>4. SinkInv
  BY DEF PipelineInit, StreamInit, SinkInv, SentWereStored
<1>5. CountInv
  <2>1. sink = "idle" /\ \A k \in Keys, w \in Windows : rows[<<k, w>>] = 0
    BY DEF PipelineInit, StreamInit
  <2>2. Published \in SUBSET Published /\ TopicsTypeOK
    BY <1>1 DEF GInv
  <2>3. \A k \in Keys, w \in Windows : Cardinality(InWindow(Published, k, w)) \in Nat
    BY <2>2, InWindowFinite
  <2> QED
    BY <2>1, <2>3 DEF CountInv, NeverOvercounted
<1>6. DeadInv
  BY DEF PipelineInit, StreamInit, DeadInv
<1> QED
  BY <1>1, <1>2, <1>3, <1>4, <1>5, <1>6 DEF SInv

\* The invariant holds throughout, whatever fails.
THEOREM StreamInvariance == PipelineSpec => []SInv
<1>1. PipelineInit => SInv
  BY InitSInv, TopicsAssumption, GeneratorAssumption, StreamAssumption
<1>2. SInv /\ GInv' /\ [PipelineNext]_pipelineVars => SInv'
  <2>1. CASE SInv /\ GInv' /\ GeneratorNext /\ UNCHANGED jobVars
    BY <2>1, GeneratorKeepsSInv, TopicsAssumption, GeneratorAssumption, StreamAssumption
  <2>2. CASE SInv /\ GInv' /\ JobNext
    BY <2>2, JobKeepsTypes, JobKeepsRead, JobKeepsDead, JobKeepsSink, JobKeepsCount,
       TopicsAssumption, StreamAssumption DEF SInv
  <2>3. CASE SInv /\ GInv' /\ UNCHANGED pipelineVars
    <3>1. /\ UNCHANGED <<clock, orders, moves, faults>>
          /\ UNCHANGED <<up, offset, newest, watermark, open, late, sink, row, pending,
                         detector, outbox, dead, rows, alerts, sent>>
      BY <2>3 DEF pipelineVars, topicVars, jobVars, taskVars, storeVars
    <3>2. Published' = Published /\ \A p : Event(p)' = Event(p)
      BY <3>1 DEF Published, Event
    <3>3. Read' = Read
      BY <3>1, <3>2 DEF Read
    <3>4. \A k, w : InWindow(Published, k, w)' = InWindow(Published, k, w)
      BY <3>2 DEF InWindow, WindowOf, Window
    <3>5. StreamTypeOK' /\ SinkInv'
      BY <2>3, <3>1 DEF SInv, StreamTypeOK, SinkInv, SentWereStored
    <3>6. ReadInv'
      BY <2>3, <3>1, <3>2, <3>3 DEF SInv, ReadInv, LateMeansLate
    <3>7. CountInv'
      BY <2>3, <3>1, <3>4 DEF SInv, CountInv, NeverOvercounted
    <3>8. DeadInv'
      BY <2>3, <3>1, <3>3 DEF SInv, DeadInv
    <3> QED
      BY <2>3, <3>5, <3>6, <3>7, <3>8 DEF SInv
  <2> QED
    BY <2>1, <2>2, <2>3 DEF PipelineNext
<1> QED
  BY <1>1, <1>2, GeneratorInvariance, PTL DEF PipelineSpec

\* Topics, generator and job keep their types.
THEOREM PipelineTypeCorrect == PipelineSpec => []PipelineTypeOK
<1>1. SInv => PipelineTypeOK
  BY DEF SInv, GInv, PipelineTypeOK
<1> QED
  BY <1>1, StreamInvariance, PTL

\* An order is dropped only if it lags the newest one read by more than the
\* lateness bound, across crashes and restarts (job.py:321-325, 351).
THEOREM DroppedWereLate == PipelineSpec => []LateMeansLate
<1>1. SInv => LateMeansLate
  BY DEF SInv, ReadInv
<1> QED
  BY <1>1, StreamInvariance, PTL

\* No crash, cancellation or restart makes a row count more orders than were
\* published for its window (job.py:295-308, sinks.py:19-38).
THEOREM RowsNeverOvercount == PipelineSpec => []NeverOvercounted
<1>1. SInv => NeverOvercounted
  BY DEF SInv, CountInv
<1> QED
  BY <1>1, StreamInvariance, PTL

\* Every alert a consumer receives is in Postgres with the row it was raised
\* for, wherever the job crashed (job.py:256-262).
THEOREM AlertsStoredFirst == PipelineSpec => []SentWereStored
<1>1. SInv => SentWereStored
  BY DEF SInv, SinkInv
<1> QED
  BY <1>1, StreamInvariance, PTL

-----------------------------------------------------------------------------
(* The invariant while the job runs uninterrupted.                         *)

\* The sink works in the order of event time: behind the watermark and
\* before every open window, with no alert of a newer window stored.
OrderInv ==
    /\ \A x \in Keys \X Types :
          /\ alerts[x] # NoAlert => Closed(alerts[x])
          /\ \A p \in open : alerts[x] <= WindowOf(p)
          /\ sink # "idle" => alerts[x] <= row.window
    /\ \A x \in Keys \X Windows : rows[x] # 0 => Closed(x[2])
    /\ sink # "idle" =>
          /\ Closed(row.window)
          /\ \A p \in open : row.window <= WindowOf(p)

\* The alert that is to be sent is the one in the table, and unless a
\* delivery has failed, no other is there alone.
SendInv ==
    /\ sink = "send" => alerts[<<row.key, Head(pending)>>] = row.window
    /\ "delivery" \notin faults =>
          \A k \in Keys, t \in Types : alerts[<<k, t>>] # NoAlert =>
             \/ <<k, t, alerts[<<k, t>>]>> \in sent \cup outbox
             \/ sink = "send" /\ row.key = k /\ Head(pending) = t

\* n counts the orders of a window that has fired.
Counted(k, w, n) ==
    /\ n = Cardinality(InWindow(InTime, k, w))
    /\ InWindow(open, k, w) = {}

\* The row of an order is stored or at the sink.
Handled(p) ==
    \/ rows[<<p[1], WindowOf(p)>>] # 0
    \/ row # NoRow /\ row.key = p[1] /\ row.window = WindowOf(p)

AccountInv ==
    /\ open \subseteq InTime
    /\ \A p \in InTime \ open : Handled(p)
    /\ \A k \in Keys, w \in Windows :
          rows[<<k, w>>] # 0 => Counted(k, w, rows[<<k, w>>])
    /\ sink = "row" => Counted(row.key, row.window, row.orders)

OInv == Uninterrupted => up /\ OrderInv /\ SendInv /\ AccountInv

\* What can happen while the job runs.
RunningNext ==
    \/ \E k \in Keys : ReadOrder(k) \/ Quarantine(k)
    \/ EmitWatermark \/ Fire \/ StoreRow \/ InsertAlert \/ SendAlert
    \/ Deliver \/ DeliveryFails

\* Uninterrupted, the job is never submitted again.
LEMMA UninterruptedSteps ==
    ASSUME TopicsAssumption, StreamAssumption, SInv, OInv, JobNext, Uninterrupted'
    PROVE  Uninterrupted /\ RunningNext
<1>1. Uninterrupted
  BY JobLeavesTopics DEF Uninterrupted, SInv, GInv
<1>2. up
  BY <1>1 DEF OInv
<1> QED
  BY <1>1, <1>2 DEF Uninterrupted, JobNext, RunningNext, Crash, Cancel, Submit, Fault

\* The windows of what the job holds.
LEMMA HeldWindows ==
    ASSUME TopicsAssumption, StreamAssumption, SInv
    PROVE  /\ \A p \in open \cup late : p \in Published /\ WindowOf(p) \in Nat
           /\ Windows \subseteq Nat
           /\ \A x \in Keys \X Types : alerts[x] \in Int
                                       /\ (alerts[x] # NoAlert => alerts[x] \in Nat)
<1>1. open \cup late \subseteq Published /\ TopicsTypeOK
  BY DEF SInv, GInv, ReadInv, Read
<1>2. \A p \in open \cup late : p \in Published /\ WindowOf(p) \in Nat
  BY <1>1, PublishedEvents
<1>3. Windows \subseteq Nat
  <2>1. Window(MaxTime) \in Nat
    BY WindowProperties DEF TopicsAssumption
  <2> QED
    BY <2>1 DEF Windows
<1>4. ASSUME NEW x \in Keys \X Types
      PROVE  alerts[x] \in Int /\ (alerts[x] # NoAlert => alerts[x] \in Nat)
  <2>1. alerts[x] \in Windows \cup {NoAlert}
    BY StreamTypes
  <2>2. NoAlert \in Int
    BY DEF NoAlert
  <2>3. CASE alerts[x] \in Windows
    <3>1. alerts[x] \in Nat
      BY <1>3, <2>3, Zenon
    <3> QED
      BY <3>1
  <2>4. CASE alerts[x] = NoAlert
    BY <2>2, <2>4
  <2> QED
    BY <2>1, <2>3, <2>4
<1> QED
  BY <1>2, <1>3, <1>4

LEMMA JobKeepsOrder ==
    ASSUME TopicsAssumption, StreamAssumption, SInv, OrderInv, JobNext, RunningNext
    PROVE  OrderInv'
<1>1. \A p : Event(p)' = Event(p) /\ WindowOf(p)' = WindowOf(p)
  BY JobKeepsOrders DEF WindowOf, Window
<1>2. /\ OrderInv /\ SinkInv /\ watermark \in Int
      /\ newest \in Nat /\ Lateness \in Nat
      /\ \A p \in open : p \in Published /\ WindowOf(p) \in Nat
      /\ \A x \in Keys \X Types : alerts[x] \in Int
                                  /\ (alerts[x] # NoAlert => alerts[x] \in Nat)
      /\ Windows \subseteq Nat
      /\ rows \in [Keys \X Windows -> Nat]
      /\ alerts \in [Keys \X Types -> Windows \cup {NoAlert}]
      /\ sink # "idle" => /\ row.key \in Keys /\ row.window \in Windows /\ row.window \in Nat
                          /\ row.orders \in Nat \ {0}
      /\ pending # <<>> => Head(pending) \in Types
  BY StreamTypes, HeldWindows DEF SInv, StreamAssumption
<1>3. CASE \E k \in Keys : ReadOrder(k)
  <2>1. PICK k \in Keys : ReadOrder(k)
    BY <1>3
  <2> DEFINE p == <<k, offset[k]>>
  <2>2. UNCHANGED <<watermark, sink, row, alerts, rows>>
    BY <2>1 DEF ReadOrder, storeVars
  <2>3. \A w : Closed(w)' = Closed(w)
    BY <2>2 DEF Closed
  <2>4. p \in Published /\ WindowOf(p) \in Nat
    BY <2>1, NextOrder, PublishedEvents DEF ReadOrder, SInv, GInv
  <2>5. \A q \in open' : q \in open \/ (q = p /\ ~Closed(WindowOf(p)))
    BY <2>1 DEF ReadOrder
  <2> HIDE DEF p
  <2>6. ASSUME ~Closed(WindowOf(p)), NEW v \in Nat, Closed(v)
        PROVE  v <= WindowOf(p)
    BY <1>2, <2>4, <2>6, ClosedBefore
  <2>7. \A q \in open', x \in Keys \X Types : alerts[x] <= WindowOf(q)
    <3> TAKE q \in open', x \in Keys \X Types
    <3>1. CASE q \in open
      BY <1>2, <3>1 DEF OrderInv
    <3>2. CASE q = p /\ ~Closed(WindowOf(p)) /\ alerts[x] = NoAlert
      BY <2>4, <3>2 DEF NoAlert
    <3>3. CASE q = p /\ ~Closed(WindowOf(p)) /\ alerts[x] # NoAlert
      BY <1>2, <2>6, <3>3 DEF OrderInv
    <3> QED
      BY <2>5, <3>1, <3>2, <3>3
  <2>8. sink # "idle" => \A q \in open' : row.window <= WindowOf(q)
    BY <1>2, <2>5, <2>6 DEF OrderInv
  <2> QED
    BY <1>1, <1>2, <2>2, <2>3, <2>7, <2>8 DEF OrderInv
<1>4. CASE EmitWatermark
  <2>1. /\ UNCHANGED <<open, sink, row, alerts, rows>>
        /\ watermark' = newest - Lateness - 1 /\ newest - Lateness - 1 > watermark
    BY <1>4 DEF EmitWatermark, storeVars
  <2>2. ASSUME NEW v \in Nat, Closed(v) PROVE Closed(v)'
    <3>1. WindowEnd(v) \in Int
      BY EndsAscend
    <3>2. WindowEnd(v) - 1 <= watermark
      BY <2>2 DEF Closed
    <3>3. watermark' \in Int /\ watermark < watermark'
      BY <1>2, <2>1
    <3>4. WindowEnd(v) - 1 <= watermark'
      BY <1>2, <3>1, <3>2, <3>3
    <3> QED
      BY <3>4 DEF Closed, WindowEnd
  <2>3. \A x \in Keys \X Types : alerts'[x] # NoAlert => Closed(alerts[x])'
    BY <1>2, <2>1, <2>2 DEF OrderInv
  <2>4. \A x \in Keys \X Windows : rows'[x] # 0 => Closed(x[2])'
    BY <1>2, <2>1, <2>2 DEF OrderInv
  <2>5. sink' # "idle" => Closed(row.window)'
    BY <1>2, <2>1, <2>2 DEF OrderInv
  <2> QED
    BY <1>1, <1>2, <2>1, <2>3, <2>4, <2>5 DEF OrderInv
<1>5. CASE Fire
  <2>1. PICK k \in Keys, w \in Windows :
           /\ row' = [key |-> k, window |-> w, orders |-> Cardinality(InWindow(open, k, w))]
           /\ open' = open \ InWindow(open, k, w)
           /\ Closed(w)
           /\ \A p \in open : WindowOf(p) >= w
           /\ InWindow(open, k, w) # {}
    BY <1>5, FiredRow
  <2>2. UNCHANGED <<watermark, alerts, rows>> /\ row'.window = w /\ w \in Nat
    BY <1>2, <1>5, <2>1 DEF Fire, storeVars
  <2>3. \A v : Closed(v)' = Closed(v)
    BY <2>2 DEF Closed
  <2>4. \A x \in Keys \X Types : alerts[x] <= w
    <3>1. PICK p \in open : WindowOf(p) = w
      BY <2>1 DEF InWindow
    <3> QED
      BY <1>2, <3>1 DEF OrderInv
  <2>5. \A p \in open : w <= WindowOf(p)
    BY <1>2, <2>1, <2>2
  <2> QED
    BY <1>1, <1>2, <2>1, <2>2, <2>3, <2>4, <2>5 DEF OrderInv
<1>6. CASE StoreRow
  <2>1. /\ UNCHANGED <<open, watermark, alerts>> /\ sink # "idle"
        /\ rows' = [rows EXCEPT ![<<row.key, row.window>>] = row.orders]
        /\ sink' # "idle" => row' = row
    BY <1>6 DEF StoreRow, After
  <2>2. \A v : Closed(v)' = Closed(v)
    BY <2>1 DEF Closed
  <2>3. \A x \in Keys \X Windows : rows'[x] # 0 => Closed(x[2])
    BY <1>2, <2>1 DEF OrderInv
  <2> QED
    BY <1>1, <1>2, <2>1, <2>2, <2>3 DEF OrderInv
<1>7. CASE InsertAlert
  <2>1. /\ UNCHANGED <<open, watermark, rows, row>> /\ sink # "idle" /\ pending # <<>>
        /\ alerts' = [alerts EXCEPT ![<<row.key, Head(pending)>>] = row.window]
    BY <1>2, <1>7 DEF InsertAlert, SinkInv
  <2>2. \A v : Closed(v)' = Closed(v)
    BY <2>1 DEF Closed
  <2>3. \A x \in Keys \X Types : alerts'[x] = alerts[x] \/ alerts'[x] = row.window
    BY <1>2, <2>1
  <2> QED
    BY <1>1, <1>2, <2>1, <2>2, <2>3 DEF OrderInv
<1>8. CASE SendAlert
  <2>1. /\ UNCHANGED <<open, watermark, rows, alerts>> /\ sink # "idle"
        /\ sink' # "idle" => row' = row
    BY <1>8 DEF SendAlert, After, storeVars
  <2>2. \A v : Closed(v)' = Closed(v)
    BY <2>1 DEF Closed
  <2> QED
    BY <1>1, <1>2, <2>1, <2>2 DEF OrderInv
<1>9. CASE Deliver \/ DeliveryFails \/ \E k \in Keys : Quarantine(k)
  <2>1. UNCHANGED <<open, watermark, rows, alerts, sink, row>>
    BY <1>9 DEF Deliver, DeliveryFails, Quarantine, storeVars
  <2>2. \A v : Closed(v)' = Closed(v)
    BY <2>1 DEF Closed
  <2> QED
    BY <1>1, <1>2, <2>1, <2>2 DEF OrderInv
<1> QED
  BY <1>3, <1>4, <1>5, <1>6, <1>7, <1>8, <1>9 DEF RunningNext

LEMMA JobKeepsSend ==
    ASSUME TopicsAssumption, StreamAssumption, SInv, SendInv, JobNext, RunningNext
    PROVE  SendInv'
<1> DEFINE On(k, t) == <<k, t, alerts[<<k, t>>]>> \in sent \cup outbox
<1>1. /\ SinkInv
      /\ alerts \in [Keys \X Types -> Windows \cup {NoAlert}]
      /\ sink # "idle" => row.key \in Keys
      /\ pending # <<>> => Head(pending) \in Types
      /\ sink = "send" => alerts[<<row.key, Head(pending)>>] = row.window
      /\ faults \subseteq faults'
  BY StreamTypes, JobLeavesTopics DEF SInv, SendInv, GInv
<1>2. ASSUME "delivery" \notin faults'
      PROVE  \A k \in Keys, t \in Types : alerts[<<k, t>>] # NoAlert =>
                On(k, t) \/ (sink = "send" /\ row.key = k /\ Head(pending) = t)
  BY <1>1, <1>2 DEF SendInv
<1>3. CASE /\ UNCHANGED alerts /\ sent' \cup outbox' = sent \cup outbox
           /\ \/ UNCHANGED <<sink, row, pending>>
              \/ sink # "send" /\ sink' # "send"
  BY <1>1, <1>2, <1>3 DEF SendInv
<1>4. CASE \E k \in Keys : ReadOrder(k) \/ Quarantine(k)
  BY <1>3, <1>4 DEF ReadOrder, Quarantine, storeVars
<1>5. CASE EmitWatermark \/ Fire \/ StoreRow
  <2>1. /\ UNCHANGED alerts /\ sent' \cup outbox' = sent \cup outbox
        /\ \/ UNCHANGED <<sink, row, pending>>
           \/ sink # "send" /\ sink' # "send"
    BY <1>5 DEF EmitWatermark, Fire, StoreRow, After, storeVars
  <2> QED
    BY <1>3, <2>1
<1>6. CASE InsertAlert
  <2>1. /\ sink = "insert" /\ sink' = "send" /\ pending # <<>>
        /\ alerts' = [alerts EXCEPT ![<<row.key, Head(pending)>>] = row.window]
        /\ UNCHANGED <<sent, outbox, row, pending>>
        /\ <<row.key, Head(pending)>> \in Keys \X Types
    BY <1>1, <1>6 DEF InsertAlert, SinkInv
  <2>2. alerts'[<<row.key, Head(pending)>>] = row.window
    BY <1>1, <2>1
  <2>3. ASSUME NEW k \in Keys, NEW t \in Types, alerts'[<<k, t>>] # NoAlert,
               "delivery" \notin faults'
        PROVE  \/ <<k, t, alerts'[<<k, t>>]>> \in sent \cup outbox
               \/ row.key = k /\ Head(pending) = t
    <3>1. CASE <<k, t>> # <<row.key, Head(pending)>>
      <4>1. alerts'[<<k, t>>] = alerts[<<k, t>>]
        BY <1>1, <2>1, <3>1
      <4> QED
        BY <1>2, <2>1, <2>3, <4>1
    <3>2. CASE <<k, t>> = <<row.key, Head(pending)>>
      BY <3>2
    <3> QED
      BY <3>1, <3>2
  <2> QED
    BY <2>1, <2>2, <2>3 DEF SendInv
<1>7. CASE SendAlert
  <2>1. /\ sink = "send" /\ sink' # "send" /\ UNCHANGED <<alerts, sent>>
        /\ outbox' = outbox \cup {<<row.key, Head(pending), row.window>>}
    BY <1>7 DEF SendAlert, After, storeVars
  <2>2. ASSUME "delivery" \notin faults'
        PROVE  \A k \in Keys, t \in Types : alerts[<<k, t>>] # NoAlert =>
                  <<k, t, alerts[<<k, t>>]>> \in sent \cup outbox'
    BY <1>1, <1>2, <2>1, <2>2
  <2> QED
    BY <2>1, <2>2 DEF SendInv
<1>8. CASE Deliver
  <2>1. UNCHANGED <<alerts, sink, row, pending>>
    BY <1>8 DEF Deliver
  <2>2. sent' \cup outbox' = sent \cup outbox
    BY <1>8 DEF Deliver
  <2> QED
    BY <1>3, <2>1, <2>2
<1>9. CASE DeliveryFails
  <2>1. UNCHANGED <<alerts, sink, row, pending>> /\ "delivery" \in faults'
    BY <1>9 DEF DeliveryFails, Fault, storeVars
  <2> QED
    BY <1>1, <2>1 DEF SendInv
<1> QED
  BY <1>4, <1>5, <1>6, <1>7, <1>8, <1>9 DEF RunningNext

\* What the windows count stays as it is when no order is taken or fires.
LEMMA CountsStay ==
    ASSUME InTime' = InTime, open' = open,
           \A p \in InTime \cup open : WindowOf(p)' = WindowOf(p)
    PROVE  \A k, w : /\ InWindow(InTime, k, w)' = InWindow(InTime, k, w)
                     /\ InWindow(open, k, w)' = InWindow(open, k, w)
BY DEF InWindow

\* The parts of the account after a step.
LEMMA AccountNext ==
    ASSUME open' \subseteq InTime',
           \A p \in InTime' \ open' :
              \/ rows'[<<p[1], WindowOf(p)'>>] # 0
              \/ row' # NoRow /\ row'.key = p[1] /\ row'.window = WindowOf(p)',
           \A k \in Keys, w \in Windows : rows'[<<k, w>>] # 0 =>
              /\ rows'[<<k, w>>] = Cardinality(InWindow(InTime, k, w)')
              /\ InWindow(open, k, w)' = {},
           \A k, w : sink' = "row" /\ k = row'.key /\ w = row'.window =>
              /\ row'.orders = Cardinality(InWindow(InTime, k, w)')
              /\ InWindow(open, k, w)' = {}
    PROVE  AccountInv'
<1>1. \A p \in InTime' \ open' : Handled(p)'
  BY DEF Handled
<1>2. sink' = "row" => Counted(row.key, row.window, row.orders)'
  <2> SUFFICES ASSUME sink' = "row"
               PROVE  /\ row'.orders = Cardinality(InWindow(InTime, row.key, row.window)')
                      /\ InWindow(open, row.key, row.window)' = {}
    BY DEF Counted
  <2> DEFINE k == row'.key
             w == row'.window
  <2>1. /\ row'.orders = Cardinality({p \in InTime' : p[1] = k /\ WindowOf(p)' = w})
        /\ {p \in open' : p[1] = k /\ WindowOf(p)' = w} = {}
    BY DEF InWindow
  <2> QED
    BY <2>1 DEF InWindow
<1> QED
  BY <1>1, <1>2 DEF AccountInv, Counted

\* Steps that leave the orders, the rows and the row at the sink alone.
LEMMA AccountKept ==
    ASSUME AccountInv, InTime' = InTime, open' = open,
           \A p \in InTime \cup open : WindowOf(p)' = WindowOf(p),
           UNCHANGED <<row, rows>>, sink' = "row" => sink = "row"
    PROVE  AccountInv'
<1>1. \A k, w : /\ InWindow(InTime, k, w)' = InWindow(InTime, k, w)
                /\ InWindow(open, k, w)' = InWindow(open, k, w)
  BY CountsStay
<1>2. \A p \in InTime' \ open' :
         \/ rows'[<<p[1], WindowOf(p)'>>] # 0
         \/ row' # NoRow /\ row'.key = p[1] /\ row'.window = WindowOf(p)'
  BY DEF AccountInv, Handled
<1>3. \A k \in Keys, w \in Windows : rows'[<<k, w>>] # 0 =>
         /\ rows'[<<k, w>>] = Cardinality(InWindow(InTime, k, w)')
         /\ InWindow(open, k, w)' = {}
  BY <1>1 DEF AccountInv, Counted
<1>4. \A k, w : sink' = "row" /\ k = row'.key /\ w = row'.window =>
         /\ row'.orders = Cardinality(InWindow(InTime, k, w)')
         /\ InWindow(open, k, w)' = {}
  BY <1>1 DEF AccountInv, Counted
<1>5. open' \subseteq InTime'
  BY DEF AccountInv
<1> QED
  BY <1>2, <1>3, <1>4, <1>5, AccountNext

LEMMA JobKeepsAccount ==
    ASSUME TopicsAssumption, StreamAssumption, SInv, OrderInv, AccountInv,
           JobNext, RunningNext
    PROVE  AccountInv'
<1>1. /\ \A p : Event(p)' = Event(p) /\ WindowOf(p)' = WindowOf(p)
      /\ Published' = Published
  BY JobKeepsOrders DEF WindowOf, Window
<1>2. /\ OrderInv /\ SinkInv
      /\ open \cup late \cup dead \subseteq Read
      /\ rows \in [Keys \X Windows -> Nat]
      /\ sink # "idle" => /\ row.key \in Keys /\ row.window \in Windows
                          /\ row.orders \in Nat \ {0}
  BY StreamTypes DEF SInv, ReadInv, DeadInv
<1>3. /\ open \subseteq InTime
      /\ \A p \in InTime \ open : Handled(p)
      /\ \A k \in Keys, w \in Windows : rows[<<k, w>>] # 0 =>
            /\ rows[<<k, w>>] = Cardinality(InWindow(InTime, k, w))
            /\ InWindow(open, k, w) = {}
      /\ sink = "row" => /\ row.orders = Cardinality(InWindow(InTime, row.key, row.window))
                         /\ InWindow(open, row.key, row.window) = {}
  BY DEF AccountInv, Counted
<1>4. \A p \in InTime : p[1] \in Keys /\ WindowOf(p) \in Windows
  BY PublishedEvents DEF InTime, Read, SInv, GInv
<1>5. UNCHANGED <<offset, late, dead>> => InTime' = InTime
  BY <1>1 DEF InTime, Read
<1>6. CASE EmitWatermark \/ Deliver \/ DeliveryFails
  BY <1>1, <1>5, <1>6, AccountKept DEF EmitWatermark, Deliver, DeliveryFails, storeVars
<1>7. ASSUME NEW k \in Keys, ReadOrder(k) \/ Quarantine(k)
      PROVE  AccountInv'
  <2> DEFINE p == <<k, offset[k]>>
  <2>1. /\ p \notin Read /\ Read' = Read \cup {p}
        /\ UNCHANGED <<row, rows, sink>>
    BY <1>7, OneMoreRead DEF ReadOrder, Quarantine, storeVars
  <2>2. \/ open' = open /\ late' \cup dead' = late \cup dead \cup {p}
        \/ ~Closed(WindowOf(p)) /\ open' = open \cup {p} /\ UNCHANGED <<late, dead>>
    BY <1>7 DEF ReadOrder, Quarantine, storeVars
  <2> HIDE DEF p
  <2>3. CASE open' = open /\ late' \cup dead' = late \cup dead \cup {p}
    <3>1. InTime' = InTime
      BY <2>1, <2>3 DEF InTime
    <3> QED
      BY <1>1, <2>1, <2>3, <3>1, AccountKept
  <2>4. CASE ~Closed(WindowOf(p)) /\ open' = open \cup {p} /\ UNCHANGED <<late, dead>>
    <3>1. InTime' = InTime \cup {p} /\ InTime' \ open' = InTime \ open
      BY <1>2, <1>3, <2>1, <2>4 DEF InTime
    <3>2. ASSUME NEW v, NEW w, Closed(w)
          PROVE  /\ InWindow(InTime, v, w)' = InWindow(InTime, v, w)
                 /\ InWindow(open, v, w)' = InWindow(open, v, w)
      BY <1>1, <2>4, <3>1, <3>2 DEF InWindow
    <3>3. /\ \A v \in Keys, w \in Windows : rows[<<v, w>>] # 0 => Closed(w)
          /\ sink = "row" => Closed(row.window)
      BY <1>2 DEF OrderInv
    <3>4. \A v \in Keys, w \in Windows : rows'[<<v, w>>] # 0 =>
             /\ rows'[<<v, w>>] = Cardinality(InWindow(InTime, v, w)')
             /\ InWindow(open, v, w)' = {}
      BY <1>3, <2>1, <3>2, <3>3
    <3>5. \A v, w : sink' = "row" /\ v = row'.key /\ w = row'.window =>
             /\ row'.orders = Cardinality(InWindow(InTime, v, w)')
             /\ InWindow(open, v, w)' = {}
      BY <1>3, <2>1, <3>2, <3>3
    <3>6. \A q \in InTime' \ open' :
             \/ rows'[<<q[1], WindowOf(q)'>>] # 0
             \/ row' # NoRow /\ row'.key = q[1] /\ row'.window = WindowOf(q)'
      BY <1>1, <1>3, <2>1, <3>1 DEF Handled
    <3>7. open' \subseteq InTime'
      BY <1>3, <2>4, <3>1
    <3> QED
      BY <3>4, <3>5, <3>6, <3>7, AccountNext
  <2> QED
    BY <2>2, <2>3, <2>4
<1>8. CASE Fire
  <2>1. PICK k \in Keys, w \in Windows :
           /\ row' = [key |-> k, window |-> w, orders |-> Cardinality(InWindow(open, k, w))]
           /\ row' # NoRow
           /\ open' = open \ InWindow(open, k, w)
           /\ InWindow(open, k, w) # {}
    BY <1>8, FiredRow
  <2>2. UNCHANGED <<offset, late, dead, rows>> /\ row = NoRow
    BY <1>2, <1>8 DEF Fire, storeVars, SinkInv
  <2>3. InTime' = InTime
    BY <1>5, <2>2
  <2>4. row'.key = k /\ row'.window = w /\ row'.orders = Cardinality(InWindow(open, k, w))
    BY <2>1
  <2>5. rows[<<k, w>>] = 0
    BY <1>3, <2>1
  <2>6. InWindow(InTime, k, w) = InWindow(open, k, w)
    <3>1. InWindow(open, k, w) \subseteq InWindow(InTime, k, w)
      BY <1>3 DEF InWindow
    <3>2. ASSUME NEW p \in InWindow(InTime, k, w), p \notin open PROVE FALSE
      <4>1. p \in InTime \ open /\ p[1] = k /\ WindowOf(p) = w
        BY <3>2 DEF InWindow
      <4> QED
        BY <1>3, <2>2, <2>5, <4>1 DEF Handled
    <3> QED
      BY <3>1, <3>2 DEF InWindow
  <2>7. \A v, x : InWindow(InTime, v, x)' = InWindow(InTime, v, x)
    BY <1>1, <2>3 DEF InWindow
  <2>8. InWindow(open, k, w)' = {} /\ open' \subseteq open
    BY <1>1, <2>1 DEF InWindow
  <2>9. ASSUME NEW p \in InTime' \ open'
        PROVE  \/ rows'[<<p[1], WindowOf(p)'>>] # 0
               \/ row' # NoRow /\ row'.key = p[1] /\ row'.window = WindowOf(p)'
    <3>1. CASE p \in open
      <4>1. p \in InWindow(open, k, w)
        BY <2>1, <2>9, <3>1
      <4> QED
        BY <1>1, <2>1, <2>4, <4>1 DEF InWindow
    <3>2. CASE p \notin open
      BY <1>1, <1>3, <2>2, <2>3, <2>9, <3>2 DEF Handled
    <3> QED
      BY <3>1, <3>2
  <2>10. \A v \in Keys, x \in Windows : rows'[<<v, x>>] # 0 =>
            /\ rows'[<<v, x>>] = Cardinality(InWindow(InTime, v, x)')
            /\ InWindow(open, v, x)' = {}
    <3>1. \A v, x : InWindow(open, v, x)' \subseteq InWindow(open, v, x)
      BY <1>1, <2>8 DEF InWindow
    <3> QED
      BY <1>3, <2>2, <2>7, <3>1
  <2>11. \A v, x : sink' = "row" /\ v = row'.key /\ x = row'.window =>
            /\ row'.orders = Cardinality(InWindow(InTime, v, x)')
            /\ InWindow(open, v, x)' = {}
    BY <2>4, <2>6, <2>7, <2>8
  <2> QED
    BY <1>3, <2>3, <2>8, <2>9, <2>10, <2>11, AccountNext
<1>9. CASE StoreRow \/ InsertAlert \/ SendAlert
  <2>1. /\ UNCHANGED <<offset, late, dead, open>> /\ sink' # "row"
    BY <1>9 DEF StoreRow, InsertAlert, SendAlert, After, storeVars
  <2>2. InTime' = InTime
    BY <1>5, <2>1
  <2>3. \A k, w : /\ InWindow(InTime, k, w)' = InWindow(InTime, k, w)
                  /\ InWindow(open, k, w)' = InWindow(open, k, w)
    BY <1>1, <2>1, <2>2, CountsStay
  <2>4. row # NoRow
    BY <1>2, <1>9 DEF StoreRow, InsertAlert, SendAlert, SinkInv
  <2>5. /\ rows'[<<row.key, row.window>>] # 0
        /\ \A x \in Keys \X Windows :
              \/ rows'[x] = rows[x]
              \/ sink = "row" /\ x = <<row.key, row.window>> /\ rows'[x] = row.orders
    <3>1. CASE StoreRow
      <4>1. /\ sink = "row" /\ rows' = [rows EXCEPT ![<<row.key, row.window>>] = row.orders]
            /\ row.orders # 0 /\ <<row.key, row.window>> \in Keys \X Windows
        BY <1>2, <3>1 DEF StoreRow
      <4> QED
        BY <1>2, <4>1
    <3>2. CASE InsertAlert \/ SendAlert
      BY <1>2, <3>2 DEF InsertAlert, SendAlert, SinkInv, storeVars
    <3> QED
      BY <1>9, <3>1, <3>2
  <2>6. ASSUME NEW p \in InTime \ open
        PROVE  rows'[<<p[1], WindowOf(p)>>] # 0
    <3>1. <<p[1], WindowOf(p)>> \in Keys \X Windows
      BY <1>4
    <3>2. CASE <<p[1], WindowOf(p)>> = <<row.key, row.window>>
      BY <2>5, <3>2
    <3>3. CASE <<p[1], WindowOf(p)>> # <<row.key, row.window>>
      <4>1. rows'[<<p[1], WindowOf(p)>>] = rows[<<p[1], WindowOf(p)>>]
        BY <2>5, <3>1, <3>3
      <4> QED
        BY <1>3, <3>3, <4>1 DEF Handled
    <3> QED
      BY <3>2, <3>3
  <2>7. ASSUME NEW k \in Keys, NEW w \in Windows, rows'[<<k, w>>] # 0
        PROVE  /\ rows'[<<k, w>>] = Cardinality(InWindow(InTime, k, w)')
               /\ InWindow(open, k, w)' = {}
    <3>1. CASE rows'[<<k, w>>] = rows[<<k, w>>]
      BY <1>3, <2>3, <2>7, <3>1
    <3>2. CASE sink = "row" /\ <<k, w>> = <<row.key, row.window>> /\ rows'[<<k, w>>] = row.orders
      BY <1>3, <2>3, <3>2
    <3> QED
      BY <2>5, <3>1, <3>2
  <2> QED
    BY <1>1, <1>3, <2>1, <2>2, <2>6, <2>7, AccountNext
<1> QED
  BY <1>6, <1>7, <1>8, <1>9 DEF RunningNext

\* New orders change nothing of what the job has done with those it read.
LEMMA OthersKeepOInv ==
    ASSUME TopicsAssumption, StreamAssumption, SInv, OInv, GInv', OrdersKept,
           faults \subseteq faults',
           UNCHANGED <<up, offset, watermark, open, late, dead, sink, row, pending, outbox,
                       rows, alerts, sent>>
    PROVE  OInv'
<1> SUFFICES ASSUME Uninterrupted'
             PROVE  (up /\ OrderInv /\ SendInv /\ AccountInv)'
  BY DEF OInv
<1>1. up /\ OrderInv /\ SendInv /\ AccountInv
  BY DEF OInv, Uninterrupted
<1>2. InTime' = InTime
  BY ReadStays DEF InTime
<1>3. open \cup InTime \subseteq Published
  BY DEF SInv, ReadInv, InTime, Read
<1>4. \A p \in open \cup InTime : WindowOf(p)' = WindowOf(p)
  BY <1>3 DEF OrdersKept, WindowOf, Window
<1>5. \A w : Closed(w)' = Closed(w)
  BY DEF Closed
<1>6. OrderInv'
  BY <1>1, <1>4, <1>5 DEF OrderInv
<1>7. SendInv'
  BY <1>1 DEF SendInv
<1>8. AccountInv'
  BY <1>1, <1>2, <1>4, AccountKept
<1> QED
  BY <1>1, <1>6, <1>7, <1>8

LEMMA InitOInv ==
    ASSUME TopicsAssumption, StreamAssumption, PipelineInit
    PROVE  OInv
<1>1. /\ up /\ open = {} /\ sink = "idle" /\ row = NoRow
      /\ \A x \in Keys \X Windows : rows[x] = 0
      /\ \A x \in Keys \X Types : alerts[x] = NoAlert
  BY DEF PipelineInit, StreamInit
<1>2. InTime = {}
  <2>1. \A k \in Keys : orders[k] = <<>> /\ Len(<<>>) = 0
    BY EmptySeq DEF PipelineInit, TopicsInit
  <2>2. \A k \in Keys : {k} \X (1..Len(orders[k])) = {}
    BY <2>1
  <2> QED
    BY <2>2 DEF InTime, Read, Published
<1>3. \A k \in Keys, w \in Windows : rows[<<k, w>>] = 0
  BY <1>1
<1>4. \A k \in Keys, t \in Types : alerts[<<k, t>>] = NoAlert
  BY <1>1
<1> QED
  BY <1>1, <1>2, <1>3, <1>4 DEF OInv, OrderInv, SendInv, AccountInv

\* As long as the job runs uninterrupted, the stronger invariant holds too.
THEOREM UninterruptedInvariance == PipelineSpec => []OInv
<1>1. PipelineInit => OInv
  BY InitOInv, TopicsAssumption, StreamAssumption
<1>2. SInv /\ OInv /\ GInv' /\ [PipelineNext]_pipelineVars => OInv'
  <2> SUFFICES ASSUME SInv, OInv, GInv', [PipelineNext]_pipelineVars
               PROVE  OInv'
    OBVIOUS
  <2>1. CASE GeneratorNext /\ UNCHANGED jobVars
    <3>1. UNCHANGED <<up, offset, watermark, open, late, dead, sink, row, pending, outbox,
                      rows, alerts, sent>>
      BY <2>1 DEF jobVars, taskVars, storeVars
    <3> QED
      BY <2>1, <3>1, OthersKeepOInv, GeneratorKeepsOrders, GeneratorFaults,
         TopicsAssumption, StreamAssumption DEF SInv, GInv
  <2>2. CASE JobNext
    <3> SUFFICES ASSUME Uninterrupted' PROVE up' /\ OrderInv' /\ SendInv' /\ AccountInv'
      BY DEF OInv
    <3>1. Uninterrupted /\ RunningNext
      BY <2>2, UninterruptedSteps, TopicsAssumption, StreamAssumption
    <3>2. up /\ OrderInv /\ SendInv /\ AccountInv
      BY <3>1 DEF OInv
    <3>3. up' = up
      BY <3>1 DEF RunningNext, ReadOrder, Quarantine, EmitWatermark, Fire, StoreRow,
         InsertAlert, SendAlert, Deliver, DeliveryFails
    <3> QED
      BY <2>2, <3>1, <3>2, <3>3, JobKeepsOrder, JobKeepsSend, JobKeepsAccount,
         TopicsAssumption, StreamAssumption
  <2>3. CASE UNCHANGED pipelineVars
    <3>1. /\ UNCHANGED <<up, offset, watermark, open, late, dead, sink, row, pending, outbox,
                         rows, alerts, sent>>
          /\ orders' = orders /\ faults' = faults
      BY <2>3 DEF pipelineVars, topicVars, jobVars, taskVars, storeVars
    <3>2. OrdersKept
      BY <3>1, OrdersStay, TopicsAssumption, StreamAssumption DEF SInv
    <3> QED
      BY <3>1, <3>2, OthersKeepOInv, TopicsAssumption, StreamAssumption
  <2> QED
    BY <2>1, <2>2, <2>3 DEF PipelineNext
<1> QED
  BY <1>1, <1>2, StreamInvariance, GeneratorInvariance, PTL DEF PipelineSpec

\* Every order the job has read is late, quarantined, held, or counted once,
\* and a row counts all of its window's orders that were in time
\* (job.py:173-188, 256).
THEOREM EveryOrderAccounted == PipelineSpec => []OrdersAccounted
<1>1. OInv => OrdersAccounted
  BY DEF OInv, AccountInv, Handled, Counted, OrdersAccounted
<1> QED
  BY <1>1, UninterruptedInvariance, PTL

\* While the job runs and no delivery fails, no alert stays in the table
\* alone (sinks.py:41-88).
THEOREM AlertsReachConsumers == PipelineSpec => []StoredAlertsSent
<1>1. OInv => StoredAlertsSent
  BY DEF OInv, SendInv, StoredAlertsSent
<1> QED
  BY <1>1, UninterruptedInvariance, PTL

\* As long as the job runs, an older window's alert never replaces a newer one's
\* (sinks.py:41-58, init_db.sql:27-28).
THEOREM AlertsAdvance == PipelineSpec => AlertsMoveForward
<1>1. SInv /\ OInv /\ [PipelineNext]_pipelineVars
         => [\A x \in Keys \X Types : Uninterrupted => alerts'[x] >= alerts[x]]_pipelineVars
  <2> SUFFICES ASSUME SInv, OInv, PipelineNext, NEW x \in Keys \X Types, Uninterrupted
               PROVE  alerts'[x] >= alerts[x]
    OBVIOUS
  <2>1. alerts[x] \in Int /\ Windows \subseteq Nat
    BY HeldWindows, TopicsAssumption, StreamAssumption
  <2>2. CASE alerts' = alerts
    BY <2>1, <2>2
  <2>3. CASE InsertAlert
    <3>1. /\ alerts' = [alerts EXCEPT ![<<row.key, Head(pending)>>] = row.window]
          /\ sink # "idle"
      BY <2>3 DEF InsertAlert
    <3>2. /\ alerts \in [Keys \X Types -> Windows \cup {NoAlert}]
          /\ row.window \in Windows
      BY <3>1, StreamTypes, TopicsAssumption
    <3>3. alerts[x] <= row.window
      BY <3>1 DEF OInv, OrderInv
    <3>4. row.window \in Nat
      BY <2>1, <3>2, Zenon
    <3>5. alerts'[x] = alerts[x] \/ alerts'[x] = row.window
      BY <3>1, <3>2
    <3> QED
      BY <2>1, <3>3, <3>4, <3>5
  <2> QED
    BY <2>2, <2>3 DEF PipelineNext, jobVars, storeVars, JobNext, ReadOrder, Quarantine,
       EmitWatermark, Fire, StoreRow, SendAlert, Deliver, DeliveryFails, Crash, Cancel, Submit
<1> QED
  BY <1>1, StreamInvariance, UninterruptedInvariance, PTL DEF PipelineSpec, AlertsMoveForward

=============================================================================
