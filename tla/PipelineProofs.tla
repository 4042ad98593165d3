---------------------------- MODULE PipelineProofs ----------------------------
(***************************************************************************)
(* What the generator and the streaming job promise together, for any      *)
(* number of keys, orders and windows: an injected surge is found.         *)
(* TLC checks the same on a small instance (PipelineFaults.cfg).           *)
(***************************************************************************)
EXTENDS StreamProofs, WellFoundedInduction

-----------------------------------------------------------------------------
(* A pigeonhole principle.                                                 *)

\* The part of S that f takes to w, and what f takes S to.
Fibre(f, S, w) == {p \in S : f[p] = w}
Image(f, S) == {f[p] : p \in S}

\* Taking one fibre away removes its elements, and its value.
LEMMA FibreRemoved ==
    ASSUME NEW f, NEW S, IsFiniteSet(S), NEW p \in S
    PROVE  LET rest == S \ Fibre(f, S, f[p])
           IN  /\ Cardinality(S) = Cardinality(rest) + Cardinality(Fibre(f, S, f[p]))
               /\ Cardinality(rest) < Cardinality(S)
               /\ IsFiniteSet(Image(f, rest)) =>
                     /\ IsFiniteSet(Image(f, S))
                     /\ Cardinality(Image(f, S)) = Cardinality(Image(f, rest)) + 1
<1> DEFINE F == Fibre(f, S, f[p])
           rest == S \ F
<1>1. F \subseteq S /\ p \in F /\ S \cap F = F
  BY DEF Fibre
<1>2. /\ IsFiniteSet(F) /\ IsFiniteSet(rest)
      /\ Cardinality(F) \in Nat /\ Cardinality(rest) \in Nat /\ Cardinality(S) \in Nat
  BY <1>1, FS_Subset, FS_CardinalityType
<1>3. Cardinality(rest) = Cardinality(S) - Cardinality(F)
  BY <1>1, FS_Difference
<1>4. Cardinality(F) # 0
  BY <1>1, <1>2, FS_EmptySet
<1>5. Image(f, S) = Image(f, rest) \cup {f[p]} /\ f[p] \notin Image(f, rest)
  BY DEF Image, Fibre
<1>6. IsFiniteSet(Image(f, rest)) =>
         /\ IsFiniteSet(Image(f, S))
         /\ Cardinality(Image(f, S)) = Cardinality(Image(f, rest)) + 1
  BY <1>5, FS_AddElement
<1> QED
  BY <1>2, <1>3, <1>4, <1>6

\* Where f takes at most n elements of S to each value, S has at most n
\* elements for each value.  Otherwise take the smallest subset that has
\* more: without one of its fibres, it still has.
LEMMA PigeonHole ==
    ASSUME NEW f, NEW S, IsFiniteSet(S), NEW n \in Nat,
           \A w : Cardinality(Fibre(f, S, w)) <= n
    PROVE  /\ IsFiniteSet(Image(f, S))
           /\ Cardinality(S) <= n * Cardinality(Image(f, S))
<1> DEFINE Good(T) == /\ IsFiniteSet(Image(f, T))
                      /\ Cardinality(T) <= n * Cardinality(Image(f, T))
           Bad == {m \in Nat : \E T \in SUBSET S : Cardinality(T) = m /\ ~Good(T)}
           R == OpToRel(<, Nat)
<1>1. \A T \in SUBSET S : IsFiniteSet(T) /\ Cardinality(T) \in Nat
  BY FS_Subset, FS_CardinalityType
<1>2. SUFFICES ASSUME ~Good(S) PROVE FALSE
  OBVIOUS
<1>3. Cardinality(S) \in Bad
  BY <1>1, <1>2
<1>4. PICK m \in Bad : \A u \in Bad : ~ (<<u, m>> \in R)
  <2> HIDE DEF Bad, R
  <2>1. IsWellFoundedOn(R, Nat)
    BY NatLessThanWellFounded DEF R
  <2>2. Bad \subseteq Nat
    BY DEF Bad
  <2> QED
    BY <1>3, <2>1, <2>2, WFMin
<1>5. \A u \in Bad : ~ (u < m)
  BY <1>4 DEF OpToRel
<1>6. PICK T \in SUBSET S : Cardinality(T) = m /\ ~Good(T)
  BY <1>4
<1>7. \A U \in SUBSET S : Cardinality(U) < Cardinality(T) => Good(U)
  <2> HIDE DEF Good
  <2> QED
    BY <1>1, <1>5, <1>6
<1>8. CASE T = {}
  <2>1. Image(f, T) = {}
    BY <1>8 DEF Image
  <2>2. IsFiniteSet(Image(f, T)) /\ Cardinality(Image(f, T)) = 0 /\ Cardinality(T) = 0
    BY <1>8, <2>1, FS_EmptySet
  <2> QED
    BY <1>6, <2>2
<1>9. CASE T # {}
  <2>1. PICK p \in T : TRUE
    BY <1>9
  <2> DEFINE F == Fibre(f, T, f[p])
             rest == T \ F
  <2>2. rest \in SUBSET S /\ F \in SUBSET S /\ IsFiniteSet(T)
    BY <1>1 DEF Fibre
  <2>3. IsFiniteSet(rest) /\ IsFiniteSet(F)
    BY <1>1, <2>2
  <2>4. Cardinality(rest) < Cardinality(T)
    BY <2>2, FibreRemoved
  <2>5. Good(rest)
    BY <1>7, <2>2, <2>4
  <2> DEFINE c == Cardinality(Image(f, rest))
  <2>6. /\ Cardinality(T) = Cardinality(rest) + Cardinality(F)
        /\ IsFiniteSet(Image(f, T)) /\ Cardinality(Image(f, T)) = c + 1
    BY <2>2, <2>5, FibreRemoved
  <2>7. Cardinality(F) <= n
    <3>1. /\ Fibre(f, S, f[p]) \in SUBSET S /\ F \in SUBSET Fibre(f, S, f[p])
      BY DEF Fibre
    <3>2. Cardinality(F) <= Cardinality(Fibre(f, S, f[p]))
      BY <1>1, <3>1, FS_Subset
    <3>3. Cardinality(Fibre(f, S, f[p])) <= n
      OBVIOUS
    <3>4. Cardinality(F) \in Nat /\ Cardinality(Fibre(f, S, f[p])) \in Nat
      BY <1>1, <2>2, <3>1
    <3> QED
      BY <3>2, <3>3, <3>4
  <2>8. /\ c \in Nat /\ Cardinality(rest) \in Nat /\ Cardinality(F) \in Nat
        /\ Cardinality(rest) <= n * c
    BY <1>1, <2>2, <2>5, FS_CardinalityType
  <2>9. Cardinality(T) <= n * (c + 1)
    <3> HIDE DEF c, F, rest
    <3> QED
      BY <2>6, <2>7, <2>8
  <2> QED
    BY <1>6, <2>6, <2>9
<1> QED
  BY <1>8, <1>9

-----------------------------------------------------------------------------
(* Surges.                                                                 *)

\* An alert of type t is still to be written or sent for the row of k.
Announced(k, t) ==
    /\ sink \in {"insert", "send"}
    /\ row.key = k
    /\ \E i \in DOMAIN pending : pending[i] = t

\* While the rules judge, a row that surges has its alert, or will have it
\* before the sink takes another row.
SurgeInv ==
    Uninterrupted /\ detector # "ready" =>
        \A k \in Keys, w \in Windows : rows[<<k, w>>] >= SurgeOrders =>
            alerts[<<k, "surge">>] # NoAlert \/ Announced(k, "surge")

\* The rules announce every surge.
LEMMA RulesAnnounce ==
    ASSUME NEW r, r.orders >= SurgeOrders
    PROVE  /\ Rules(r) # <<>>
           /\ \E i \in DOMAIN Rules(r) : Rules(r)[i] = "surge"
<1>1. Judge("surge", r) = <<"surge">>
  BY DEF Judge, Exceeds
<1>2. <<"surge">> \in Seq(Types) /\ Len(<<"surge">>) = 1 /\ <<"surge">>[1] = "surge"
  BY DEF Types
<1>3. Judge("stockout_risk", r) \in Seq(Types)
  <2>1. <<"stockout_risk">> \in Seq(Types) /\ <<>> \in Seq(Types)
    BY EmptySeq DEF Types
  <2> QED
    BY <2>1 DEF Judge
<1> DEFINE s == Judge("stockout_risk", r)
           t == <<"surge">>
<1>4. s \in Seq(Types) /\ t \in Seq(Types) /\ Rules(r) = s \o t
  BY <1>1, <1>2, <1>3 DEF Rules
<1>5. Len(s) \in Nat /\ Len(t) = 1 /\ t[1] = "surge"
  BY <1>2, <1>4, LenProperties
<1> HIDE DEF s, t
<1>6. s \o t \in Seq(Types) /\ Len(s \o t) = Len(s) + 1 /\ (s \o t)[Len(s) + 1] = "surge"
  <2>1. /\ s \o t \in Seq(Types) /\ Len(s \o t) = Len(s) + Len(t)
        /\ \A i \in 1..Len(s) + Len(t) :
              (s \o t)[i] = IF i <= Len(s) THEN s[i] ELSE t[i - Len(s)]
    BY <1>4, ConcatProperties
  <2>2. /\ Len(s) + 1 \in 1..Len(s) + Len(t)
        /\ ~(Len(s) + 1 <= Len(s)) /\ (Len(s) + 1) - Len(s) = 1
    BY <1>5
  <2>3. (s \o t)[Len(s) + 1] = t[1]
    BY <2>1, <2>2
  <2> QED
    BY <1>5, <2>1, <2>3
<1>7. Len(s) + 1 \in DOMAIN (s \o t)
  BY <1>5, <1>6, LenProperties
<1>8. s \o t # <<>>
  BY <1>5, <1>6, EmptySeq
<1> QED
  BY <1>4, <1>6, <1>7, <1>8

\* A row's alerts become announced when it is stored, and stay so until
\* each is in the table.
LEMMA JobKeepsSurges ==
    ASSUME TopicsAssumption, StreamAssumption, SInv, OInv, SurgeInv, JobNext
    PROVE  SurgeInv'
<1> SUFFICES ASSUME Uninterrupted', detector' # "ready",
                    NEW k \in Keys, NEW w \in Windows, rows'[<<k, w>>] >= SurgeOrders
             PROVE  alerts'[<<k, "surge">>] # NoAlert \/ Announced(k, "surge")'
  BY DEF SurgeInv
<1>1. Uninterrupted /\ RunningNext
  BY UninterruptedSteps
<1>2. detector # "ready"
  BY <1>1 DEF RunningNext, ReadOrder, Quarantine, EmitWatermark, Fire, StoreRow, InsertAlert,
     SendAlert, Deliver, DeliveryFails, DetectorNext
<1>3. rows[<<k, w>>] >= SurgeOrders =>
         alerts[<<k, "surge">>] # NoAlert \/ Announced(k, "surge")
  BY <1>1, <1>2 DEF SurgeInv
<1>4. /\ rows \in [Keys \X Windows -> Nat]
      /\ alerts \in [Keys \X Types -> Windows \cup {NoAlert}]
      /\ pending \in Seq(Types)
      /\ Windows \subseteq Nat
  BY StreamTypes, HeldWindows
<1>5. CASE \/ \E v \in Keys : ReadOrder(v) \/ Quarantine(v)
           \/ EmitWatermark \/ Deliver \/ DeliveryFails
  BY <1>3, <1>5 DEF ReadOrder, Quarantine, EmitWatermark, Deliver, DeliveryFails, storeVars,
     Announced
<1>6. CASE Fire
  BY <1>3, <1>6 DEF Fire, storeVars, Announced
<1>7. CASE StoreRow
  <2>1. /\ sink = "row"
        /\ rows' = [rows EXCEPT ![<<row.key, row.window>>] = row.orders]
        /\ alerts' = alerts
        /\ row.key \in Keys /\ row.window \in Windows
    BY <1>7, StreamTypes DEF StoreRow
  <2>2. After(Rules(row))
    BY <1>7 DEF StoreRow, Scores
  <2>3. CASE <<k, w>> = <<row.key, row.window>>
    <3>1. row.orders >= SurgeOrders /\ row.key = k
      BY <1>4, <2>1, <2>3
    <3>2. Rules(row) # <<>> /\ \E i \in DOMAIN Rules(row) : Rules(row)[i] = "surge"
      BY <3>1, RulesAnnounce
    <3> QED
      BY <2>2, <3>1, <3>2 DEF After, Announced
  <2>4. CASE <<k, w>> # <<row.key, row.window>>
    <3>1. rows'[<<k, w>>] = rows[<<k, w>>]
      BY <1>4, <2>1, <2>4
    <3> QED
      BY <1>3, <2>1, <3>1 DEF Announced
  <2> QED
    BY <2>3, <2>4
<1>8. CASE InsertAlert
  <2>1. /\ sink = "insert" /\ sink' = "send"
        /\ alerts' = [alerts EXCEPT ![<<row.key, Head(pending)>>] = row.window]
        /\ UNCHANGED <<row, pending, rows>>
    BY <1>8 DEF InsertAlert
  <2>2. row.window \in Windows
    BY <2>1, StreamTypes
  <2>3. row.window # NoAlert
    BY <1>4, <2>2 DEF NoAlert
  <2>4. alerts[<<k, "surge">>] # NoAlert => alerts'[<<k, "surge">>] # NoAlert
    BY <1>4, <2>1, <2>3 DEF Types
  <2> QED
    BY <1>3, <2>1, <2>4 DEF Announced
<1>9. CASE SendAlert
  <2>1. /\ sink = "send" /\ After(Tail(pending)) /\ UNCHANGED <<rows, alerts>>
    BY <1>9 DEF SendAlert, storeVars
  <2>2. pending # <<>> /\ alerts[<<row.key, Head(pending)>>] # NoAlert
    BY <2>1 DEF SInv, SinkInv
  <2>3. CASE alerts[<<k, "surge">>] # NoAlert
    BY <2>1, <2>3
  <2>4. CASE alerts[<<k, "surge">>] = NoAlert
    <3>1. PICK i \in DOMAIN pending : pending[i] = "surge" /\ row.key = k
      BY <1>3, <2>1, <2>4 DEF Announced
    <3>2. i \in 1..Len(pending) /\ Len(pending) \in Nat /\ i # 1
      <4>1. i \in 1..Len(pending) /\ Len(pending) \in Nat
        BY <1>4, LenProperties
      <4>2. Head(pending) = pending[1]
        BY <1>4, <2>2, HeadTailProperties
      <4> QED
        BY <2>2, <2>4, <3>1, <4>1, <4>2
    <3>3. /\ Len(Tail(pending)) = Len(pending) - 1
          /\ Tail(pending)[i - 1] = pending[i]
          /\ i - 1 \in DOMAIN Tail(pending)
          /\ Tail(pending) # <<>>
      BY <1>4, <2>2, <3>2, HeadTailProperties
    <3> QED
      BY <2>1, <3>1, <3>3 DEF After, Announced
  <2> QED
    BY <2>3, <2>4
<1> QED
  BY <1>1, <1>5, <1>6, <1>7, <1>8, <1>9 DEF RunningNext

\* As long as the job runs, a row that surges is announced.
LEMMA SurgeInvariance == PipelineSpec => []SurgeInv
<1>1. PipelineInit => SurgeInv
  <2> SUFFICES ASSUME PipelineInit, NEW k \in Keys, NEW w \in Windows,
                      rows[<<k, w>>] >= SurgeOrders
               PROVE  FALSE
    BY DEF SurgeInv
  <2>1. rows[<<k, w>>] = 0
    BY DEF PipelineInit, StreamInit
  <2> QED
    BY <2>1, StreamAssumption DEF StreamAssumption
<1>2. SInv /\ OInv /\ GInv' /\ SurgeInv /\ [PipelineNext]_pipelineVars => SurgeInv'
  <2>1. CASE SInv /\ OInv /\ SurgeInv /\ JobNext
    BY <2>1, JobKeepsSurges, TopicsAssumption, StreamAssumption
  <2>2. CASE SInv /\ SurgeInv /\ GeneratorNext /\ UNCHANGED jobVars
    <3>1. Uninterrupted' => Uninterrupted
      BY <2>2, GeneratorFaults DEF Uninterrupted, SInv, GInv
    <3> QED
      BY <2>2, <3>1 DEF SurgeInv, Announced, jobVars, taskVars, storeVars
  <2>3. CASE SurgeInv /\ UNCHANGED pipelineVars
    BY <2>3 DEF SurgeInv, Announced, Uninterrupted, pipelineVars, topicVars, jobVars, taskVars,
       storeVars
  <2> QED
    BY <2>1, <2>2, <2>3 DEF PipelineNext
<1> QED
  BY <1>1, <1>2, StreamInvariance, UninterruptedInvariance, GeneratorInvariance, PTL
  DEF PipelineSpec

\* An injected surge is found: its orders are read, counted by the rows of
\* their windows, and too many for every one of these rows to stay below
\* the threshold (producer.py:93-116, job.py:173-188, scoring.py:34-47).
THEOREM SurgesDetected == PipelineSpec => []SurgeDetected
<1>1. SInv /\ OInv /\ SurgeInv => SurgeDetected
  <2> SUFFICES ASSUME SInv, OInv, SurgeInv, NEW l \in labels
               PROVE  LET mine == {p \in Published : p[1] = l.key /\ Event(p).anomaly
                                                      /\ Event(p).at >= l.at}
                      IN  /\ Uninterrupted
                          /\ Cardinality(mine) >
                                (SurgeOrders - 1) * Cardinality({WindowOf(p) : p \in mine})
                          /\ mine \subseteq InTime \ open
                          /\ sink = "idle"
                          /\ detector # "ready"
                          => alerts[<<l.key, "surge">>] # NoAlert
    BY DEF SurgeDetected
  <2> DEFINE k == l.key
             mine == {p \in Published : p[1] = k /\ Event(p).anomaly /\ Event(p).at >= l.at}
             n == SurgeOrders - 1
             f == [p \in mine |-> WindowOf(p)]
             c == Cardinality({WindowOf(p) : p \in mine})
  <2> SUFFICES ASSUME Uninterrupted, mine \subseteq InTime \ open, sink = "idle",
                      detector # "ready", alerts[<<k, "surge">>] = NoAlert
               PROVE  Cardinality(mine) <= n * c /\ Cardinality(mine) \in Int /\ n * c \in Int
    OBVIOUS
  <2>1. k \in Keys /\ n \in Nat /\ SurgeOrders \in Nat
    BY StreamAssumption DEF SInv, GInv, GeneratorTypeOK, StreamAssumption
  <2>2. TopicsTypeOK /\ InTime \in SUBSET Published
    BY DEF SInv, GInv, InTime, Read
  <2>3. IsFiniteSet(mine)
    <3>1. Len(orders[k]) \in Nat
      BY <2>1, <2>2, LenProperties DEF TopicsTypeOK
    <3>2. mine \subseteq {k} \X (1..Len(orders[k]))
      BY DEF Published
    <3> QED
      BY <3>1, <3>2, OfOneKeyFinite
  <2>4. ASSUME NEW w PROVE Cardinality(Fibre(f, mine, w)) <= n
    <3>1. CASE Fibre(f, mine, w) = {}
      <4>1. Cardinality(Fibre(f, mine, w)) = 0
        BY <3>1, FS_EmptySet
      <4> HIDE DEF f, mine, n
      <4> QED
        BY <2>1, <4>1
    <3>2. CASE Fibre(f, mine, w) # {}
      <4>1. PICK p \in mine : WindowOf(p) = w
        BY <3>2 DEF Fibre
      <4>2. w \in Windows
        BY <2>2, <4>1, PublishedEvents, TopicsAssumption, StreamAssumption
      <4>3. row = NoRow
        BY DEF SInv, SinkInv
      <4>4. rows[<<k, w>>] # 0
        BY <4>1, <4>3 DEF OInv, AccountInv, Handled
      <4>5. rows[<<k, w>>] = Cardinality(InWindow(InTime, k, w))
        BY <2>1, <4>2, <4>4 DEF OInv, AccountInv, Counted
      <4>6. ~(rows[<<k, w>>] >= SurgeOrders)
        BY <2>1, <4>2 DEF SurgeInv, Announced
      <4>7. Fibre(f, mine, w) \in SUBSET InWindow(InTime, k, w)
        BY DEF Fibre, InWindow
      <4>8. /\ IsFiniteSet(InWindow(InTime, k, w))
            /\ Cardinality(InWindow(InTime, k, w)) \in Nat
        BY <2>1, <2>2, InWindowFinite, TopicsAssumption, StreamAssumption
      <4>9. /\ Cardinality(Fibre(f, mine, w)) \in Nat
            /\ Cardinality(Fibre(f, mine, w)) <= Cardinality(InWindow(InTime, k, w))
        BY <4>7, <4>8, FS_Subset, FS_CardinalityType
      <4> QED
        BY <2>1, <4>5, <4>6, <4>8, <4>9
    <3> QED
      BY <3>1, <3>2
  <2>5. c = Cardinality(Image(f, mine))
    BY DEF Image
  <2>6. /\ Cardinality(mine) <= n * Cardinality(Image(f, mine))
        /\ IsFiniteSet(Image(f, mine))
    <3> HIDE DEF mine, f, n
    <3> QED
      BY <2>1, <2>3, <2>4, PigeonHole
  <2>7. Cardinality(mine) \in Nat /\ Cardinality(Image(f, mine)) \in Nat
    BY <2>3, <2>6, FS_CardinalityType
  <2>8. n * Cardinality(Image(f, mine)) \in Int
    <3> HIDE DEF n, f, mine
    <3> QED
      BY <2>1, <2>7
  <2> HIDE DEF n, f, c, mine
  <2> QED
    BY <2>5, <2>6, <2>7, <2>8
<1> QED
  BY <1>1, StreamInvariance, UninterruptedInvariance, SurgeInvariance, PTL

-----------------------------------------------------------------------------
(* The abstract counter.                                                   *)

\* The newest event time is that of an order that was read and is valid.
NewestInv == newest # 0 => \E p \in Read \ dead : Event(p).at = newest

LEMMA NewestInvariance == PipelineSpec => []NewestInv
<1>1. PipelineInit => NewestInv
  BY DEF PipelineInit, StreamInit, NewestInv
<1>2. SInv /\ GInv' /\ NewestInv /\ [PipelineNext]_pipelineVars => NewestInv'
  <2> SUFFICES ASSUME SInv, GInv', NewestInv, [PipelineNext]_pipelineVars, newest' # 0
               PROVE  \E p \in Read' \ dead' : Event(p)'.at = newest'
    BY DEF NewestInv
  <2>1. CASE JobNext
    <3>1. Read \subseteq Read' /\ \A p : Event(p)' = Event(p)
      BY <2>1, JobReadsOn, JobKeepsOrders, TopicsAssumption, StreamAssumption
    <3>2. CASE newest' = newest /\ dead' = dead
      BY <3>1, <3>2 DEF NewestInv
    <3>3. ASSUME NEW k \in Keys, ReadOrder(k) \/ Quarantine(k)
          PROVE  \E p \in Read' \ dead' : Event(p)'.at = newest'
      <4> DEFINE p == <<k, offset[k]>>
      <4>1. p \notin Read /\ p \in Read'
        BY <2>1, <3>3, OneMoreRead, TopicsAssumption, StreamAssumption
        DEF ReadOrder, Quarantine
      <4>2. \/ newest' = newest /\ dead' \subseteq dead \cup {p}
            \/ newest' = Event(p).at /\ dead' = dead
        BY <3>3 DEF ReadOrder, Quarantine, storeVars
      <4>3. dead \subseteq Read
        BY DEF SInv, DeadInv
      <4> HIDE DEF p
      <4>4. CASE newest' = newest /\ dead' \subseteq dead \cup {p}
        BY <3>1, <4>1, <4>4 DEF NewestInv
      <4>5. CASE newest' = Event(p).at /\ dead' = dead
        BY <3>1, <4>1, <4>3, <4>5
      <4> QED
        BY <4>2, <4>4, <4>5
    <3> QED
      BY <2>1, <3>2, <3>3 DEF JobNext, EmitWatermark, Fire, StoreRow, InsertAlert, SendAlert,
         Deliver, DeliveryFails, Crash, Cancel, Fresh, Submit, storeVars
  <2>2. CASE GeneratorNext /\ UNCHANGED jobVars
    <3>1. OrdersKept /\ UNCHANGED <<newest, offset, dead>>
      BY <2>2, GeneratorKeepsOrders, TopicsAssumption, StreamAssumption
      DEF SInv, jobVars, taskVars, storeVars
    <3>2. Read' = Read
      BY <3>1, ReadStays, TopicsAssumption, StreamAssumption
    <3> QED
      BY <3>1, <3>2 DEF NewestInv, OrdersKept, Read
  <2>3. CASE UNCHANGED pipelineVars
    BY <2>3 DEF NewestInv, Read, Published, Event, pipelineVars, topicVars, jobVars,
       taskVars, storeVars
  <2> QED
    BY <2>1, <2>2, <2>3 DEF PipelineNext
<1> QED
  BY <1>1, <1>2, StreamInvariance, GeneratorInvariance, PTL DEF PipelineSpec

\* A step that publishes, reads and stores nothing is not visible.
LEMMA QuietStep ==
    ASSUME orders' = orders, Uninterrupted' = Uninterrupted,
           UNCHANGED <<offset, late, dead, rows>>
    PROVE  UNCHANGED Counts!countVars
<1>1. Published' = Published /\ InTime' = InTime /\ \A p : WindowOf(p)' = WindowOf(p)
  BY DEF Published, InTime, Read, WindowOf, Window, Event
<1>2. /\ ByCell(Published)' = ByCell(Published)
      /\ ByCell(InTime)' = ByCell(InTime)
      /\ ByCell(late)' = ByCell(late)
      /\ ByCell(dead)' = ByCell(dead)
  BY <1>1 DEF ByCell, InWindow
<1> QED
  BY <1>2 DEF Counts!countVars

\* What the generator sends is published, and nothing else changes.
LEMMA GeneratorPublishes ==
    ASSUME TopicsAssumption, StreamAssumption, SInv, GInv', OrdersKept,
           UNCHANGED <<offset, late, dead, rows>>, Uninterrupted, Uninterrupted'
    PROVE  Counts!Publish
<1>1. InTime' = InTime
  BY ReadStays DEF InTime
<1>2. InTime \cup late \cup dead \subseteq Published
  BY DEF InTime, Read, SInv, ReadInv, DeadInv
<1>3. /\ ByCell(InTime)' = ByCell(InTime)
      /\ ByCell(late)' = ByCell(late)
      /\ ByCell(dead)' = ByCell(dead)
  <2>1. \A p \in Published : WindowOf(p)' = WindowOf(p)
    BY DEF OrdersKept, WindowOf, Window
  <2> QED
    BY <1>1, <1>2, <2>1 DEF ByCell, InWindow
<1>4. ASSUME NEW x \in Keys \X Windows
      PROVE  ByCell(Published)[x] \subseteq ByCell(Published)'[x]
  BY DEF ByCell, InWindow, OrdersKept, WindowOf, Window
<1> QED
  BY <1>3, <1>4 DEF Counts!Publish, Counts!Cells

\* The instance has its own copy of the operator.
LEMMA CountsCardinality == \A S : Counts!Cardinality(S) = Cardinality(S)
BY Zenon DEF Counts!Cardinality, Cardinality

\* Once the job was interrupted, only the published orders bound the rows.
LEMMA DisturbedStep ==
    ASSUME OrdersKept, SInv', ~Uninterrupted'
    PROVE  Counts!Disturbed
<1>1. ASSUME NEW x \in Keys \X Windows
      PROVE  /\ ByCell(Published)[x] \subseteq ByCell(Published)'[x]
             /\ rows'[x] <= Cardinality(ByCell(Published)'[x])
  <2>1. ByCell(Published)[x] \subseteq ByCell(Published)'[x]
    BY DEF ByCell, InWindow, OrdersKept, WindowOf, Window
  <2>2. x[1] \in Keys /\ x[2] \in Windows /\ x = <<x[1], x[2]>>
    OBVIOUS
  <2>3. rows'[<<x[1], x[2]>>] <= Cardinality(InWindow(Published, x[1], x[2]))'
    BY <2>2 DEF SInv, CountInv, NeverOvercounted
  <2>4. ByCell(Published)'[x] = InWindow(Published, x[1], x[2])'
    BY DEF ByCell
  <2> QED
    BY <2>1, <2>2, <2>3, <2>4
<1> QED
  BY <1>1, CountsCardinality DEF Counts!Disturbed, Counts!Cells

\* A window that is closed lies before that of the newest event.
LEMMA NewestAhead ==
    ASSUME TopicsAssumption, StreamAssumption, SInv, NEW v \in Nat, Closed(v)
    PROVE  newest # 0 /\ v < Window(newest)
<1>1. /\ newest \in Nat /\ watermark \in Int /\ watermark <= newest - Lateness - 1
      /\ Lateness \in Nat
  BY StreamTypes DEF SInv, ReadInv, StreamAssumption
<1>2. WindowEnd(v) \in Int /\ WindowEnd(v) - 1 <= watermark
  BY EndsAscend DEF Closed
<1>3. WindowEnd(v) <= newest
  BY <1>1, <1>2
<1>4. Window(newest) \in Nat /\ newest < WindowEnd(Window(newest))
  BY <1>1, WindowProperties
<1>5. ~(Window(newest) <= v)
  <2>1. SUFFICES ASSUME Window(newest) <= v PROVE FALSE
    OBVIOUS
  <2>2. WindowEnd(Window(newest)) <= WindowEnd(v) /\ WindowEnd(Window(newest)) \in Int
    BY <1>4, <2>1, EndsAscend
  <2> QED
    BY <1>1, <1>2, <1>3, <1>4, <2>2
<1>6. newest # 0
  <2>1. WindowEnd(0) <= WindowEnd(v) /\ WindowEnd(0) \in Int
    BY EndsAscend
  <2>2. WindowEnd(0) = WindowSize /\ WindowSize \in Nat \ {0}
    BY DEF WindowEnd, StreamAssumption
  <2> QED
    BY <1>1, <1>2, <1>3, <2>1, <2>2
<1> QED
  BY <1>4, <1>5, <1>6

\* An order that enters one of the sets of the account enters its cell.
LEMMA CellGrows ==
    ASSUME NEW S, NEW x \in Keys \X Windows, NEW p, p[1] = x[1], WindowOf(p) = x[2]
    PROVE  ByCell(S \cup {p}) = [ByCell(S) EXCEPT ![x] = @ \cup {p}]
<1>1. ASSUME NEW y \in Keys \X Windows
      PROVE  InWindow(S \cup {p}, y[1], y[2]) = IF y = x THEN InWindow(S, y[1], y[2]) \cup {p}
                                                       ELSE InWindow(S, y[1], y[2])
  BY DEF InWindow
<1> QED
  BY <1>1 DEF ByCell

\* An order that is read is taken, into a window after all that are counted,
\* dropped, behind the window of the newest, or refused.
LEMMA ReadingRefines ==
    ASSUME TopicsAssumption, StreamAssumption, SInv, OInv, NewestInv, JobNext,
           Uninterrupted, Uninterrupted',
           NEW k \in Keys, ReadOrder(k) \/ Quarantine(k)
    PROVE  \E x \in Counts!Cells : \E o \in Counts!Unread(x) :
              Counts!Take(x, o) \/ Counts!Drop(x, o) \/ Counts!Refuse(x, o)
<1> DEFINE p == <<k, offset[k]>>
           v == WindowOf(p)
           x == <<k, v>>
<1>1. /\ Published' = Published /\ \A q : WindowOf(q)' = WindowOf(q)
      /\ UNCHANGED rows
  BY JobKeepsOrders DEF ReadOrder, Quarantine, storeVars, WindowOf, Window
<1>2. p \in Published /\ p \notin Read /\ Read' = Read \cup {p}
  BY OneMoreRead DEF ReadOrder, Quarantine
<1>3. late \subseteq Read /\ dead \subseteq Read /\ Read \subseteq Published
  BY DEF SInv, ReadInv, DeadInv, Read
<1>4. k \in Keys /\ v \in Windows /\ v \in Nat /\ x \in Keys \X Windows
  BY <1>2, PublishedEvents DEF SInv, GInv
<1>5. /\ ByCell(Published)' = ByCell(Published)
      /\ \A S : InTime' = S => ByCell(InTime)' = ByCell(S)
      /\ \A S : late' = S => ByCell(late)' = ByCell(S)
      /\ \A S : dead' = S => ByCell(dead)' = ByCell(S)
      /\ (~Uninterrupted)' = ~Uninterrupted
  BY <1>1 DEF ByCell, InWindow
<1>6. p \in Counts!Unread(x) /\ x \in Counts!Cells
  BY <1>2, <1>3, <1>4 DEF Counts!Unread, Counts!Cells, InTime, ByCell, InWindow
<1>7. p[1] = x[1] /\ WindowOf(p) = x[2]
  OBVIOUS
<1> SUFFICES Counts!Take(x, p) \/ Counts!Drop(x, p) \/ Counts!Refuse(x, p)
  BY <1>6
<1>8. CASE late' = late \cup {p} /\ dead' = dead /\ Closed(v)
  <2>1. InTime' = InTime
    BY <1>2, <1>3, <1>8 DEF InTime
  <2>2. ByCell(late)' = [ByCell(late) EXCEPT ![x] = @ \cup {p}]
    <3> HIDE DEF x, p, v
    <3>1. ByCell(late)' = ByCell(late \cup {p})
      BY <1>5, <1>8
    <3>2. ByCell(late \cup {p}) = [ByCell(late) EXCEPT ![x] = @ \cup {p}]
      BY <1>4, <1>7, CellGrows
    <3> QED
      BY <3>1, <3>2
  <2>3. \E y \in Keys \X Windows :
           y[2] > x[2] /\ ByCell(InTime)[y] \cup ByCell(late)[y] # {}
    <3>1. newest # 0 /\ v < Window(newest)
      BY <1>4, <1>8, NewestAhead
    <3>2. PICK q \in Read \ dead : Event(q).at = newest
      BY <3>1 DEF NewestInv
    <3> DEFINE y == <<q[1], WindowOf(q)>>
    <3>3. y \in Keys \X Windows /\ WindowOf(q) = Window(newest) /\ WindowOf(q) \in Nat
      BY <1>3, <3>2, PublishedEvents DEF SInv, GInv, WindowOf
    <3>4. q \in ByCell(InTime)[y] \cup ByCell(late)[y]
      BY <3>3 DEF ByCell, InWindow, InTime
    <3>5. y[2] > x[2]
      BY <1>4, <3>1, <3>3
    <3> QED
      BY <3>3, <3>4, <3>5
  <2>4. Counts!Drop(x, p)
    <3> HIDE DEF x, p
    <3> QED
      BY <1>1, <1>5, <1>8, <2>1, <2>2, <2>3 DEF Counts!Drop, Counts!Cells
  <2> QED
    BY <2>4
<1>9. CASE late' = late /\ dead' = dead /\ ~Closed(v)
  <2>1. InTime' = InTime \cup {p}
    BY <1>2, <1>3, <1>9 DEF InTime
  <2>2. ByCell(InTime)' = [ByCell(InTime) EXCEPT ![x] = @ \cup {p}]
    <3> HIDE DEF x, p, v
    <3>1. ByCell(InTime)' = ByCell(InTime \cup {p})
      BY <1>5, <2>1
    <3>2. ByCell(InTime \cup {p}) = [ByCell(InTime) EXCEPT ![x] = @ \cup {p}]
      BY <1>4, <1>7, CellGrows
    <3> QED
      BY <3>1, <3>2
  <2>3. \A y \in Keys \X Windows : rows[y] # 0 => y[2] < x[2]
    <3> SUFFICES ASSUME NEW y \in Keys \X Windows, rows[y] # 0
                 PROVE  y[2] < x[2]
      OBVIOUS
    <3>1. Closed(y[2])
      BY DEF OInv, OrderInv
    <3>2. y[2] \in Nat /\ watermark \in Int
      BY HeldWindows, StreamTypes
    <3> QED
      BY <1>4, <1>9, <3>1, <3>2, ClosedBefore
  <2>4. Counts!Take(x, p)
    <3> HIDE DEF x, p
    <3> QED
      BY <1>1, <1>5, <1>9, <2>2, <2>3 DEF Counts!Take, Counts!Cells
  <2> QED
    BY <2>4
<1>10. CASE late' = late /\ dead' = dead \cup {p}
  <2>1. InTime' = InTime
    BY <1>2, <1>3, <1>10 DEF InTime
  <2>2. ByCell(dead)' = [ByCell(dead) EXCEPT ![x] = @ \cup {p}]
    <3> HIDE DEF x, p, v
    <3>1. ByCell(dead)' = ByCell(dead \cup {p})
      BY <1>5, <1>10
    <3>2. ByCell(dead \cup {p}) = [ByCell(dead) EXCEPT ![x] = @ \cup {p}]
      BY <1>4, <1>7, CellGrows
    <3> QED
      BY <3>1, <3>2
  <2>3. Counts!Refuse(x, p)
    <3> HIDE DEF x, p
    <3> QED
      BY <1>1, <1>5, <1>10, <2>1, <2>2 DEF Counts!Refuse
  <2> QED
    BY <2>3
<1> QED
  BY <1>8, <1>9, <1>10 DEF ReadOrder, Quarantine, storeVars

\* A row that is stored counts its window, the earlier ones being counted;
\* to store it again would change nothing.
LEMMA StoringRefines ==
    ASSUME TopicsAssumption, StreamAssumption, SInv, OInv, Uninterrupted, StoreRow
    PROVE  \/ UNCHANGED Counts!countVars
           \/ \E x \in Keys \X Windows : Counts!Count(x)
<1> DEFINE x == <<row.key, row.window>>
           mine == InWindow(InTime, row.key, row.window)
<1>1. /\ sink = "row" /\ x \in Keys \X Windows /\ row.window \in Nat
      /\ row.orders \in Nat \ {0}
      /\ rows' = [rows EXCEPT ![x] = row.orders] /\ rows \in [Keys \X Windows -> Nat]
      /\ UNCHANGED <<orders, offset, late, dead, faults>>
  BY StreamTypes, HeldWindows DEF StoreRow, topicVars
<1>2. row.orders = Cardinality(mine)
  BY <1>1 DEF OInv, AccountInv, Counted
<1>3. CASE rows[x] # 0
  <2>1. rows[x] = row.orders
    BY <1>1, <1>2, <1>3 DEF OInv, AccountInv, Counted
  <2>2. rows' = rows
    BY <1>1, <2>1
  <2> QED
    BY <1>1, <2>2, QuietStep DEF Uninterrupted
<1>4. CASE rows[x] = 0
  <2>1. mine # {}
    <3>1. Cardinality({}) = 0
      BY FS_EmptySet
    <3> QED
      BY <1>1, <1>2, <3>1
  <2>2. ByCell(InTime)[x] = mine
    BY <1>1 DEF ByCell
  <2>3. \A y \in Keys \X Windows :
           y[2] < x[2] /\ ByCell(InTime)[y] # {} => rows[y] # 0
    <3> SUFFICES ASSUME NEW y \in Keys \X Windows, y[2] < x[2],
                        ByCell(InTime)[y] # {}
                 PROVE  rows[y] # 0
      OBVIOUS
    <3>1. PICK q \in InTime : q[1] = y[1] /\ WindowOf(q) = y[2]
      BY DEF ByCell, InWindow
    <3>2. y = <<q[1], WindowOf(q)>> /\ y[2] \in Nat
      BY <3>1, HeldWindows
    <3>3. q \notin open
      BY <1>1, <3>1, <3>2 DEF OInv, OrderInv
    <3>4. \/ rows[<<q[1], WindowOf(q)>>] # 0
          \/ row.window = WindowOf(q)
      BY <3>1, <3>3 DEF OInv, AccountInv, Handled
    <3> QED
      BY <1>1, <3>1, <3>2, <3>4
  <2>4. /\ ByCell(Published)' = ByCell(Published)
        /\ ByCell(InTime)' = ByCell(InTime)
        /\ ByCell(late)' = ByCell(late)
        /\ ByCell(dead)' = ByCell(dead)
        /\ (~Uninterrupted)' = ~Uninterrupted
    BY <1>1 DEF ByCell, InWindow, Published, InTime, Read, WindowOf, Window, Event, Uninterrupted
  <2>5. rows' = [rows EXCEPT ![x] = Counts!Cardinality(ByCell(InTime)[x])]
    BY <1>1, <1>2, <2>2, CountsCardinality
  <2>6. Counts!Count(x)
    <3> HIDE DEF x, mine
    <3> QED
      BY <1>4, <2>1, <2>2, <2>3, <2>4, <2>5 DEF Counts!Count, Counts!Cells
  <2> QED
    BY <1>1, <2>6
<1> QED
  BY <1>3, <1>4

LEMMA InitRefinesCounts ==
    ASSUME PipelineInit
    PROVE  Counts!CountsInit
<1>1. \A k \in Keys : orders[k] = <<>> /\ Len(<<>>) = 0
  BY EmptySeq DEF PipelineInit, TopicsInit
<1>2. \A k \in Keys : {k} \X (1..Len(orders[k])) = {}
  BY <1>1
<1>3. Published = {} /\ InTime = {} /\ late = {} /\ dead = {}
  BY <1>2 DEF Published, InTime, Read, PipelineInit, StreamInit
<1>4. ByCell({}) = [x \in Keys \X Windows |-> {}]
  BY DEF ByCell, InWindow
<1>5. rows = [x \in Keys \X Windows |-> 0] /\ Uninterrupted
  BY DEF PipelineInit, StreamInit, TopicsInit, Uninterrupted
<1> QED
  BY <1>3, <1>4, <1>5 DEF Counts!CountsInit, Counts!Cells

\* Every step of generator and job is one of the abstract counter, or none.
LEMMA NextRefinesCounts ==
    ASSUME TopicsAssumption, StreamAssumption, SInv, SInv', OInv, NewestInv,
           [PipelineNext]_pipelineVars
    PROVE  [Counts!CountsNext]_(Counts!countVars)
<1>1. GInv'
  BY DEF SInv
<1>2. CASE UNCHANGED pipelineVars
  BY <1>2, QuietStep DEF pipelineVars, topicVars, jobVars, taskVars, storeVars, Uninterrupted
<1>3. CASE GeneratorNext /\ UNCHANGED jobVars
  <2>1. OrdersKept
    BY <1>3, GeneratorKeepsOrders DEF SInv
  <2>2. CASE ~Uninterrupted'
    BY <2>1, <2>2, DisturbedStep DEF Counts!CountsNext
  <2>3. CASE Uninterrupted'
    <3>1. Uninterrupted
      BY <1>3, <2>3, GeneratorFaults DEF Uninterrupted, SInv, GInv
    <3>2. Counts!Publish
      BY <1>1, <1>3, <2>1, <2>3, <3>1, GeneratorPublishes DEF jobVars, taskVars, storeVars
    <3> QED
      BY <3>2 DEF Counts!CountsNext
  <2> QED
    BY <2>2, <2>3
<1>4. CASE JobNext
  <2>1. OrdersKept /\ orders' = orders
    BY <1>4, JobKeepsOrders
  <2>2. CASE ~Uninterrupted'
    BY <2>1, <2>2, DisturbedStep DEF Counts!CountsNext
  <2>3. CASE Uninterrupted'
    <3>1. Uninterrupted /\ RunningNext
      BY <1>4, <2>3, UninterruptedSteps
    <3>2. CASE \E k \in Keys : ReadOrder(k) \/ Quarantine(k)
      <4>1. \E x \in Counts!Cells : \E o \in Counts!Unread(x) :
               Counts!Take(x, o) \/ Counts!Drop(x, o) \/ Counts!Refuse(x, o)
        BY <1>4, <2>3, <3>1, <3>2, ReadingRefines
      <4> QED
        BY <4>1 DEF Counts!CountsNext
    <3>3. CASE StoreRow
      <4>1. \/ UNCHANGED Counts!countVars
            \/ \E x \in Counts!Cells : Counts!Count(x)
        BY <3>1, <3>3, StoringRefines DEF Counts!Cells
      <4> QED
        BY <4>1 DEF Counts!CountsNext
    <3>4. CASE EmitWatermark \/ Fire \/ InsertAlert \/ SendAlert \/ Deliver \/ DeliveryFails
      <4>1. UNCHANGED <<offset, late, dead, rows>>
        BY <3>4 DEF EmitWatermark, Fire, InsertAlert, SendAlert, Deliver, DeliveryFails, storeVars
      <4> QED
        BY <2>1, <2>3, <3>1, <4>1, QuietStep
    <3> QED
      BY <3>1, <3>2, <3>3, <3>4 DEF RunningNext
  <2> QED
    BY <2>2, <2>3
<1> QED
  BY <1>2, <1>3, <1>4 DEF PipelineNext

\* Generator and job together implement the tumbling-window counter: while
\* nothing fails every row is the final count of the orders of its window
\* that came in time, published in window order (job.py:173-188, 321-358);
\* whatever fails, no row exceeds what was published for its window.
THEOREM CountsImplemented == PipelineSpec => ImplementsCounts
<1>1. PipelineInit => Counts!CountsInit
  BY InitRefinesCounts
<1>2. SInv /\ SInv' /\ OInv /\ NewestInv /\ [PipelineNext]_pipelineVars
         => [Counts!CountsNext]_(Counts!countVars)
  BY NextRefinesCounts, TopicsAssumption, StreamAssumption
<1> QED
  BY <1>1, <1>2, StreamInvariance, UninterruptedInvariance, NewestInvariance, PTL
  DEF PipelineSpec, ImplementsCounts, Counts!CountsSpec

\* TLC publishes every order before the job reads any; what it runs is a
\* behaviour of the generator and the job.
THEOREM LaggingIsPipeline == LaggingSpec => PipelineSpec
<1>1. [LaggingNext]_pipelineVars => [PipelineNext]_pipelineVars
  BY DEF LaggingNext, PipelineNext, GeneratorNext
<1> QED
  BY <1>1, PTL DEF LaggingSpec, PipelineSpec

=============================================================================
