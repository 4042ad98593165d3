------------------------ MODULE SerialPromotionProofs ------------------------
(***************************************************************************)
(* What promote_if_better keeps when its calls come one after the other,   *)
(* as they do when one schedule is all that trains a model: the policy of  *)
(* its module comment, for every cooldown, every set of metrics and both   *)
(* directions of the comparison.  TLC checks the same on small instances   *)
(* (PromotionSerial.cfg), and shows that each assumption is needed         *)
(* (RaceBreaksGate.cfg, OutageBreaksGate.cfg).                             *)
(***************************************************************************)
EXTENDS PromotionProofs

\* Calls do not overlap, run to their end and read the registry correctly;
\* the archive loop may fail.  Every candidate has logged its metric.
SerialCalls ==
    /\ \A p, q \in Promoters : p = q
    /\ Faults \subseteq {"archive"}
    /\ NoMetric \notin Candidates

-----------------------------------------------------------------------------
(* The inductive invariant.                                                *)

Latest == promoted[Len(promoted)]

\* A version leaves stage None by its promotion.
StagedWerePromoted ==
    \A v \in Versions :
        registry[v].stage # "None" =>
            \E i \in DOMAIN promoted : promoted[i].version = v

\* Later promotions are of later versions, and the candidate is newer still:
\* this is why the highest-numbered Production version is the latest.
PromotedInOrder ==
    /\ \A i, j \in DOMAIN promoted :
          i < j => promoted[i].version < promoted[j].version
    /\ \A p \in Promoters : attempt[p].pc \in Waiting =>
          \A i \in DOMAIN promoted :
              promoted[i].version < attempt[p].version

\* The latest promotion is in Production until its successor archives it.
LatestInProduction ==
    promoted # <<>> =>
        \/ Latest.version \in InProduction
        \/ \E p \in Promoters : At(p, "promote")

\* Metrics are logged, and the candidate's is the one registered for it.
MetricsLogged ==
    /\ \A p \in Promoters : ~ At(p, "idle") => attempt[p].metric \in Metrics
    /\ \A p \in Promoters : attempt[p].pc \in Waiting =>
          registry[attempt[p].version].metric = attempt[p].metric
    /\ \A i \in DOMAIN promoted : MetricOf(i) \in Metrics

\* A call past the gate has a candidate that beats the latest promotion.
GatePassed ==
    \A p \in Promoters :
        attempt[p].pc \in Waiting \cup {"register"} /\ promoted # <<>> =>
            Beats(attempt[p].metric, MetricOf(Len(promoted)))

\* Outside the recording of a promotion, the sentinel holds a time not
\* earlier than the latest promotion.
PromotionRecorded ==
    IF promoted = <<>>
    THEN sentinel = Absent /\ \A p \in Promoters : attempt[p].pc \notin Recording
    ELSE /\ Latest.at <= now
         /\ \A p \in Promoters : At(p, "write") => attempt[p].stamp >= Latest.at
         /\ \/ sentinel \in Nat /\ sentinel >= Latest.at
            \/ \E p \in Promoters : attempt[p].pc \in Recording

\* A call past the cooldown check is a cooldown after the latest promotion.
CooldownPassed ==
    \A p \in Promoters :
        attempt[p].pc \in Waiting \cup {"read", "register"} /\ promoted # <<>> =>
            now - Latest.at >= Cooldown

\* The sentinel is blank or, after a promotion, missing only while the call
\* that promoted is about to write it.
SentinelHeals ==
    /\ sentinel = Blank => \E p \in Promoters : At(p, "write")
    /\ sentinel = Absent /\ promoted # <<>> =>
          \E p \in Promoters : At(p, "truncate")

SerialInv ==
    /\ Inv
    /\ StagedWerePromoted
    /\ PromotedInOrder
    /\ LatestInProduction
    /\ MetricsLogged
    /\ GatePassed
    /\ PromotionRecorded
    /\ CooldownPassed
    /\ SentinelHeals
    /\ EveryPromotionImproves
    /\ PromotionsSpaced

-----------------------------------------------------------------------------
(* What the invariant says between the steps.                              *)

LEMMA TypesOfState ==
    ASSUME Inv
    PROVE  /\ registry \in Seq(ModelVersion)
           /\ attempt \in [Promoters -> Attempts]
           /\ promoted \in Seq([version : Nat, at : Nat])
           /\ now \in Nat
           /\ sentinel \in Nat \cup {Absent, Blank}
           /\ Len(registry) \in Nat /\ Versions = 1..Len(registry)
           /\ Len(promoted) \in Nat /\ DOMAIN promoted = 1..Len(promoted)
           /\ promoted # <<>> =>
                 Len(promoted) \in DOMAIN promoted /\ Latest.at \in Nat
           /\ \A i \in DOMAIN promoted :
                 promoted[i].version \in Nat /\ promoted[i].at \in Nat
<1>1. /\ registry \in Seq(ModelVersion)
      /\ attempt \in [Promoters -> Attempts]
      /\ promoted \in Seq([version : Nat, at : Nat])
      /\ now \in Nat
      /\ sentinel \in Nat \cup {Absent, Blank}
  BY DEF Inv, TypeOK
<1>2. /\ Len(registry) \in Nat /\ Versions = 1..Len(registry)
      /\ Len(promoted) \in Nat /\ DOMAIN promoted = 1..Len(promoted)
  BY <1>1, LenProperties DEF Versions
<1>3. \A i \in DOMAIN promoted : promoted[i] \in [version : Nat, at : Nat]
  BY <1>1, <1>2, ElementOfSeq
<1>4. promoted # <<>> => Len(promoted) \in DOMAIN promoted
  BY <1>1, <1>2, EmptySeq
<1> QED
  BY <1>1, <1>2, <1>3, <1>4 DEF Latest

\* Between promotions the look-up finds the latest promotion: it is in
\* Production, and whatever else is there was promoted before it.
LEMMA LookUpFindsLatest ==
    ASSUME SerialInv, \A p \in Promoters : ~ At(p, "promote")
    PROVE  /\ promoted # <<>> => LatestProduction = Latest.version
           /\ promoted = <<>> => LatestProduction = NoVersion
<1> USE DEF SerialInv
<1>1. /\ LatestProduction = NoVersion <=> InProduction = {}
      /\ InProduction # {} => LatestProduction \in InProduction
      /\ \A v \in InProduction : v <= LatestProduction
      /\ LatestProduction \in Nat
  BY TypesOfState, LatestIsInProduction
<1>2. \A v \in InProduction : \E i \in DOMAIN promoted : promoted[i].version = v
  BY DEF InProduction, StagedWerePromoted
<1>3. CASE promoted # <<>>
  <2>1. Latest.version \in InProduction
    BY <1>3 DEF LatestInProduction
  <2>2. PICK i \in DOMAIN promoted : promoted[i].version = LatestProduction
    BY <1>1, <1>2, <2>1
  <2>3. i = Len(promoted) \/ i < Len(promoted)
    BY TypesOfState
  <2>4. LatestProduction <= Latest.version
    BY <1>3, <2>2, <2>3, TypesOfState DEF PromotedInOrder, Latest
  <2>5. Latest.version \in Nat /\ Latest.version <= LatestProduction
    BY <1>1, <1>3, <2>1, TypesOfState DEF Latest
  <2> QED
    BY <1>1, <1>3, <2>4, <2>5
<1>4. CASE promoted = <<>>
  BY <1>1, <1>2, <1>4, TypesOfState
<1> QED
  BY <1>3, <1>4

-----------------------------------------------------------------------------
(* The steps of the call in flight.                                        *)

\* Steps that leave the registry and the history alone.
LEMMA SerialLocalStep ==
    ASSUME SerialCalls, SerialInv, Inv',
           NEW p \in Promoters,
           UNCHANGED <<registry, promoted>>,
           attempt[p].pc = "promote" => attempt'[p].pc = "promote",
           attempt'[p].pc \in Waiting =>
               /\ attempt[p].pc \in Waiting
               /\ attempt'[p].version = attempt[p].version
               /\ attempt'[p].metric = attempt[p].metric,
           attempt'[p].pc # "idle" => attempt'[p].metric \in Metrics,
           GatePassed', PromotionRecorded', CooldownPassed', SentinelHeals'
    PROVE  SerialInv'
<1> USE DEF SerialInv
<1>1. \A q \in Promoters : q = p
  BY DEF SerialCalls
<1>2. StagedWerePromoted' /\ EveryPromotionImproves' /\ PromotionsSpaced'
  BY DEF StagedWerePromoted, EveryPromotionImproves, PromotionsSpaced, MetricOf,
         Versions
<1>3. PromotedInOrder'
  BY <1>1 DEF PromotedInOrder
<1>4. LatestInProduction'
  BY <1>1 DEF LatestInProduction, At, InProduction, Versions, Latest
<1>5. MetricsLogged'
  BY <1>1 DEF MetricsLogged, MetricOf, At
<1> QED
  BY <1>2, <1>3, <1>4, <1>5

LEMMA CheckCooldownSerially ==
    ASSUME SerialCalls, SerialInv, Inv', NEW p \in Promoters, CheckCooldown(p)
    PROVE  SerialInv'
<1> USE DEF SerialInv
<1>1. \A q \in Promoters : q = p
  BY DEF SerialCalls
<1>2. /\ attempt[p].pc = "idle"
      /\ UNCHANGED <<registry, now, sentinel, promoted>>
  BY DEF CheckCooldown, At
<1>3. PICK m \in Candidates :
         IF InCooldown \/ sentinel = Blank
         THEN Return(p)
         ELSE attempt' = [attempt EXCEPT ![p].pc = "read", ![p].metric = m]
  BY DEF CheckCooldown
<1>4. CASE InCooldown \/ sentinel = Blank
  <2>1. attempt'[p].pc = "idle"
    BY <1>3, <1>4, TypesOfState, ReturnIdles DEF Idle
  <2>2. GatePassed' /\ CooldownPassed'
    BY <1>1, <2>1 DEF GatePassed, CooldownPassed, Waiting
  <2>3. PromotionRecorded'
    BY <1>1, <1>2, <2>1 DEF PromotionRecorded, Recording, At, Latest
  <2>4. SentinelHeals'
    BY <1>1, <1>2, <2>1 DEF SentinelHeals, At
  <2> QED
    BY <1>2, <2>1, <2>2, <2>3, <2>4, SerialLocalStep DEF Waiting
<1>5. CASE ~ (InCooldown \/ sentinel = Blank)
  <2>1. attempt' = [attempt EXCEPT ![p].pc = "read", ![p].metric = m]
    BY <1>3, <1>5
  <2>2. attempt'[p].pc = "read" /\ attempt'[p].metric = m
    BY <2>1, TypesOfState DEF Attempts
  <2>3. m \in Metrics
    BY PromotionAssumption DEF SerialCalls, LoggedMetrics
  <2>4. GatePassed'
    BY <1>1, <2>2 DEF GatePassed, Waiting
  <2>5. promoted # <<>> => sentinel \in Nat /\ sentinel >= Latest.at
    BY <1>1, <1>2 DEF PromotionRecorded, Recording
  <2>6. CooldownPassed'
    <3>1. promoted # <<>> => now - sentinel >= Cooldown
      BY <1>5, <2>5, TypesOfState, PromotionAssumption DEF InCooldown
    <3>2. promoted # <<>> => now - Latest.at >= Cooldown
      BY <2>5, <3>1, TypesOfState, PromotionAssumption
    <3> QED
      BY <1>2, <3>2 DEF CooldownPassed, Latest
  <2>7. PromotionRecorded'
    BY <1>1, <1>2, <2>2 DEF PromotionRecorded, Recording, At, Latest
  <2>8. SentinelHeals'
    BY <1>1, <1>2, <2>2 DEF SentinelHeals, At
  <2> QED
    BY <1>2, <2>2, <2>3, <2>4, <2>6, <2>7, <2>8, SerialLocalStep DEF Waiting
<1> QED
  BY <1>4, <1>5

LEMMA ReadIncumbentSerially ==
    ASSUME SerialCalls, SerialInv, Inv', NEW p \in Promoters, ReadIncumbent(p)
    PROVE  SerialInv'
<1> USE DEF SerialInv
<1>1. \A q \in Promoters : q = p
  BY DEF SerialCalls
<1>2. /\ attempt[p].pc = "read"
      /\ UNCHANGED <<registry, now, sentinel, promoted>>
  BY DEF ReadIncumbent, At
<1>3. PICK incumbent \in IncumbentReadings :
         IF Qualifies(attempt[p].metric, incumbent)
         THEN Goto(p, "register")
         ELSE Return(p)
  BY DEF ReadIncumbent
<1>4. attempt[p].metric \in Metrics
  BY <1>2 DEF MetricsLogged, At
<1>5. /\ attempt'[p].metric = attempt[p].metric
      /\ attempt'[p].pc = "register"
      /\ Qualifies(attempt[p].metric, incumbent)
      \/ attempt'[p].pc = "idle"
  <2>1. Goto(p, "register") => attempt'[p].metric = attempt[p].metric
                               /\ attempt'[p].pc = "register"
    BY TypesOfState, GotoMoves DEF PCs
  <2>2. Return(p) => attempt'[p].pc = "idle"
    BY TypesOfState, ReturnIdles DEF Idle
  <2> QED
    BY <1>3, <2>1, <2>2
<1>6. GatePassed'
  <2>1. incumbent = IncumbentMetric
    BY DEF SerialCalls, IncumbentReadings
  <2>2. promoted # <<>> => incumbent = MetricOf(Len(promoted))
    <3>1. promoted # <<>> => Latest.version # NoVersion
      BY TypesOfState DEF Inv, PromotedVersions, Latest, NoVersion
    <3> QED
      BY <1>1, <1>2, <2>1, <3>1, LookUpFindsLatest
         DEF IncumbentMetric, MetricOf, Latest, At
  <2>3. promoted # <<>> => incumbent # NoMetric
    BY <2>2, TypesOfState, MetricAssumption DEF MetricsLogged
  <2>4. CASE attempt'[p].pc = "idle"
    BY <1>1, <2>4 DEF GatePassed, Waiting
  <2>5. CASE /\ attempt'[p].metric = attempt[p].metric
             /\ Qualifies(attempt[p].metric, incumbent)
    <3>1. promoted # <<>> => Beats(attempt[p].metric, MetricOf(Len(promoted)))
      BY <2>2, <2>3, <2>5 DEF Qualifies
    <3>2. UNCHANGED MetricOf(Len(promoted))
      BY <1>2 DEF MetricOf
    <3> QED
      BY <1>1, <1>2, <2>5, <3>1, <3>2 DEF GatePassed, Beats
  <2> QED
    BY <1>5, <2>4, <2>5
<1>7. CooldownPassed'
  BY <1>1, <1>2, <1>5 DEF CooldownPassed, Waiting, Latest
<1>8. PromotionRecorded'
  BY <1>1, <1>2, <1>5 DEF PromotionRecorded, Recording, At, Latest
<1>9. SentinelHeals'
  BY <1>1, <1>2, <1>5 DEF SentinelHeals, At
<1> QED
  BY <1>2, <1>4, <1>5, <1>6, <1>7, <1>8, <1>9, SerialLocalStep DEF Waiting

\* The version registered is newer than all that were promoted.
LEMMA RegisterSerially ==
    ASSUME SerialCalls, SerialInv, Inv', NEW p \in Promoters, Register(p)
    PROVE  SerialInv'
<1> USE DEF SerialInv
<1>1. \A q \in Promoters : q = p
  BY DEF SerialCalls
<1>2. /\ attempt[p].pc = "register"
      /\ UNCHANGED <<now, sentinel, promoted>>
  BY DEF Register, At
<1>3. CASE Len(registry) < MaxVersions
  <2> DEFINE v == Len(registry) + 1
             m == attempt[p].metric
  <2>1. /\ RegisterVersion(m)
        /\ attempt' = [attempt EXCEPT ![p].pc = "find", ![p].version = v]
    BY <1>3 DEF Register
  <2>2. /\ attempt'[p].pc = "find"
        /\ attempt'[p].version = v
        /\ attempt'[p].metric = m
    BY <2>1, TypesOfState DEF Attempts
  <2>3. m \in Metrics /\ m \in LoggedMetrics
    BY <1>2 DEF MetricsLogged, At, LoggedMetrics
  <2> HIDE DEF m
  <2>4. /\ Versions' = Versions \cup {v}
        /\ v \notin Versions
        /\ \A w \in Versions : registry'[w] = registry[w]
        /\ registry'[v].stage = "None"
        /\ registry'[v].metric = m
    BY <2>1, <2>3, TypesOfState, RegisterAppends
  <2>5. \A i \in DOMAIN promoted :
           promoted[i].version \in Versions /\ promoted[i].version < v
    BY TypesOfState DEF Inv, PromotedVersions
  <2> HIDE DEF v
  <2>6. \A i \in DOMAIN promoted : MetricOf(i)' = MetricOf(i)
    BY <1>2, <2>4, <2>5 DEF MetricOf
  <2>7. StagedWerePromoted'
    BY <1>2, <2>4 DEF StagedWerePromoted
  <2>8. PromotedInOrder'
    BY <1>1, <1>2, <2>2, <2>5 DEF PromotedInOrder
  <2>9. LatestInProduction'
    BY <1>1, <1>2, <2>4 DEF LatestInProduction, InProduction, Latest, At
  <2>10. MetricsLogged'
    BY <1>1, <1>2, <2>2, <2>3, <2>4, <2>6 DEF MetricsLogged
  <2>11. GatePassed'
    <3>1. promoted # <<>> => Beats(m, MetricOf(Len(promoted)))
      BY <1>2 DEF GatePassed, m
    <3>2. promoted # <<>> => MetricOf(Len(promoted))' = MetricOf(Len(promoted))
      BY <1>2, <2>6, TypesOfState DEF MetricOf
    <3> QED
      BY <1>1, <1>2, <2>2, <3>1, <3>2 DEF GatePassed, Beats
  <2>12. PromotionRecorded' /\ SentinelHeals'
    BY <1>1, <1>2, <2>2
       DEF PromotionRecorded, SentinelHeals, Recording, At, Latest
  <2>13. CooldownPassed'
    BY <1>1, <1>2 DEF CooldownPassed, Latest
  <2>14. EveryPromotionImproves'
    BY <1>2, <2>6 DEF EveryPromotionImproves, Beats
  <2>15. PromotionsSpaced'
    BY <1>2 DEF PromotionsSpaced
  <2> QED
    BY <2>7, <2>8, <2>9, <2>10, <2>11, <2>12, <2>13, <2>14, <2>15
<1>4. CASE ~ (Len(registry) < MaxVersions)
  <2>1. attempt'[p].pc = "idle" /\ UNCHANGED registry
    BY <1>4, TypesOfState, ReturnIdles DEF Register, Idle
  <2>2. GatePassed' /\ CooldownPassed'
    BY <1>1, <2>1 DEF GatePassed, CooldownPassed, Waiting
  <2>3. PromotionRecorded' /\ SentinelHeals'
    BY <1>1, <1>2, <2>1
       DEF PromotionRecorded, SentinelHeals, Recording, At, Latest
  <2> QED
    BY <1>2, <2>1, <2>2, <2>3, SerialLocalStep DEF Waiting
<1> QED
  BY <1>3, <1>4

LEMMA FindIncumbentSerially ==
    ASSUME SerialCalls, SerialInv, Inv', NEW p \in Promoters, FindIncumbent(p)
    PROVE  SerialInv'
<1> USE DEF SerialInv
<1>1. \A q \in Promoters : q = p
  BY DEF SerialCalls
<1>2. /\ attempt[p].pc = "find"
      /\ UNCHANGED <<registry, now, sentinel, promoted>>
  BY DEF FindIncumbent, At
<1>3. /\ attempt'[p].pc \in {"archive", "promote"}
      /\ attempt'[p].version = attempt[p].version
      /\ attempt'[p].metric = attempt[p].metric
  <2>1. Goto(p, "promote") => /\ attempt'[p].pc = "promote"
                              /\ attempt'[p].version = attempt[p].version
                              /\ attempt'[p].metric = attempt[p].metric
    BY TypesOfState, GotoMoves DEF PCs
  <2>2. ASSUME attempt' = [attempt EXCEPT ![p].pc = "archive",
                                          ![p].target = LatestProduction]
        PROVE  /\ attempt'[p].pc = "archive"
               /\ attempt'[p].version = attempt[p].version
               /\ attempt'[p].metric = attempt[p].metric
    BY <2>2, TypesOfState DEF Attempts
  <2> QED
    BY <2>1, <2>2 DEF FindIncumbent
<1>4. attempt[p].metric \in Metrics
  BY <1>2 DEF MetricsLogged, At
<1>5. GatePassed'
  <2>1. UNCHANGED MetricOf(Len(promoted))
    BY <1>2 DEF MetricOf
  <2> QED
    BY <1>1, <1>2, <1>3, <2>1 DEF GatePassed, Beats, Waiting
<1>6. CooldownPassed'
  BY <1>1, <1>2, <1>3 DEF CooldownPassed, Waiting, Latest
<1>7. PromotionRecorded' /\ SentinelHeals'
  BY <1>1, <1>2, <1>3 DEF PromotionRecorded, SentinelHeals, Recording, At, Latest
<1> QED
  BY <1>2, <1>3, <1>4, <1>5, <1>6, <1>7, SerialLocalStep DEF Waiting

\* While the incumbent is archived the candidate is about to be promoted.
LEMMA ArchiveIncumbentSerially ==
    ASSUME SerialCalls, SerialInv, Inv', NEW p \in Promoters, ArchiveIncumbent(p)
    PROVE  SerialInv'
<1> USE DEF SerialInv
<1> DEFINE t == attempt[p].target
<1>1. \A q \in Promoters : q = p
  BY DEF SerialCalls
<1>2. /\ attempt[p].pc = "archive"
      /\ UNCHANGED <<now, sentinel, promoted>>
      /\ TransitionStage(t, "Archived") \/ UNCHANGED registry
  BY DEF ArchiveIncumbent, At
<1>3. /\ attempt'[p].pc = "promote"
      /\ attempt'[p].version = attempt[p].version
      /\ attempt'[p].metric = attempt[p].metric
  BY TypesOfState, GotoMoves DEF ArchiveIncumbent, PCs
<1>4. t \in Versions /\ registry[t].stage # "None"
  BY <1>2 DEF Inv, ArchiveTargets
<1> HIDE DEF t
<1>5. /\ Versions' = Versions
      /\ \A w \in Versions : registry'[w].metric = registry[w].metric
      /\ \A w \in Versions \ {t} : registry'[w] = registry[w]
  <2>1. CASE UNCHANGED registry
    BY <2>1 DEF Versions
  <2>2. CASE TransitionStage(t, "Archived")
    BY <1>4, <2>2, TypesOfState, TransitionChangesStage DEF Stages
  <2> QED
    BY <1>2, <2>1, <2>2
<1>6. \A i \in DOMAIN promoted : MetricOf(i)' = MetricOf(i)
  BY <1>2, <1>5 DEF MetricOf, Inv, PromotedVersions
<1>7. StagedWerePromoted'
  BY <1>2, <1>4, <1>5 DEF StagedWerePromoted
<1>8. PromotedInOrder'
  BY <1>1, <1>2, <1>3 DEF PromotedInOrder, Waiting
<1>9. LatestInProduction'
  BY <1>3 DEF LatestInProduction, At
<1>10. MetricsLogged'
  <2>1. attempt[p].metric \in Metrics
    BY <1>2 DEF MetricsLogged, At
  <2>2. /\ registry[attempt[p].version].metric = attempt[p].metric
        /\ attempt[p].version \in Versions
    BY <1>2 DEF MetricsLogged, Inv, VersionsRegistered, Waiting, Unregistered
  <2> QED
    BY <1>1, <1>2, <1>3, <1>5, <1>6, <2>1, <2>2 DEF MetricsLogged
<1>11. GatePassed'
  <2>1. promoted # <<>> => MetricOf(Len(promoted))' = MetricOf(Len(promoted))
    BY <1>2, <1>6, TypesOfState DEF MetricOf
  <2> QED
    BY <1>1, <1>2, <1>3, <2>1 DEF GatePassed, Beats, Waiting
<1>12. CooldownPassed'
  BY <1>1, <1>2, <1>3 DEF CooldownPassed, Waiting, Latest
<1>13. PromotionRecorded' /\ SentinelHeals'
  BY <1>1, <1>2, <1>3 DEF PromotionRecorded, SentinelHeals, Recording, At, Latest
<1>14. EveryPromotionImproves'
  BY <1>2, <1>6 DEF EveryPromotionImproves, Beats
<1>15. PromotionsSpaced'
  BY <1>2 DEF PromotionsSpaced
<1> QED
  BY <1>7, <1>8, <1>9, <1>10, <1>11, <1>12, <1>13, <1>14, <1>15

\* Comparisons of metrics chain up along the history.
LEMMA BeatsIsTransitive ==
    ASSUME NEW a \in Metrics, NEW b \in Metrics, NEW c \in Metrics,
           Beats(a, b), Beats(b, c)
    PROVE  Beats(a, c)
BY MetricAssumption DEF Beats

\* What a promotion adds to the history.
LEMMA PromotionExtendsHistory ==
    ASSUME SerialCalls, SerialInv, NEW p \in Promoters, PromoteCandidate(p)
    PROVE  /\ promoted' # <<>>
           /\ Len(promoted') = Len(promoted) + 1
           /\ DOMAIN promoted' = DOMAIN promoted \cup {Len(promoted) + 1}
           /\ \A i \in DOMAIN promoted :
                 promoted'[i] = promoted[i] /\ MetricOf(i)' = MetricOf(i)
           /\ Latest'.version = attempt[p].version
           /\ Latest'.at = now
           /\ \A j \in DOMAIN promoted' \ DOMAIN promoted :
                 /\ j = Len(promoted) + 1
                 /\ promoted'[j] = Latest'
                 /\ MetricOf(j)' = attempt[p].metric
           /\ MetricOf(Len(promoted))' = attempt[p].metric
           /\ attempt[p].metric \in Metrics
           /\ promoted # <<>> =>
                 Beats(attempt[p].metric, MetricOf(Len(promoted)))
<1> USE DEF SerialInv
<1> DEFINE v == attempt[p].version
           entry == [version |-> v, at |-> now]
<1>1. /\ attempt[p].pc = "promote"
      /\ TransitionStage(v, "Production")
      /\ promoted' = Append(promoted, entry)
  BY DEF PromoteCandidate, At
<1>2. v \in Versions /\ registry[v].metric = attempt[p].metric
  BY <1>1 DEF Inv, VersionsRegistered, MetricsLogged, Unregistered, Waiting
<1>3. entry \in [version : Nat, at : Nat]
  BY TypesOfState DEF Attempts
<1>4. entry.version = v /\ entry.at = now
  OBVIOUS
<1> HIDE DEF v, entry
<1>5. /\ promoted' \in Seq([version : Nat, at : Nat])
      /\ promoted' # <<>>
      /\ Len(promoted') = Len(promoted) + 1
      /\ \A i \in 1..Len(promoted) : promoted'[i] = promoted[i]
      /\ promoted'[Len(promoted) + 1] = entry
  BY <1>1, <1>3, TypesOfState, AppendProperties
<1>6. DOMAIN promoted' = 1..Len(promoted')
  BY <1>5, LenProperties
<1>7. \A w \in Versions : registry'[w].metric = registry[w].metric
  BY <1>1, <1>2, TypesOfState, TransitionChangesStage DEF Stages
<1>8. \A i \in DOMAIN promoted :
         promoted'[i] = promoted[i] /\ MetricOf(i)' = MetricOf(i)
  BY <1>5, <1>7, TypesOfState DEF MetricOf, Inv, PromotedVersions
<1>9. promoted'[Len(promoted')] = entry
  BY <1>5
<1>10. registry'[v].metric = attempt[p].metric
  BY <1>2, <1>7
<1>11. MetricOf(Len(promoted))' = attempt[p].metric
  <2>1. MetricOf(Len(promoted))' = registry'[entry.version].metric
    BY <1>9 DEF MetricOf
  <2> QED
    BY <1>4, <1>10, <2>1
<1>12. \A j \in DOMAIN promoted' \ DOMAIN promoted :
          /\ j = Len(promoted) + 1
          /\ promoted'[j] = entry
          /\ MetricOf(j)' = attempt[p].metric
  BY <1>4, <1>5, <1>6, <1>10, TypesOfState DEF MetricOf
<1>13. DOMAIN promoted' = DOMAIN promoted \cup {Len(promoted) + 1}
  BY <1>5, <1>6, TypesOfState
<1> QED
  BY <1>1, <1>4, <1>5, <1>8, <1>9, <1>11, <1>12, <1>13, TypesOfState
     DEF MetricsLogged, GatePassed, Waiting, Latest, At, v

LEMMA PromoteCandidateSerially ==
    ASSUME SerialCalls, SerialInv, Inv', NEW p \in Promoters, PromoteCandidate(p)
    PROVE  SerialInv'
<1> USE DEF SerialInv
<1> DEFINE v == attempt[p].version
           k == Len(promoted) + 1
<1>1. \A q \in Promoters : q = p
  BY DEF SerialCalls
<1>2. /\ attempt[p].pc = "promote"
      /\ TransitionStage(v, "Production")
      /\ UNCHANGED <<now, sentinel>>
  BY DEF PromoteCandidate, At
<1>3. attempt'[p].pc = "truncate" /\ attempt'[p].metric = attempt[p].metric
  BY TypesOfState, GotoMoves DEF PromoteCandidate, PCs
<1>4. /\ v \in Versions
      /\ \A i \in DOMAIN promoted : promoted[i].version < v
      /\ promoted # <<>> => now - Latest.at >= Cooldown
  BY <1>2 DEF Inv, VersionsRegistered, PromotedInOrder, CooldownPassed,
              Unregistered, Waiting
<1> HIDE DEF v, k
<1>5. /\ Versions' = Versions
      /\ \A w \in Versions \ {v} : registry'[w] = registry[w]
      /\ registry'[v].stage = "Production"
  BY <1>2, <1>4, TypesOfState, TransitionChangesStage DEF Stages
<1>6. /\ promoted' # <<>>
      /\ DOMAIN promoted' = DOMAIN promoted \cup {k}
      /\ \A i \in DOMAIN promoted :
            promoted'[i] = promoted[i] /\ MetricOf(i)' = MetricOf(i)
      /\ Latest'.version = v /\ Latest'.at = now
      /\ \A j \in DOMAIN promoted' \ DOMAIN promoted :
            /\ j = k
            /\ promoted'[j] = Latest'
            /\ MetricOf(j)' = attempt[p].metric
  BY PromotionExtendsHistory DEF v, k
<1>7. /\ attempt[p].metric \in Metrics
      /\ promoted # <<>> =>
            Beats(attempt[p].metric, MetricOf(Len(promoted)))
  BY PromotionExtendsHistory
<1>8. \A i \in DOMAIN promoted : i < k /\ ~ (k < i) /\ promoted # <<>>
  BY TypesOfState DEF k
<1>9. k \in Nat /\ k \notin DOMAIN promoted /\ ~ (k < k)
  BY TypesOfState DEF k
<1>10. StagedWerePromoted'
  BY <1>5, <1>6, <1>9 DEF StagedWerePromoted
<1>11. PromotedInOrder'
  BY <1>1, <1>3, <1>4, <1>6, <1>8, <1>9 DEF PromotedInOrder, Waiting
<1>12. LatestInProduction'
  BY <1>4, <1>5, <1>6 DEF LatestInProduction, InProduction
<1>13. MetricsLogged'
  BY <1>1, <1>3, <1>6, <1>7 DEF MetricsLogged, Waiting
<1>14. GatePassed' /\ CooldownPassed'
  BY <1>1, <1>3 DEF GatePassed, CooldownPassed, Waiting
<1>15. PromotionRecorded'
  BY <1>1, <1>2, <1>3, <1>6, TypesOfState
     DEF PromotionRecorded, Recording, At
<1>16. SentinelHeals'
  BY <1>1, <1>2, <1>3 DEF SentinelHeals, At
<1>17. EveryPromotionImproves'
  <2>1. \A i \in DOMAIN promoted : Beats(attempt[p].metric, MetricOf(i))
    <3> SUFFICES ASSUME NEW i \in DOMAIN promoted
                 PROVE  Beats(attempt[p].metric, MetricOf(i))
      OBVIOUS
    <3>1. i = Len(promoted) \/ i < Len(promoted)
      BY TypesOfState
    <3>2. /\ Len(promoted) \in DOMAIN promoted
          /\ MetricOf(i) \in Metrics
          /\ MetricOf(Len(promoted)) \in Metrics
      BY <1>8, TypesOfState DEF MetricsLogged
    <3>3. i < Len(promoted) => Beats(MetricOf(Len(promoted)), MetricOf(i))
      BY <3>2 DEF EveryPromotionImproves
    <3> QED
      BY <1>7, <1>8, <3>1, <3>2, <3>3, BeatsIsTransitive
  <2> SUFFICES ASSUME NEW i \in DOMAIN promoted', NEW j \in DOMAIN promoted', i < j
               PROVE  Beats(MetricOf(j)', MetricOf(i)')
    BY DEF EveryPromotionImproves, Beats
  <2>2. i \in DOMAIN promoted
    BY <1>6, <1>8, <1>9
  <2>3. CASE j \in DOMAIN promoted
    BY <1>6, <2>2, <2>3 DEF EveryPromotionImproves
  <2>4. CASE j \notin DOMAIN promoted
    BY <1>6, <2>1, <2>2, <2>4
  <2> QED
    BY <2>3, <2>4
<1>18. PromotionsSpaced'
  <2>1. \A i \in DOMAIN promoted : now - promoted[i].at >= Cooldown
    <3> SUFFICES ASSUME NEW i \in DOMAIN promoted
                 PROVE  now - promoted[i].at >= Cooldown
      OBVIOUS
    <3>1. i = Len(promoted) \/ i < Len(promoted)
      BY TypesOfState
    <3>2. Len(promoted) \in DOMAIN promoted
      BY <1>8, TypesOfState
    <3>3. now - Latest.at >= Cooldown /\ now >= Latest.at
      BY <1>4, <1>8 DEF PromotionRecorded
    <3>4. i < Len(promoted) => Latest.at - promoted[i].at >= Cooldown
      BY <3>2 DEF PromotionsSpaced, Latest
    <3> QED
      BY <3>1, <3>2, <3>3, <3>4, TypesOfState, PromotionAssumption DEF Latest
  <2> SUFFICES ASSUME NEW i \in DOMAIN promoted', NEW j \in DOMAIN promoted', i < j
               PROVE  promoted'[j].at - promoted'[i].at >= Cooldown
    BY DEF PromotionsSpaced
  <2>2. i \in DOMAIN promoted
    BY <1>6, <1>8, <1>9
  <2>3. CASE j \in DOMAIN promoted
    BY <1>6, <2>2, <2>3 DEF PromotionsSpaced
  <2>4. CASE j \notin DOMAIN promoted
    BY <1>6, <2>1, <2>2, <2>4
  <2> QED
    BY <2>3, <2>4
<1> QED
  BY <1>10, <1>11, <1>12, <1>13, <1>14, <1>15, <1>16, <1>17, <1>18

LEMMA RecordPromotionSerially ==
    ASSUME SerialCalls, SerialInv, Inv', NEW p \in Promoters,
           TruncateSentinel(p) \/ WriteSentinel(p)
    PROVE  SerialInv'
<1> USE DEF SerialInv
<1>1. \A q \in Promoters : q = p
  BY DEF SerialCalls
<1>2. UNCHANGED <<registry, now, promoted>>
  BY DEF TruncateSentinel, WriteSentinel
<1>3. promoted # <<>>
  BY DEF TruncateSentinel, WriteSentinel, PromotionRecorded, Recording, At
<1>4. CASE TruncateSentinel(p)
  <2>1. attempt[p].pc = "truncate" /\ sentinel' = Blank
    BY <1>4 DEF TruncateSentinel, At
  <2>2. /\ attempt'[p].pc = "write" /\ attempt'[p].stamp = now
        /\ attempt'[p].metric = attempt[p].metric
    BY <1>4, TypesOfState DEF TruncateSentinel, Attempts
  <2>3. attempt[p].metric \in Metrics
    BY <2>1 DEF MetricsLogged, At
  <2>4. GatePassed' /\ CooldownPassed'
    BY <1>1, <2>2 DEF GatePassed, CooldownPassed, Waiting
  <2>5. PromotionRecorded'
    BY <1>1, <1>2, <1>3, <2>2 DEF PromotionRecorded, Recording, At, Latest
  <2>6. SentinelHeals'
    BY <1>1, <2>1, <2>2, PromotionAssumption DEF SentinelHeals, At
  <2> QED
    BY <1>2, <2>1, <2>2, <2>3, <2>4, <2>5, <2>6, SerialLocalStep DEF Waiting
<1>5. CASE WriteSentinel(p)
  <2>1. attempt[p].pc = "write" /\ sentinel' = attempt[p].stamp
    BY <1>5 DEF WriteSentinel, At
  <2>2. attempt'[p].pc = "idle"
    BY <1>5, TypesOfState, ReturnIdles DEF WriteSentinel, Idle
  <2>3. attempt[p].stamp \in Nat /\ attempt[p].stamp >= Latest.at
    BY <1>3, <2>1, TypesOfState DEF PromotionRecorded, At, Attempts
  <2>4. GatePassed' /\ CooldownPassed'
    BY <1>1, <2>2 DEF GatePassed, CooldownPassed, Waiting
  <2>5. PromotionRecorded'
    BY <1>1, <1>2, <1>3, <2>1, <2>2, <2>3
       DEF PromotionRecorded, Recording, At, Latest
  <2>6. SentinelHeals'
    BY <2>1, <2>3, PromotionAssumption DEF SentinelHeals
  <2> QED
    BY <1>2, <2>1, <2>2, <2>4, <2>5, <2>6, SerialLocalStep DEF Waiting
<1> QED
  BY <1>4, <1>5

LEMMA TickSerially ==
    ASSUME SerialInv, Inv', Tick
    PROVE  SerialInv'
<1> USE DEF SerialInv
<1>1. now' = now + 1 /\ UNCHANGED <<registry, sentinel, attempt, promoted>>
  BY DEF Tick
<1>2. promoted # <<>> => Latest.at \in Nat
  BY TypesOfState
<1>3. PromotionRecorded'
  BY <1>1, <1>2, TypesOfState DEF PromotionRecorded, At, Latest
<1>4. CooldownPassed'
  BY <1>1, <1>2, TypesOfState, PromotionAssumption DEF CooldownPassed, Latest
<1> QED
  BY <1>1, <1>3, <1>4
     DEF StagedWerePromoted, PromotedInOrder, LatestInProduction, MetricsLogged,
         GatePassed, SentinelHeals, EveryPromotionImproves, PromotionsSpaced,
         Versions, InProduction, Latest, MetricOf, At, Beats

LEMMA InitEstablishesSerialInv == Init => SerialInv
<1> SUFFICES ASSUME Init PROVE SerialInv
  OBVIOUS
<1>1. Inv
  BY InitEstablishesInv
<1>2. DOMAIN promoted = {} /\ Versions = {}
  BY DEF Init, Versions
<1>3. \A p \in Promoters : attempt[p].pc = "idle"
  BY DEF Init, Idle
<1> QED
  BY <1>1, <1>2, <1>3, PromotionAssumption
     DEF Init, SerialInv, StagedWerePromoted, PromotedInOrder, LatestInProduction,
         MetricsLogged, GatePassed, PromotionRecorded, CooldownPassed,
         SentinelHeals, EveryPromotionImproves, PromotionsSpaced, Waiting,
         Recording, At

LEMMA NextKeepsSerialInv ==
    ASSUME SerialCalls, SerialInv, [Next]_vars
    PROVE  SerialInv'
<1>1. Inv'
  BY NextKeepsInv DEF SerialInv
<1>2. ASSUME NEW p \in Promoters, Step(p)
      PROVE  SerialInv'
  BY <1>1, <1>2, CheckCooldownSerially, ReadIncumbentSerially, RegisterSerially,
     FindIncumbentSerially, ArchiveIncumbentSerially, PromoteCandidateSerially,
     RecordPromotionSerially
     DEF Step
<1>3. CASE UNCHANGED vars
  BY <1>1, <1>3
     DEF vars, SerialInv, StagedWerePromoted, PromotedInOrder,
         LatestInProduction, MetricsLogged, GatePassed, PromotionRecorded,
         CooldownPassed, SentinelHeals, EveryPromotionImproves,
         PromotionsSpaced, Versions, InProduction, Latest, MetricOf, At, Beats
<1>4. \A p \in Promoters : ~ Abort(p)
  BY DEF SerialCalls, Abort
<1> QED
  BY <1>1, <1>2, <1>3, <1>4, TickSerially DEF Next

-----------------------------------------------------------------------------
(* The theorems.                                                           *)

\* The strengthened invariant of serial calls.
THEOREM SerialInvariance ==
    ASSUME SerialCalls
    PROVE  Spec => []SerialInv
<1>1. SerialInv /\ [Next]_vars => SerialInv'
  BY NextKeepsSerialInv
<1> QED
  BY <1>1, InitEstablishesSerialInv, PTL DEF Spec

\* The gate: with serial calls, each promoted model beats all models
\* promoted before it (promote.py:7-8).
THEOREM GateHolds ==
    ASSUME SerialCalls
    PROVE  Spec => []EveryPromotionImproves
<1>1. SerialInv => EveryPromotionImproves
  BY DEF SerialInv
<1> QED
  BY <1>1, SerialInvariance, PTL

\* The cooldown: serial calls never promote twice within it
\* (promote.py:10-11).
THEOREM CooldownHolds ==
    ASSUME SerialCalls
    PROVE  Spec => []PromotionsSpaced
<1>1. SerialInv => PromotionsSpaced
  BY DEF SerialInv
<1> QED
  BY <1>1, SerialInvariance, PTL

\* With serial calls, the version that get_latest_versions returns is the one
\* promoted last, even when an archive loop failed and left older versions in
\* Production.
THEOREM LookUpIsLatest ==
    ASSUME SerialCalls
    PROVE  Spec => []LatestIsLastPromoted
<1>1. ASSUME SerialInv, InProduction # {}, \A p \in Promoters : ~ At(p, "promote")
      PROVE  LatestProduction = promoted[Len(promoted)].version
  <2>1. LatestProduction # NoVersion
    BY <1>1, TypesOfState, LatestIsInProduction DEF SerialInv
  <2> QED
    BY <1>1, <2>1, LookUpFindsLatest DEF Latest
<1>2. SerialInv => LatestIsLastPromoted
  BY <1>1 DEF LatestIsLastPromoted
<1> QED
  BY <1>2, SerialInvariance, PTL

-----------------------------------------------------------------------------
(* Refinement of the policy.                                               *)

LEMMA InitRefinesPolicy == Init => Policy!PolicyInit
BY DEF Init, Policy!PolicyInit

\* The promotion step is a Promote of the policy.
LEMMA PromotionIsPromote ==
    ASSUME SerialCalls, SerialInv, NEW p \in Promoters, PromoteCandidate(p)
    PROVE  /\ Policy!Promote(attempt[p].metric)
           /\ attempt[p].metric \in Metrics
<1> DEFINE m == attempt[p].metric
<1>1. /\ promoted' # <<>>
      /\ promoted'[Len(promoted')].at = now
      /\ MetricOf(Len(promoted))' = m
      /\ m \in Metrics
      /\ promoted # <<>> => Beats(m, MetricOf(Len(promoted)))
  BY PromotionExtendsHistory DEF Latest
<1>2. promoted # <<>> => now - promoted[Len(promoted)].at >= Cooldown
  BY DEF SerialInv, CooldownPassed, Waiting, PromoteCandidate, At, Latest
<1>3. UNCHANGED now
  BY DEF PromoteCandidate
<1> HIDE DEF m
<1>4. Policy!Promote(m)
  BY <1>1, <1>2, <1>3 DEF Policy!Promote, Policy!Beats, Beats
<1> QED
  BY <1>1, <1>4 DEF m

\* The clock is its Wait, and every other step leaves champion and time as
\* they are.
LEMMA OtherStepsWait ==
    ASSUME SerialCalls, SerialInv, [Next]_vars, \A p \in Promoters : ~ PromoteCandidate(p)
    PROVE  /\ UNCHANGED promoted
           /\ \A v \in Versions : registry'[v].metric = registry[v].metric
           /\ Policy!Wait \/ UNCHANGED Policy!policyVars
<1> USE DEF SerialInv
<1>1. \A v \in Versions : registry'[v].metric = registry[v].metric
  BY NextAdvancesStages DEF StagesAdvance, vars
<1>2. promoted' = promoted =>
         (promoted # <<>> => MetricOf(Len(promoted))' = MetricOf(Len(promoted)))
  BY <1>1, TypesOfState DEF MetricOf, Inv, PromotedVersions
<1>3. CASE Tick
  BY <1>1, <1>2, <1>3 DEF Tick, Policy!Wait
<1>4. CASE UNCHANGED <<promoted, now>>
  BY <1>1, <1>2, <1>4 DEF Policy!policyVars
<1>5. ASSUME NEW p \in Promoters, Step(p)
      PROVE  UNCHANGED <<promoted, now>>
  BY <1>5 DEF Step, CheckCooldown, ReadIncumbent, Register, FindIncumbent,
              ArchiveIncumbent, TruncateSentinel, WriteSentinel
<1>6. \A p \in Promoters : ~ Abort(p)
  BY DEF SerialCalls, Abort
<1> QED
  BY <1>3, <1>4, <1>5, <1>6 DEF Next, vars

LEMMA NextRefinesPolicy ==
    ASSUME SerialCalls, SerialInv, [Next]_vars
    PROVE  [Policy!PolicyNext]_(Policy!policyVars)
BY PromotionIsPromote, OtherStepsWait DEF Policy!PolicyNext

\* promote_if_better, called serially, implements the policy stated in its
\* module comment (promote.py:3-11).
THEOREM PolicyImplemented ==
    ASSUME SerialCalls
    PROVE  Spec => ImplementsPolicy
<1>1. SerialInv /\ [Next]_vars => [Policy!PolicyNext]_(Policy!policyVars)
  BY NextRefinesPolicy
<1> QED
  BY <1>1, InitRefinesPolicy, SerialInvariance, PTL
     DEF Spec, ImplementsPolicy, Policy!PolicySpec

-----------------------------------------------------------------------------
(* One Production version, whatever aborts.                                *)

\* Calls do not overlap and the archive loop works; they may be aborted
\* anywhere and misread the incumbent, and candidates may lack the metric.
SerialArchiving ==
    /\ \A p, q \in Promoters : p = q
    /\ "archive" \notin Faults

\* The archive loop has only one version to find, and then none is left.
SingleInv ==
    /\ Inv
    /\ AtMostOneProduction
    /\ \A p \in Promoters :
          /\ At(p, "archive") => InProduction \subseteq {attempt[p].target}
          /\ At(p, "promote") => InProduction = {}

\* Steps of a call that leave Production as it is.
LEMMA SingleLocalStep ==
    ASSUME SerialArchiving, SingleInv, Inv', NEW p \in Promoters,
           InProduction' = InProduction,
           At(p, "archive")' => InProduction \subseteq {attempt'[p].target},
           At(p, "promote")' => InProduction = {}
    PROVE  SingleInv'
<1>1. \A q \in Promoters : q = p
  BY DEF SerialArchiving
<1> QED
  BY <1>1 DEF SingleInv, AtMostOneProduction

LEMMA CallKeepsSingleInv ==
    ASSUME SerialArchiving, SingleInv, Inv', NEW p \in Promoters,
           Step(p) \/ Abort(p)
    PROVE  SingleInv'
<1> USE DEF SingleInv
<1>1. \A q \in Promoters : q = p
  BY DEF SerialArchiving
<1>2. /\ registry \in Seq(ModelVersion)
      /\ attempt \in [Promoters -> Attempts]
  BY TypesOfState
<1>3. ASSUME UNCHANGED registry, ~ At(p, "archive")', ~ At(p, "promote")'
      PROVE  SingleInv'
  BY <1>3, SingleLocalStep DEF InProduction, Versions
<1>4. ASSUME Return(p), UNCHANGED registry
      PROVE  SingleInv'
  BY <1>2, <1>3, <1>4, ReturnIdles DEF At, Idle
<1>5. CASE CheckCooldown(p) \/ ReadIncumbent(p) \/ TruncateSentinel(p)
           \/ WriteSentinel(p) \/ Abort(p)
  <2>1. UNCHANGED registry
    BY <1>5 DEF CheckCooldown, ReadIncumbent, TruncateSentinel, WriteSentinel,
                Abort
  <2>2. (~ At(p, "archive")' /\ ~ At(p, "promote")') \/ Return(p)
    BY <1>2, <1>5
       DEF CheckCooldown, ReadIncumbent, TruncateSentinel, WriteSentinel, Abort,
           At, Goto, Attempts
  <2> QED
    BY <1>3, <1>4, <2>1, <2>2
<1>6. CASE Register(p)
  <2>1. CASE Len(registry) < MaxVersions
    <3>1. /\ RegisterVersion(attempt[p].metric)
          /\ attempt[p].metric \in LoggedMetrics
          /\ attempt'[p].pc = "find"
      BY <1>2, <1>6, <2>1 DEF Register, Attempts
    <3>2. InProduction' = InProduction
      BY <1>2, <3>1, RegisterAppends DEF InProduction
    <3> QED
      BY <3>1, <3>2, SingleLocalStep DEF At
  <2>2. CASE ~ (Len(registry) < MaxVersions)
    BY <1>4, <1>6, <2>2 DEF Register
  <2> QED
    BY <2>1, <2>2
<1>7. CASE FindIncumbent(p)
  <2>1. UNCHANGED registry /\ InProduction' = InProduction
    BY <1>7 DEF FindIncumbent, InProduction, Versions
  <2>2. \A v, w \in InProduction : v = w
    BY DEF AtMostOneProduction
  <2>3. CASE /\ LatestProduction # NoVersion
             /\ attempt' = [attempt EXCEPT ![p].pc = "archive",
                                           ![p].target = LatestProduction]
    <3>1. attempt'[p].pc = "archive" /\ attempt'[p].target = LatestProduction
      BY <1>2, <2>3 DEF Attempts
    <3>2. InProduction \subseteq {LatestProduction}
      BY <1>2, <2>2, <2>3, LatestIsInProduction
    <3> QED
      BY <2>1, <3>1, <3>2, SingleLocalStep DEF At
  <2>4. CASE LatestProduction = NoVersion /\ Goto(p, "promote")
    <3>1. InProduction = {}
      BY <1>2, <2>4, LatestIsInProduction
    <3>2. attempt'[p].pc = "promote"
      BY <1>2, <2>4, GotoMoves DEF PCs
    <3> QED
      BY <2>1, <3>1, <3>2, SingleLocalStep DEF At
  <2> QED
    BY <1>7, <2>3, <2>4 DEF FindIncumbent, SerialArchiving
<1>8. CASE ArchiveIncumbent(p)
  <2> DEFINE t == attempt[p].target
  <2>1. /\ TransitionStage(t, "Archived")
        /\ attempt[p].pc = "archive"
        /\ Goto(p, "promote")
    BY <1>8 DEF ArchiveIncumbent, SerialArchiving, At
  <2>2. t \in Versions /\ InProduction \subseteq {t}
    BY <2>1 DEF Inv, ArchiveTargets, At
  <2> HIDE DEF t
  <2>3. InProduction' = {}
    BY <1>2, <2>1, <2>2, TransitionChangesStage DEF InProduction, Stages
  <2>4. attempt'[p].pc = "promote"
    BY <1>2, <2>1, GotoMoves DEF PCs
  <2> QED
    BY <1>1, <2>3, <2>4 DEF AtMostOneProduction, At
<1>9. CASE PromoteCandidate(p)
  <2> DEFINE v == attempt[p].version
  <2>1. /\ TransitionStage(v, "Production")
        /\ attempt[p].pc = "promote"
        /\ Goto(p, "truncate")
    BY <1>9 DEF PromoteCandidate, At
  <2>2. v \in Versions /\ InProduction = {}
    BY <2>1 DEF Inv, VersionsRegistered, At, Unregistered
  <2> HIDE DEF v
  <2>3. InProduction' = {v}
    BY <1>2, <2>1, <2>2, TransitionChangesStage DEF InProduction, Stages
  <2>4. attempt'[p].pc = "truncate"
    BY <1>2, <2>1, GotoMoves DEF PCs
  <2> QED
    BY <1>1, <2>3, <2>4 DEF AtMostOneProduction, At
<1> QED
  BY <1>5, <1>6, <1>7, <1>8, <1>9 DEF Step

\* Serial calls with a working archive loop never leave two versions in
\* Production, wherever they are aborted and whatever the gate reads.
THEOREM ProductionIsUnique ==
    ASSUME SerialArchiving
    PROVE  Spec => []AtMostOneProduction
<1>1. Init => SingleInv
  <2> SUFFICES ASSUME Init PROVE SingleInv
    OBVIOUS
  <2>1. Inv /\ InProduction = {}
    BY InitEstablishesInv DEF Init, InProduction, Versions
  <2> QED
    BY <2>1 DEF Init, SingleInv, AtMostOneProduction, At, Idle
<1>2. SingleInv /\ [Next]_vars => SingleInv'
  <2> SUFFICES ASSUME SingleInv, [Next]_vars PROVE SingleInv'
    OBVIOUS
  <2>1. Inv'
    BY NextKeepsInv DEF SingleInv
  <2>2. CASE \E p \in Promoters : Step(p) \/ Abort(p)
    BY <2>1, <2>2, CallKeepsSingleInv
  <2>3. CASE Tick \/ UNCHANGED vars
    BY <2>1, <2>3
       DEF Tick, vars, SingleInv, AtMostOneProduction, InProduction, Versions, At
  <2> QED
    BY <2>2, <2>3 DEF Next
<1>3. SingleInv => AtMostOneProduction
  BY DEF SingleInv
<1> QED
  BY <1>1, <1>2, <1>3, PTL DEF Spec

=============================================================================
