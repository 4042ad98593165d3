------------------------------ MODULE Promotion ------------------------------
(***************************************************************************)
(* ml/promote.py: promote_if_better, called at the end of every training   *)
(* run of one model.  A Promoter is one such call in flight: the six-hourly *)
(* Dagster run, a run the drift sensor asked for and a manual training are *)
(* separate operating system processes that share the MLflow registry and  *)
(* the cooldown sentinel file, and nothing else: no lock is taken.         *)
(*                                                                         *)
(* Each call to the registry or to the file system is a step, because      *)
(* another call may happen in between.                                     *)
(***************************************************************************)
EXTENDS ModelRegistry

CONSTANTS
    Promoters,     \* Processes that may run promote_if_better.
    Candidates,    \* Metrics a candidate may be offered with.
    Cooldown,      \* COOLDOWN_MINUTES, in ticks of the clock.
    Absent,        \* Content of the sentinel: the file does not exist ...
    Blank,         \* ... or was truncated and not written yet.
    Faults,        \* The faults that may happen, see FaultKinds.
    MaxVersions,   \* Bound on the versions: the registry refuses more.
    MaxTime        \* Bound on the clock.

\* "read":    get_latest_versions raises while the incumbent is looked up;
\* "archive": it, or the transition to Archived, raises in the archive loop;
\* "abort":   an exception nobody catches ends the call, or the process dies.
FaultKinds == {"read", "archive", "abort"}

ASSUME PromotionAssumption ==
    /\ Candidates \subseteq LoggedMetrics
    /\ Cooldown \in Nat
    /\ Absent \notin Nat /\ Blank \notin Nat /\ Absent # Blank
    /\ Faults \subseteq FaultKinds
    /\ MaxVersions \in Nat /\ MaxTime \in Nat

VARIABLES
    now,        \* time.time()
    sentinel,   \* Content of .mlflow_cooldowns/<model>.last_promoted.
    attempt,    \* Where each promoter is, and its local variables.
    promoted    \* History: the promotions, in order (version and time).

vars == <<registry, now, sentinel, attempt, promoted>>

-----------------------------------------------------------------------------
(* State.                                                                  *)

PCs == {"idle", "read", "register", "find", "archive", "promote",
        "truncate", "write"}

\* The locals of a call: the candidate's metric, the version registered for
\* it, the Production version to archive, and the time stamp to record.
Attempts == [pc      : PCs,
             metric  : LoggedMetrics,
             version : Nat,
             target  : Nat,
             stamp   : Nat]

Idle == [pc |-> "idle", metric |-> NoMetric, version |-> NoVersion,
         target |-> NoVersion, stamp |-> 0]

Init ==
    /\ registry = <<>>
    /\ now = 0
    /\ sentinel = Absent
    /\ attempt = [p \in Promoters |-> Idle]
    /\ promoted = <<>>

At(p, pc) == attempt[p].pc = pc

Goto(p, pc) == attempt' = [attempt EXCEPT ![p].pc = pc]

Return(p) == attempt' = [attempt EXCEPT ![p] = Idle]

-----------------------------------------------------------------------------
(* The gate: cooldown, incumbent, comparison.                              *)

\* Mutant: the cooldown ends one tick early.
InCooldown_Early == sentinel \in Nat /\ now - sentinel < Cooldown - 1

InCooldown == sentinel \in Nat /\ now - sentinel < Cooldown

\* A call starts with a freshly trained candidate and checks the cooldown.
\* It returns at once while the cooldown is active; on a blank sentinel
\* float("") raises and the call ends as well.
CheckCooldown(p) ==
    /\ At(p, "idle")
    /\ \E m \in Candidates :
          IF InCooldown \/ sentinel = Blank
          THEN Return(p)
          ELSE attempt' = [attempt EXCEPT ![p].pc = "read", ![p].metric = m]
    /\ UNCHANGED <<registry, now, sentinel, promoted>>

\* get_incumbent_metrics: NoMetric stands for its None, whether there is no
\* Production version, its run lacks the metric, or the lookup raised.
IncumbentMetric ==
    IF LatestProduction = NoVersion THEN NoMetric
    ELSE registry[LatestProduction].metric

IncumbentReadings ==
    {IncumbentMetric} \cup (IF "read" \in Faults THEN {NoMetric} ELSE {})

\* Mutant: an equal metric is enough.
Qualifies_NotStrict(new, incumbent) ==
    \/ incumbent = NoMetric
    \/ new # NoMetric /\ ~ Beats(incumbent, new)

\* Mutant: higher_is_better left at its default.
Qualifies_AlwaysLower(new, incumbent) ==
    \/ incumbent = NoMetric
    \/ new # NoMetric /\ new < incumbent

Qualifies(new, incumbent) ==
    \/ incumbent = NoMetric
    \/ new # NoMetric /\ Beats(new, incumbent)

ReadIncumbent(p) ==
    /\ At(p, "read")
    /\ \E incumbent \in IncumbentReadings :
          IF Qualifies(attempt[p].metric, incumbent)
          THEN Goto(p, "register")
          ELSE Return(p)
    /\ UNCHANGED <<registry, now, sentinel, promoted>>

-----------------------------------------------------------------------------
(* The promotion.                                                          *)

\* Nothing catches an exception of register_model.
Register(p) ==
    /\ At(p, "register")
    /\ IF Len(registry) < MaxVersions
       THEN /\ RegisterVersion(attempt[p].metric)
            /\ attempt' = [attempt EXCEPT ![p].pc = "find",
                                          ![p].version = Len(registry) + 1]
       ELSE Return(p) /\ UNCHANGED registry
    /\ UNCHANGED <<now, sentinel, promoted>>

\* Mutant: the archive loop dropped.
FindIncumbent_Dropped(p) ==
    /\ At(p, "find")
    /\ Goto(p, "promote")
    /\ UNCHANGED <<registry, now, sentinel, promoted>>

\* Mutant: the version to promote looked up again instead of remembered.
FindIncumbent_LooksUpVersion(p) ==
    /\ At(p, "find")
    /\ attempt' = [attempt EXCEPT
          ![p].pc = IF LatestProduction = NoVersion THEN "promote" ELSE "archive",
          ![p].target = LatestProduction,
          ![p].version = Len(registry)]
    /\ UNCHANGED <<registry, now, sentinel, promoted>>

\* The archive loop looks up the Production versions (there is one at most
\* in the answer); an exception skips the loop.
FindIncumbent(p) ==
    /\ At(p, "find")
    /\ \/ /\ LatestProduction # NoVersion
          /\ attempt' = [attempt EXCEPT ![p].pc = "archive",
                                        ![p].target = LatestProduction]
       \/ /\ LatestProduction = NoVersion \/ "archive" \in Faults
          /\ Goto(p, "promote")
    /\ UNCHANGED <<registry, now, sentinel, promoted>>

\* Mutant: the exception handler around the archive loop dropped.
ArchiveIncumbent_Uncaught(p) ==
    /\ At(p, "archive")
    /\ TransitionStage(attempt[p].target, "Archived")
    /\ Goto(p, "promote") \/ ("archive" \in Faults /\ Return(p))
    /\ UNCHANGED <<now, sentinel, promoted>>

ArchiveIncumbent(p) ==
    /\ At(p, "archive")
    /\ \/ TransitionStage(attempt[p].target, "Archived")
       \/ "archive" \in Faults /\ UNCHANGED registry
    /\ Goto(p, "promote")
    /\ UNCHANGED <<now, sentinel, promoted>>

\* Mutant: the candidate moved to a stage the loader does not know.
PromoteCandidate_ToStaging(p) ==
    /\ At(p, "promote")
    /\ TransitionStage(attempt[p].version, "Staging")
    /\ promoted' = Append(promoted,
                          [version |-> attempt[p].version, at |-> now])
    /\ Goto(p, "truncate")
    /\ UNCHANGED <<now, sentinel>>

PromoteCandidate(p) ==
    /\ At(p, "promote")
    /\ TransitionStage(attempt[p].version, "Production")
    /\ promoted' = Append(promoted,
                          [version |-> attempt[p].version, at |-> now])
    /\ Goto(p, "truncate")
    /\ UNCHANGED <<now, sentinel>>

\* _record_promotion: write_text(str(time.time())) takes the time, truncates
\* the file and then writes it.
TruncateSentinel(p) ==
    /\ At(p, "truncate")
    /\ sentinel' = Blank
    /\ attempt' = [attempt EXCEPT ![p].pc = "write", ![p].stamp = now]
    /\ UNCHANGED <<registry, now, promoted>>

WriteSentinel(p) ==
    /\ At(p, "write")
    /\ sentinel' = attempt[p].stamp
    /\ Return(p)
    /\ UNCHANGED <<registry, now, promoted>>

-----------------------------------------------------------------------------
(* The environment.                                                        *)

Abort(p) ==
    /\ "abort" \in Faults
    /\ ~ At(p, "idle")
    /\ Return(p)
    /\ UNCHANGED <<registry, now, sentinel, promoted>>

Tick ==
    /\ now < MaxTime
    /\ now' = now + 1
    /\ UNCHANGED <<registry, sentinel, attempt, promoted>>

Step(p) ==
    \/ CheckCooldown(p)
    \/ ReadIncumbent(p)
    \/ Register(p)
    \/ FindIncumbent(p)
    \/ ArchiveIncumbent(p)
    \/ PromoteCandidate(p)
    \/ TruncateSentinel(p)
    \/ WriteSentinel(p)

Next ==
    \/ \E p \in Promoters : Step(p) \/ Abort(p)
    \/ Tick

Spec == Init /\ [][Next]_vars

-----------------------------------------------------------------------------
(* Properties.                                                             *)

TypeOK ==
    /\ registry \in Seq(ModelVersion)
    /\ now \in Nat
    /\ sentinel \in Nat \cup {Absent, Blank}
    /\ attempt \in [Promoters -> Attempts]
    /\ promoted \in Seq([version : Nat, at : Nat])

MetricOf(i) == registry[promoted[i].version].metric

\* Promotion "ONLY if it beats the incumbent" (promote.py:7-8), over the
\* whole history: each promoted model beats every model promoted before it.
EveryPromotionImproves ==
    \A i, j \in DOMAIN promoted : i < j => Beats(MetricOf(j), MetricOf(i))

\* No two promotions within COOLDOWN_MINUTES of each other (promote.py:10-11).
PromotionsSpaced ==
    \A i, j \in DOMAIN promoted :
        i < j => promoted[j].at - promoted[i].at >= Cooldown

\* "Archive any existing Production versions" (promote.py:160): at no moment
\* are two versions in Production.
AtMostOneProduction == \A v, w \in InProduction : v = w

\* Once a model was promoted, the registry has a Production model except
\* while a promoter that has archived it is about to promote its own.
ProductionNeverAbandoned ==
    promoted # <<>> =>
        \/ InProduction # {}
        \/ \E p \in Promoters : At(p, "promote")

\* The Production version the gate and the loaders look up is the one
\* promoted last, except while its archiver is about to promote its own
\* (an older version that escaped the archive loop may show up then).
LatestIsLastPromoted ==
    InProduction # {} =>
        \/ LatestProduction = promoted[Len(promoted)].version
        \/ \E p \in Promoters : At(p, "promote")

StageOrder == <<"None", "Production", "Archived">>

StageRank(stage) == CHOOSE i \in DOMAIN StageOrder : StageOrder[i] = stage

StagesAdvance ==
    \A v \in Versions :
        /\ v \in Versions'
        /\ registry[v].metric = registry'[v].metric
        /\ StageRank(registry'[v].stage) - StageRank(registry[v].stage)
              \in {0, 1}

\* Whatever the interleaving and the faults: a version enters Production at
\* most once, only from stage None, and leaves it for good.
LifecycleIsOneWay == [][StagesAdvance]_vars

\* A version two processes work on would be promoted twice, or archived by
\* the one and promoted by the other: each version belongs to one attempt,
\* and each promotion is of a version of its own.
VersionsNotShared ==
    /\ \A p, q \in Promoters :
          p # q /\ attempt[p].version = attempt[q].version
             => attempt[p].version = NoVersion
    /\ \A i, j \in DOMAIN promoted :
          promoted[i].version = promoted[j].version => i = j

-----------------------------------------------------------------------------
(* The abstract specification.                                             *)

Policy == INSTANCE PromotionPolicy WITH
    Never    <- Absent,
    champion <- IF promoted = <<>> THEN NoMetric
                ELSE MetricOf(Len(promoted)),
    lastAt   <- IF promoted = <<>> THEN Absent
                ELSE promoted[Len(promoted)].at

\* promote_if_better implements the policy of its module comment.
ImplementsPolicy == Policy!PolicySpec

=============================================================================
