--------------------------- MODULE PromotionProofs ---------------------------
(***************************************************************************)
(* What promote_if_better keeps however many calls are in flight and       *)
(* whatever fails: Promoters, Faults and the bounds are arbitrary here.    *)
(* TLC checks the same on two promoters (PromotionConcurrent.cfg).         *)
(***************************************************************************)
EXTENDS Promotion, SequenceTheorems, WellFoundedInduction, TLAPS

-----------------------------------------------------------------------------
(* The inductive invariant.                                                *)

\* The steps of a call before it has registered its candidate, while the
\* candidate waits in stage None, and after it was promoted.
Unregistered == {"idle", "read", "register"}
Waiting == {"find", "archive", "promote"}
Recording == {"truncate", "write"}

\* A call has a version exactly from Register on.
VersionsRegistered ==
    \A p \in Promoters :
        IF attempt[p].pc \in Unregistered
        THEN attempt[p].version = NoVersion
        ELSE attempt[p].version \in Versions

\* Nobody but its call touches the candidate.
WaitingCandidates ==
    \A p \in Promoters :
        attempt[p].pc \in Waiting => registry[attempt[p].version].stage = "None"

\* The version to archive was in Production, and may have been archived by
\* another call since.
ArchiveTargets ==
    \A p \in Promoters :
        attempt[p].pc = "archive" =>
            /\ attempt[p].target \in Versions
            /\ registry[attempt[p].target].stage # "None"

\* Promoted versions have left stage None.
PromotedVersions ==
    \A i \in DOMAIN promoted :
        /\ promoted[i].version \in Versions
        /\ registry[promoted[i].version].stage # "None"

Inv ==
    /\ TypeOK
    /\ VersionsRegistered
    /\ WaitingCandidates
    /\ ArchiveTargets
    /\ PromotedVersions
    /\ VersionsNotShared

-----------------------------------------------------------------------------
(* The registry operations.                                                *)

\* A set of version numbers that is not empty has a largest element, which
\* is what get_latest_versions returns.
LEMMA MaxIsLargest ==
    ASSUME NEW n \in Nat, NEW S \in SUBSET (1..n), S # {}
    PROVE  /\ Max(S) \in S
           /\ \A y \in S : Max(S) >= y
<1> DEFINE T == {n - x : x \in S}
           R == OpToRel(<, Nat)
<1>1. T \subseteq Nat /\ T # {}
  <2>1. \A x \in S : n - x \in Nat
    BY S \subseteq 1..n
  <2>2. PICK x \in S : TRUE
    OBVIOUS
  <2>3. n - x \in T
    BY <2>2
  <2> QED
    BY <2>1, <2>3
<1>2. PICK t \in T : \A u \in T : ~ (<<u, t>> \in R)
  <2> HIDE DEF T, R
  <2>1. IsWellFoundedOn(R, Nat)
    BY NatLessThanWellFounded DEF R
  <2> QED
    BY <1>1, <2>1, WFMin
<1>3. \A u \in T : ~ (u < t)
  BY <1>1, <1>2 DEF OpToRel
<1>4. PICK x \in S : t = n - x
  BY <1>2
<1>5. \A y \in S : x >= y
  BY <1>3, <1>4
<1> QED
  BY <1>5 DEF Max

\* The look-up of get_latest_versions: no version exactly if none is in
\* Production, and otherwise the highest-numbered one that is.
LEMMA LatestIsInProduction ==
    ASSUME registry \in Seq(ModelVersion)
    PROVE  /\ LatestProduction = NoVersion <=> InProduction = {}
           /\ InProduction # {} => LatestProduction \in InProduction
           /\ \A v \in InProduction : v <= LatestProduction
           /\ LatestProduction \in Nat
<1>1. Len(registry) \in Nat /\ InProduction \in SUBSET (1..Len(registry))
  BY LenProperties DEF InProduction, Versions
<1>2. CASE InProduction = {}
  BY <1>2 DEF LatestProduction, NoVersion
<1>3. CASE InProduction # {}
  <2>1. LatestProduction = Max(InProduction)
    BY <1>3 DEF LatestProduction
  <2>2. /\ Max(InProduction) \in InProduction
        /\ \A v \in InProduction : Max(InProduction) >= v
    BY <1>1, <1>3, MaxIsLargest
  <2>3. LatestProduction \in 1..Len(registry)
    BY <1>1, <2>1, <2>2
  <2>4. \A v \in InProduction : v \in Nat /\ v <= LatestProduction
    BY <1>1, <2>1, <2>2, <2>3
  <2> QED
    BY <1>1, <1>3, <2>1, <2>2, <2>3, <2>4 DEF NoVersion
<1> QED
  BY <1>2, <1>3

\* register_model adds a version in stage None and touches no other.
LEMMA RegisterAppends ==
    ASSUME registry \in Seq(ModelVersion),
           NEW m \in LoggedMetrics,
           RegisterVersion(m)
    PROVE  /\ registry' \in Seq(ModelVersion)
           /\ Versions' = Versions \cup {Len(registry) + 1}
           /\ Len(registry) + 1 \notin Versions
           /\ \A v \in Versions : registry'[v] = registry[v]
           /\ registry'[Len(registry) + 1].stage = "None"
           /\ registry'[Len(registry) + 1].metric = m
<1> DEFINE new == [metric |-> m, stage |-> "None"]
<1>1. new \in ModelVersion
  BY DEF ModelVersion, Stages
<1>2. registry' = Append(registry, new)
  BY DEF RegisterVersion
<1>3. /\ Len(registry) \in Nat
      /\ Versions = 1..Len(registry)
  BY LenProperties DEF Versions
<1>4. /\ registry' \in Seq(ModelVersion)
      /\ Len(registry') = Len(registry) + 1
      /\ \A i \in 1..Len(registry) : registry'[i] = registry[i]
      /\ registry'[Len(registry) + 1] = new
  <2> HIDE DEF new
  <2> QED
    BY <1>1, <1>2, AppendProperties
<1>5. Versions' = 1..Len(registry')
  BY <1>4, LenProperties DEF Versions
<1> QED
  BY <1>3, <1>4, <1>5

\* transition_model_version_stage changes the stage of one version.
LEMMA TransitionChangesStage ==
    ASSUME registry \in Seq(ModelVersion),
           NEW v \in Versions, NEW s \in Stages,
           TransitionStage(v, s)
    PROVE  /\ registry' \in Seq(ModelVersion)
           /\ Versions' = Versions
           /\ Len(registry') = Len(registry)
           /\ \A w \in Versions : registry'[w].metric = registry[w].metric
           /\ \A w \in Versions \ {v} : registry'[w] = registry[w]
           /\ registry'[v].stage = s
<1> DEFINE e == [registry[v] EXCEPT !.stage = s]
<1>1. Versions = 1..Len(registry) /\ registry[v] \in ModelVersion
  BY LenProperties, ElementOfSeq DEF Versions
<1>2. e \in ModelVersion /\ e.stage = s /\ e.metric = registry[v].metric
  BY <1>1 DEF ModelVersion
<1>3. registry' = [registry EXCEPT ![v] = e]
  BY DEF TransitionStage
<1>4. /\ registry' \in Seq(ModelVersion)
      /\ Len(registry') = Len(registry)
      /\ \A w \in 1..Len(registry) :
            registry'[w] = IF w = v THEN e ELSE registry[w]
  <2> HIDE DEF e
  <2> QED
    BY <1>1, <1>2, <1>3, ExceptSeq
<1>5. Versions' = Versions
  BY <1>1, <1>4, LenProperties DEF Versions
<1> QED
  BY <1>1, <1>2, <1>4, <1>5

-----------------------------------------------------------------------------
(* The steps of a call.                                                    *)

LEMMA IdleIsAttempt == Idle \in Attempts
BY DEF Idle, Attempts, PCs, LoggedMetrics, NoVersion

\* Goto changes where one call is, and nothing else of any call.
LEMMA GotoMoves ==
    ASSUME attempt \in [Promoters -> Attempts],
           NEW p \in Promoters, NEW pc \in PCs,
           Goto(p, pc)
    PROVE  /\ attempt' \in [Promoters -> Attempts]
           /\ attempt'[p] = [attempt[p] EXCEPT !.pc = pc]
           /\ attempt'[p].pc = pc
           /\ attempt'[p].metric = attempt[p].metric
           /\ attempt'[p].version = attempt[p].version
           /\ attempt'[p].target = attempt[p].target
           /\ \A q \in Promoters \ {p} : attempt'[q] = attempt[q]
BY DEF Goto, Attempts

\* Return ends one call.
LEMMA ReturnIdles ==
    ASSUME attempt \in [Promoters -> Attempts],
           NEW p \in Promoters,
           Return(p)
    PROVE  /\ attempt' \in [Promoters -> Attempts]
           /\ attempt'[p] = Idle
           /\ \A q \in Promoters \ {p} : attempt'[q] = attempt[q]
BY IdleIsAttempt DEF Return

\* A step of one call that leaves the registry and the history alone keeps
\* the invariant if the call keeps its version or ends.
LEMMA LocalStep ==
    ASSUME Inv,
           NEW p \in Promoters,
           attempt' \in [Promoters -> Attempts],
           \A q \in Promoters \ {p} : attempt'[q] = attempt[q],
           UNCHANGED <<registry, promoted>>,
           now' \in Nat,
           sentinel' \in Nat \cup {Absent, Blank},
           IF attempt'[p].pc \in Unregistered
           THEN attempt'[p].version = NoVersion
           ELSE /\ attempt[p].pc \notin Unregistered
                /\ attempt'[p].version = attempt[p].version,
           attempt'[p].pc \in Waiting => attempt[p].pc \in Waiting,
           attempt'[p].pc = "archive" =>
               /\ attempt'[p].target \in Versions
               /\ registry[attempt'[p].target].stage # "None"
    PROVE  Inv'
<1>1. TypeOK'
  BY DEF Inv, TypeOK
<1>2. VersionsRegistered'
  BY DEF Inv, VersionsRegistered, Versions
<1>3. WaitingCandidates'
  BY DEF Inv, WaitingCandidates, Unregistered, Waiting
<1>4. ArchiveTargets'
  BY DEF Inv, ArchiveTargets, Versions
<1>5. PromotedVersions'
  BY DEF Inv, PromotedVersions, Versions
<1>6. VersionsNotShared'
  BY DEF Inv, VersionsNotShared
<1> QED
  BY <1>1, <1>2, <1>3, <1>4, <1>5, <1>6 DEF Inv

\* The invariant survives the registration of a candidate: its version
\* number is new, so nobody can hold it.
LEMMA RegisterStep ==
    ASSUME Inv, NEW p \in Promoters, Register(p)
    PROVE  Inv'
<1> USE DEF Inv
<1>1. attempt \in [Promoters -> Attempts] /\ registry \in Seq(ModelVersion)
  BY DEF TypeOK
<1>2. Len(registry) \in Nat /\ Versions = 1..Len(registry)
  BY <1>1, LenProperties DEF Versions
<1>3. CASE Len(registry) < MaxVersions
  <2> DEFINE v == Len(registry) + 1
  <2>1. /\ RegisterVersion(attempt[p].metric)
        /\ attempt' = [attempt EXCEPT ![p].pc = "find", ![p].version = v]
        /\ UNCHANGED <<now, sentinel, promoted>>
        /\ attempt[p].pc = "register"
    BY <1>3 DEF Register, At
  <2>2. /\ attempt' \in [Promoters -> Attempts]
        /\ attempt'[p].pc = "find"
        /\ attempt'[p].version = v
        /\ \A q \in Promoters \ {p} : attempt'[q] = attempt[q]
    <3> DEFINE r == [attempt[p] EXCEPT !.pc = "find", !.version = v]
    <3>1. attempt[p] \in Attempts /\ v \in Nat
      BY <1>1, <1>2
    <3>2. r \in Attempts /\ r.pc = "find" /\ r.version = v
      BY <3>1 DEF Attempts, PCs
    <3>3. attempt' = [attempt EXCEPT ![p] = r]
      BY <1>1, <2>1
    <3> QED
      BY <1>1, <3>2, <3>3
  <2>3. attempt[p].metric \in LoggedMetrics
    BY <1>1 DEF Attempts
  <2>4. /\ registry' \in Seq(ModelVersion)
        /\ Versions' = Versions \cup {v}
        /\ v \notin Versions
        /\ \A w \in Versions : registry'[w] = registry[w]
        /\ registry'[v].stage = "None"
    BY <1>1, <2>1, <2>3, RegisterAppends
  <2> HIDE DEF v
  <2>5. \A q \in Promoters : attempt[q].version # v
    BY <1>2, <2>4 DEF VersionsRegistered, NoVersion, v
  <2>6. TypeOK'
    BY <2>1, <2>2, <2>4 DEF TypeOK
  <2>7. VersionsRegistered'
    BY <2>2, <2>4 DEF VersionsRegistered, Unregistered
  <2>8. WaitingCandidates'
    BY <2>2, <2>4
       DEF WaitingCandidates, VersionsRegistered, Waiting, Unregistered
  <2>9. ArchiveTargets'
    BY <2>2, <2>4 DEF ArchiveTargets
  <2>10. PromotedVersions'
    BY <2>1, <2>4 DEF PromotedVersions
  <2>11. VersionsNotShared'
    BY <2>1, <2>2, <2>5 DEF VersionsNotShared
  <2> QED
    BY <2>6, <2>7, <2>8, <2>9, <2>10, <2>11
<1>4. CASE ~ (Len(registry) < MaxVersions)
  <2>1. Return(p) /\ UNCHANGED <<registry, now, sentinel, promoted>>
    BY <1>4 DEF Register
  <2>2. /\ attempt' \in [Promoters -> Attempts]
        /\ attempt'[p] = Idle
        /\ \A q \in Promoters \ {p} : attempt'[q] = attempt[q]
    BY <1>1, <2>1, ReturnIdles
  <2> QED
    BY <2>1, <2>2, LocalStep DEF Idle, Unregistered, Waiting, TypeOK
<1> QED
  BY <1>3, <1>4

\* Archiving cannot touch a candidate: the target has left stage None.
LEMMA ArchiveStep ==
    ASSUME Inv, NEW p \in Promoters, ArchiveIncumbent(p)
    PROVE  Inv'
<1> USE DEF Inv
<1> DEFINE t == attempt[p].target
<1>1. attempt \in [Promoters -> Attempts] /\ registry \in Seq(ModelVersion)
  BY DEF TypeOK
<1>2. /\ attempt[p].pc = "archive"
      /\ Goto(p, "promote")
      /\ UNCHANGED <<now, sentinel, promoted>>
      /\ TransitionStage(t, "Archived") \/ UNCHANGED registry
  BY DEF ArchiveIncumbent, At
<1>3. /\ attempt' \in [Promoters -> Attempts]
      /\ attempt'[p].pc = "promote"
      /\ attempt'[p].version = attempt[p].version
      /\ \A q \in Promoters \ {p} : attempt'[q] = attempt[q]
  BY <1>1, <1>2, GotoMoves DEF PCs
<1>4. t \in Versions /\ registry[t].stage # "None"
  BY <1>2 DEF ArchiveTargets
<1>5. CASE UNCHANGED registry
  BY <1>2, <1>3, <1>5, LocalStep DEF Unregistered, Waiting, TypeOK
<1>6. CASE TransitionStage(t, "Archived")
  <2> HIDE DEF t
  <2>1. /\ registry' \in Seq(ModelVersion)
        /\ Versions' = Versions
        /\ \A w \in Versions \ {t} : registry'[w] = registry[w]
        /\ registry'[t].stage = "Archived"
    BY <1>1, <1>4, <1>6, TransitionChangesStage DEF Stages
  <2>2. TypeOK'
    BY <1>2, <1>3, <2>1 DEF TypeOK
  <2>3. VersionsRegistered'
    BY <1>2, <1>3, <2>1 DEF VersionsRegistered, Unregistered
  <2>4. WaitingCandidates'
    BY <1>2, <1>3, <1>4, <2>1
       DEF WaitingCandidates, VersionsRegistered, Waiting, Unregistered
  <2>5. ArchiveTargets'
    BY <1>3, <2>1 DEF ArchiveTargets
  <2>6. PromotedVersions'
    BY <1>2, <2>1 DEF PromotedVersions
  <2>7. VersionsNotShared'
    BY <1>2, <1>3 DEF VersionsNotShared
  <2> QED
    BY <2>2, <2>3, <2>4, <2>5, <2>6, <2>7
<1> QED
  BY <1>2, <1>5, <1>6

\* The promotion takes the candidate out of stage None, so that it is not
\* among the versions promoted before; other calls hold other versions.
LEMMA PromoteStep ==
    ASSUME Inv, NEW p \in Promoters, PromoteCandidate(p)
    PROVE  Inv'
<1> USE DEF Inv
<1> DEFINE v == attempt[p].version
           entry == [version |-> v, at |-> now]
<1>1. /\ attempt \in [Promoters -> Attempts]
      /\ registry \in Seq(ModelVersion)
      /\ promoted \in Seq([version : Nat, at : Nat])
      /\ now \in Nat
  BY DEF TypeOK
<1>2. /\ attempt[p].pc = "promote"
      /\ TransitionStage(v, "Production")
      /\ promoted' = Append(promoted, entry)
      /\ Goto(p, "truncate")
      /\ UNCHANGED <<now, sentinel>>
  BY DEF PromoteCandidate, At
<1>3. /\ attempt' \in [Promoters -> Attempts]
      /\ attempt'[p].pc = "truncate"
      /\ attempt'[p].version = v
      /\ \A q \in Promoters \ {p} : attempt'[q] = attempt[q]
  BY <1>1, <1>2, GotoMoves DEF PCs
<1>4. v \in Versions /\ registry[v].stage = "None"
  BY <1>2 DEF VersionsRegistered, WaitingCandidates, Unregistered, Waiting
<1>5. entry \in [version : Nat, at : Nat]
  BY <1>1 DEF Attempts
<1>6. entry.version = v
  OBVIOUS
<1> HIDE DEF v, entry
<1>7. /\ registry' \in Seq(ModelVersion)
      /\ Versions' = Versions
      /\ \A w \in Versions \ {v} : registry'[w] = registry[w]
      /\ registry'[v].stage = "Production"
  BY <1>1, <1>2, <1>4, TransitionChangesStage DEF Stages
<1>8. /\ promoted' \in Seq([version : Nat, at : Nat])
      /\ \A i \in DOMAIN promoted : promoted'[i] = promoted[i]
      /\ DOMAIN promoted' = DOMAIN promoted \cup {Len(promoted) + 1}
      /\ promoted'[Len(promoted) + 1] = entry
  BY <1>1, <1>2, <1>5, AppendProperties, LenProperties
<1>9. \A i \in DOMAIN promoted : promoted[i].version # v
  BY <1>4 DEF PromotedVersions
<1>10. TypeOK'
  BY <1>2, <1>3, <1>7, <1>8 DEF TypeOK
<1>11. VersionsRegistered'
  BY <1>2, <1>3, <1>4, <1>7 DEF VersionsRegistered, Unregistered
<1>12. WaitingCandidates'
  <2>1. \A q \in Promoters \ {p} :
           attempt[q].pc \in Waiting => attempt[q].version \in Versions \ {v}
    <3>1. NoVersion \notin Versions
      BY <1>1, LenProperties DEF Versions, NoVersion
    <3> QED
      BY <1>4, <3>1
         DEF VersionsNotShared, VersionsRegistered, Waiting, Unregistered, v
  <2> QED
    BY <1>3, <1>7, <2>1 DEF WaitingCandidates, Waiting
<1>13. ArchiveTargets'
  BY <1>3, <1>7 DEF ArchiveTargets
<1>14. PromotedVersions'
  BY <1>4, <1>6, <1>7, <1>8 DEF PromotedVersions
<1>15. VersionsNotShared'
  BY <1>3, <1>6, <1>8, <1>9 DEF VersionsNotShared, v
<1> QED
  BY <1>10, <1>11, <1>12, <1>13, <1>14, <1>15

\* No step of a call breaks the invariant.
LEMMA CallStep ==
    ASSUME Inv, NEW p \in Promoters, Step(p) \/ Abort(p)
    PROVE  Inv'
<1> USE DEF Inv
<1>1. /\ attempt \in [Promoters -> Attempts]
      /\ registry \in Seq(ModelVersion)
      /\ now \in Nat
      /\ sentinel \in Nat \cup {Absent, Blank}
  BY DEF TypeOK
<1>2. ASSUME Return(p), UNCHANGED <<registry, now, promoted>>,
             sentinel' \in Nat \cup {Absent, Blank}
      PROVE  Inv'
  <2>1. /\ attempt' \in [Promoters -> Attempts]
        /\ attempt'[p] = Idle
        /\ \A q \in Promoters \ {p} : attempt'[q] = attempt[q]
    BY <1>1, <1>2, ReturnIdles
  <2>2. Idle.pc = "idle" /\ Idle.version = NoVersion
    BY DEF Idle
  <2> QED
    BY <1>1, <1>2, <2>1, <2>2, LocalStep DEF Unregistered, Waiting
<1>3. CASE CheckCooldown(p)
  <2>1. PICK m \in Candidates :
           \/ Return(p)
           \/ attempt' = [attempt EXCEPT ![p].pc = "read", ![p].metric = m]
    BY <1>3 DEF CheckCooldown
  <2>2. UNCHANGED <<registry, now, sentinel, promoted>> /\ attempt[p].pc = "idle"
    BY <1>3 DEF CheckCooldown, At
  <2>3. CASE attempt' = [attempt EXCEPT ![p].pc = "read", ![p].metric = m]
    <3> DEFINE r == [attempt[p] EXCEPT !.pc = "read", !.metric = m]
    <3>1. attempt[p] \in Attempts /\ m \in LoggedMetrics
      BY <1>1, PromotionAssumption
    <3>2. r \in Attempts /\ r.pc = "read" /\ r.version = attempt[p].version
      BY <3>1 DEF Attempts, PCs
    <3>3. attempt[p].version = NoVersion
      BY <2>2 DEF VersionsRegistered, Unregistered
    <3>4. attempt' = [attempt EXCEPT ![p] = r]
      BY <1>1, <2>3
    <3> HIDE DEF r
    <3>5. /\ attempt' \in [Promoters -> Attempts]
          /\ attempt'[p] = r
          /\ \A q \in Promoters \ {p} : attempt'[q] = attempt[q]
      BY <1>1, <3>2, <3>4
    <3> QED
      BY <1>1, <2>2, <3>2, <3>3, <3>5, LocalStep DEF Unregistered, Waiting
  <2> QED
    BY <1>1, <1>2, <2>1, <2>2, <2>3
<1>4. CASE ReadIncumbent(p)
  <2>1. /\ Goto(p, "register") \/ Return(p)
        /\ UNCHANGED <<registry, now, sentinel, promoted>>
        /\ attempt[p].pc = "read"
    BY <1>4 DEF ReadIncumbent, At
  <2>2. CASE Goto(p, "register")
    <3>1. /\ attempt' \in [Promoters -> Attempts]
          /\ attempt'[p].pc = "register"
          /\ attempt'[p].version = attempt[p].version
          /\ \A q \in Promoters \ {p} : attempt'[q] = attempt[q]
      BY <1>1, <2>2, GotoMoves DEF PCs
    <3>2. attempt[p].version = NoVersion
      BY <2>1 DEF VersionsRegistered, Unregistered
    <3> QED
      BY <1>1, <2>1, <3>1, <3>2, LocalStep DEF Unregistered, Waiting
  <2> QED
    BY <1>1, <1>2, <2>1, <2>2
<1>5. CASE FindIncumbent(p)
  <2> DEFINE l == LatestProduction
  <2>1. /\ UNCHANGED <<registry, now, sentinel, promoted>>
        /\ attempt[p].pc = "find"
        /\ \/ /\ l # NoVersion
              /\ attempt' = [attempt EXCEPT ![p].pc = "archive", ![p].target = l]
           \/ Goto(p, "promote")
    BY <1>5 DEF FindIncumbent, At
  <2>2. CASE Goto(p, "promote")
    <3>1. /\ attempt' \in [Promoters -> Attempts]
          /\ attempt'[p].pc = "promote"
          /\ attempt'[p].version = attempt[p].version
          /\ \A q \in Promoters \ {p} : attempt'[q] = attempt[q]
      BY <1>1, <2>2, GotoMoves DEF PCs
    <3> QED
      BY <1>1, <2>1, <3>1, LocalStep DEF Unregistered, Waiting
  <2>3. CASE /\ l # NoVersion
             /\ attempt' = [attempt EXCEPT ![p].pc = "archive", ![p].target = l]
    <3> DEFINE r == [attempt[p] EXCEPT !.pc = "archive", !.target = l]
    <3>1. l \in Versions /\ registry[l].stage = "Production" /\ l \in Nat
      BY <1>1, <2>3, LatestIsInProduction DEF InProduction
    <3> HIDE DEF l
    <3>2. /\ r \in Attempts
          /\ r.pc = "archive" /\ r.version = attempt[p].version /\ r.target = l
      BY <1>1, <3>1 DEF Attempts, PCs
    <3>3. attempt' = [attempt EXCEPT ![p] = r]
      BY <1>1, <2>3
    <3> HIDE DEF r
    <3>4. /\ attempt' \in [Promoters -> Attempts]
          /\ attempt'[p] = r
          /\ \A q \in Promoters \ {p} : attempt'[q] = attempt[q]
      BY <1>1, <3>2, <3>3
    <3> QED
      BY <1>1, <2>1, <3>1, <3>2, <3>4, LocalStep DEF Unregistered, Waiting
  <2> QED
    BY <2>1, <2>2, <2>3
<1>6. CASE TruncateSentinel(p)
  <2> DEFINE r == [attempt[p] EXCEPT !.pc = "write", !.stamp = now]
  <2>1. /\ UNCHANGED <<registry, now, promoted>>
        /\ sentinel' = Blank
        /\ attempt[p].pc = "truncate"
        /\ attempt' = [attempt EXCEPT ![p] = r]
    BY <1>1, <1>6 DEF TruncateSentinel, At
  <2>2. r \in Attempts /\ r.pc = "write" /\ r.version = attempt[p].version
    BY <1>1 DEF Attempts, PCs
  <2> HIDE DEF r
  <2>3. /\ attempt' \in [Promoters -> Attempts]
        /\ attempt'[p] = r
        /\ \A q \in Promoters \ {p} : attempt'[q] = attempt[q]
    BY <1>1, <2>1, <2>2
  <2> QED
    BY <1>1, <2>1, <2>2, <2>3, LocalStep DEF Unregistered, Waiting
<1>7. CASE WriteSentinel(p)
  <2>1. attempt[p].stamp \in Nat
    BY <1>1 DEF Attempts
  <2> QED
    BY <1>2, <1>7, <2>1 DEF WriteSentinel
<1>8. CASE Abort(p)
  BY <1>1, <1>2, <1>8 DEF Abort
<1> QED
  BY <1>3, <1>4, <1>5, <1>6, <1>7, <1>8, RegisterStep, ArchiveStep, PromoteStep
     DEF Step

\* The invariant holds initially and is inductive.
LEMMA InitEstablishesInv == Init => Inv
<1> SUFFICES ASSUME Init PROVE Inv
  OBVIOUS
<1> USE DEF Init
<1>1. TypeOK
  BY IdleIsAttempt DEF TypeOK
<1>2. VersionsRegistered /\ WaitingCandidates /\ ArchiveTargets
  BY DEF VersionsRegistered, WaitingCandidates, ArchiveTargets, Idle,
         Unregistered, Waiting
<1>3. PromotedVersions
  BY DEF PromotedVersions
<1>4. VersionsNotShared
  BY DEF VersionsNotShared, Idle
<1> QED
  BY <1>1, <1>2, <1>3, <1>4 DEF Inv

LEMMA NextKeepsInv == Inv /\ [Next]_vars => Inv'
<1> SUFFICES ASSUME Inv, [Next]_vars PROVE Inv'
  OBVIOUS
<1>1. CASE \E p \in Promoters : Step(p) \/ Abort(p)
  BY <1>1, CallStep
<1>2. CASE Tick
  BY <1>2 DEF Tick, Inv, TypeOK, VersionsRegistered, WaitingCandidates,
              ArchiveTargets, PromotedVersions, VersionsNotShared, Versions
<1>3. CASE UNCHANGED vars
  BY <1>3 DEF vars, Inv, TypeOK, VersionsRegistered, WaitingCandidates,
              ArchiveTargets, PromotedVersions, VersionsNotShared, Versions
<1> QED
  BY <1>1, <1>2, <1>3 DEF Next

-----------------------------------------------------------------------------
(* The theorems.                                                           *)

\* The strengthened invariant holds throughout, with any number of calls of
\* promote_if_better in flight and any faults.
THEOREM Invariance == Spec => []Inv
BY InitEstablishesInv, NextKeepsInv, PTL DEF Spec

\* Type correctness of the registry, the sentinel and the calls in flight.
THEOREM TypeCorrect == Spec => []TypeOK
<1>1. Inv => TypeOK
  BY DEF Inv
<1> QED
  BY <1>1, Invariance, PTL

\* However calls interleave and fail, two of them never work on the same
\* version, and no version is promoted twice.
THEOREM VersionsStayApart == Spec => []VersionsNotShared
<1>1. Inv => VersionsNotShared
  BY DEF Inv
<1> QED
  BY <1>1, Invariance, PTL

-----------------------------------------------------------------------------
(* The stages of a version.                                                *)

LEMMA RankOfStages ==
    /\ StageRank("None") = 1
    /\ StageRank("Production") = 2
    /\ StageRank("Archived") = 3
<1>1. DOMAIN StageOrder = 1..3
  BY DEF StageOrder
<1>2. /\ StageOrder[1] = "None"
      /\ StageOrder[2] = "Production"
      /\ StageOrder[3] = "Archived"
  BY DEF StageOrder
<1>3. ASSUME NEW i \in 1..3 PROVE i = 1 \/ i = 2 \/ i = 3
  OBVIOUS
<1> QED
  BY <1>1, <1>2, <1>3 DEF StageRank

\* The three calls that write the registry move a version's stage forward.
LEMMA NextAdvancesStages ==
    ASSUME Inv, [Next]_vars
    PROVE  StagesAdvance \/ UNCHANGED vars
<1>1. registry \in Seq(ModelVersion)
  BY DEF Inv, TypeOK
<1>2. \A v \in Versions : registry[v].stage \in Stages
  <2>1. \A v \in Versions : registry[v] \in ModelVersion
    BY <1>1, ElementOfSeq, LenProperties DEF Versions
  <2> QED
    BY <2>1 DEF ModelVersion
<1>3. \A stage \in Stages : StageRank(stage) \in Int
  BY RankOfStages DEF Stages
<1>4. ASSUME UNCHANGED registry
      PROVE  StagesAdvance
  BY <1>2, <1>3, <1>4 DEF StagesAdvance, Versions
<1>5. ASSUME NEW p \in Promoters, Register(p)
      PROVE  StagesAdvance
  <2>1. attempt[p].metric \in LoggedMetrics
    BY DEF Inv, TypeOK, Attempts
  <2>2. CASE RegisterVersion(attempt[p].metric)
    <3>1. \A v \in Versions : v \in Versions' /\ registry'[v] = registry[v]
      BY <1>1, <2>1, <2>2, RegisterAppends
    <3> QED
      BY <1>2, <1>3, <3>1 DEF StagesAdvance
  <2> QED
    BY <1>4, <1>5, <2>2 DEF Register
<1>6. ASSUME NEW p \in Promoters, ArchiveIncumbent(p)
      PROVE  StagesAdvance
  <2> DEFINE t == attempt[p].target
  <2>1. t \in Versions /\ registry[t].stage \in {"Production", "Archived"}
    BY <1>2, <1>6 DEF Inv, ArchiveTargets, ArchiveIncumbent, At, Stages
  <2>2. CASE TransitionStage(t, "Archived")
    <3>1. /\ Versions' = Versions
          /\ \A w \in Versions : registry'[w].metric = registry[w].metric
          /\ \A w \in Versions \ {t} : registry'[w] = registry[w]
          /\ registry'[t].stage = "Archived"
      BY <1>1, <2>1, <2>2, TransitionChangesStage DEF Stages
    <3> QED
      BY <1>2, <1>3, <2>1, <3>1, RankOfStages DEF StagesAdvance
  <2>3. TransitionStage(t, "Archived") \/ UNCHANGED registry
    BY <1>6 DEF ArchiveIncumbent
  <2> QED
    BY <1>4, <2>2, <2>3
<1>7. ASSUME NEW p \in Promoters, PromoteCandidate(p)
      PROVE  StagesAdvance
  <2> DEFINE v == attempt[p].version
  <2>1. v \in Versions /\ registry[v].stage = "None"
    BY <1>7 DEF Inv, VersionsRegistered, WaitingCandidates, PromoteCandidate,
                At, Unregistered, Waiting
  <2>2. TransitionStage(v, "Production")
    BY <1>7 DEF PromoteCandidate
  <2> HIDE DEF v
  <2>3. /\ Versions' = Versions
        /\ \A w \in Versions : registry'[w].metric = registry[w].metric
        /\ \A w \in Versions \ {v} : registry'[w] = registry[w]
        /\ registry'[v].stage = "Production"
    BY <1>1, <2>1, <2>2, TransitionChangesStage DEF Stages
  <2> QED
    BY <1>2, <1>3, <2>1, <2>3, RankOfStages DEF StagesAdvance
<1> QED
  BY <1>4, <1>5, <1>6, <1>7
     DEF Next, Step, Tick, Abort, CheckCooldown, ReadIncumbent, FindIncumbent,
         TruncateSentinel, WriteSentinel

\* However calls interleave and fail, a version only moves from None to
\* Production to Archived, and keeps its metric.
THEOREM LifecycleOneWay == Spec => LifecycleIsOneWay
<1>1. Inv /\ [Next]_vars => [StagesAdvance]_vars
  BY NextAdvancesStages
<1> QED
  BY <1>1, Invariance, PTL DEF Spec, LifecycleIsOneWay

-----------------------------------------------------------------------------
(* Production is not abandoned.                                            *)

LEMMA NextKeepsProduction ==
    ASSUME "abort" \notin Faults, Inv, ProductionNeverAbandoned, [Next]_vars
    PROVE  ProductionNeverAbandoned'
<1>1. /\ registry \in Seq(ModelVersion)
      /\ attempt \in [Promoters -> Attempts]
  BY DEF Inv, TypeOK
<1>2. ASSUME NEW p \in Promoters, ArchiveIncumbent(p)
      PROVE  At(p, "promote")'
  BY <1>1, <1>2, GotoMoves DEF ArchiveIncumbent, At, PCs
<1>3. ASSUME NEW p \in Promoters, PromoteCandidate(p)
      PROVE  InProduction' # {}
  <2>1. attempt[p].version \in Versions
    BY <1>3 DEF Inv, VersionsRegistered, PromoteCandidate, At, Unregistered
  <2> QED
    BY <1>1, <1>3, <2>1, TransitionChangesStage
       DEF PromoteCandidate, InProduction, Stages
<1>4. ASSUME UNCHANGED promoted,
             \A v \in InProduction : v \in InProduction',
             \A q \in Promoters : At(q, "promote") => At(q, "promote")'
      PROVE  ProductionNeverAbandoned'
  BY <1>4 DEF ProductionNeverAbandoned
<1>5. ASSUME NEW p \in Promoters, Step(p), ~ ArchiveIncumbent(p),
             ~ PromoteCandidate(p)
      PROVE  ProductionNeverAbandoned'
  <2>1. UNCHANGED promoted /\ ~ At(p, "promote")
    BY <1>5 DEF Step, At, CheckCooldown, ReadIncumbent, Register,
                FindIncumbent, TruncateSentinel, WriteSentinel
  <2>2. \A q \in Promoters \ {p} : attempt'[q] = attempt[q]
    BY <1>1, <1>5
       DEF Step, CheckCooldown, ReadIncumbent, Register, FindIncumbent,
           TruncateSentinel, WriteSentinel, Goto, Return
  <2>3. CASE Register(p)
    <3>1. attempt[p].metric \in LoggedMetrics
      BY <1>1 DEF Attempts
    <3>2. \A v \in InProduction : v \in InProduction'
      BY <1>1, <2>3, <3>1, RegisterAppends
         DEF Register, InProduction, Versions
    <3> QED
      BY <1>4, <2>1, <2>2, <3>2 DEF At
  <2>4. CASE UNCHANGED registry
    BY <1>4, <2>1, <2>2, <2>4 DEF At, InProduction, Versions
  <2> QED
    BY <1>5, <2>3, <2>4
       DEF Step, CheckCooldown, ReadIncumbent, FindIncumbent,
           TruncateSentinel, WriteSentinel
<1>6. CASE Tick \/ UNCHANGED vars
  BY <1>4, <1>6 DEF Tick, vars, At, InProduction, Versions
<1> QED
  BY <1>2, <1>3, <1>5, <1>6 DEF Next, Abort, ProductionNeverAbandoned

\* Unless a call is aborted half way, the registry is never left without a
\* Production model, whatever the number of calls in flight.
THEOREM ProductionKept ==
    ASSUME "abort" \notin Faults
    PROVE  Spec => []ProductionNeverAbandoned
<1>1. Init => ProductionNeverAbandoned
  BY DEF Init, ProductionNeverAbandoned
<1>2. Inv /\ ProductionNeverAbandoned /\ [Next]_vars => ProductionNeverAbandoned'
  BY NextKeepsProduction
<1> QED
  BY <1>1, <1>2, Invariance, PTL DEF Spec

=============================================================================
