---------------------------- MODULE ServingProofs ----------------------------
(***************************************************************************)
(* Which models the hot-swap loader serves, for any number of promotions,  *)
(* polls and restarts: first however the promoters interleave and fail,    *)
(* then, for the order of the models, when promotions come one after the   *)
(* other.  TLC checks the same on small instances (ServingSerial.cfg,      *)
(* ServingCrashes.cfg) and shows where the order is lost (LoaderStuck.cfg).*)
(***************************************************************************)
EXTENDS Serving, SerialPromotionProofs

-----------------------------------------------------------------------------
(* The invariant, whatever fails.                                          *)

WasPromoted(v) == \E i \in DOMAIN promoted : promoted[i].version = v

\* A version is staged by its promotion, and what the loader has in hand or
\* serves has been in Production.
ServedInv ==
    /\ Loader!LoaderTypeOK
    /\ StagedWerePromoted
    /\ OnlyPromotedServed
    /\ poll = "swap" => WasPromoted(loaded)

\* The loader sees the registry the promoters write.
LEMMA SameRegistry ==
    /\ Loader!LatestProduction = LatestProduction
    /\ Loader!Versions = Versions
    /\ Loader!NoVersion = NoVersion
BY DEF Loader!LatestProduction, Loader!InProduction, Loader!Versions, Loader!NoVersion, Loader!Max,
   LatestProduction, InProduction, Versions, NoVersion, Max

\* What a step of the promoters changes of registry and history.
LEMMA RegistryChanges ==
    ASSUME Inv, [Next]_vars
    PROVE  /\ Len(registry') \in Nat /\ Len(registry) <= Len(registry')
           /\ Versions \subseteq Versions'
           /\ \A i \in DOMAIN promoted : i \in DOMAIN promoted' /\ promoted'[i] = promoted[i]
           /\ \A v \in Versions' : registry'[v].stage # "None" =>
                 \/ v \in Versions /\ registry[v].stage # "None"
                 \/ \E i \in DOMAIN promoted' : promoted'[i].version = v
           /\ \A v \in InProduction' :
                 \/ v \in InProduction
                 \/ \E p \in Promoters : At(p, "promote") /\ v = attempt[p].version
<1>1. /\ registry \in Seq(ModelVersion) /\ attempt \in [Promoters -> Attempts]
      /\ promoted \in Seq([version : Nat, at : Nat]) /\ now \in Nat
      /\ Len(registry) \in Nat /\ Versions = 1..Len(registry)
  BY TypesOfState
<1>2. CASE UNCHANGED <<registry, promoted>>
  BY <1>1, <1>2 DEF Versions, InProduction
<1>3. ASSUME NEW p \in Promoters, Register(p), registry' # registry
      PROVE  /\ promoted' = promoted
             /\ Len(registry') = Len(registry) + 1
             /\ Versions' = Versions \cup {Len(registry) + 1}
             /\ \A v \in Versions : registry'[v] = registry[v]
             /\ registry'[Len(registry) + 1].stage = "None"
  <2>1. RegisterVersion(attempt[p].metric) /\ promoted' = promoted
    BY <1>3 DEF Register
  <2>2. attempt[p].metric \in LoggedMetrics
    BY <1>1 DEF Attempts
  <2>3. /\ registry' \in Seq(ModelVersion)
        /\ Versions' = Versions \cup {Len(registry) + 1}
        /\ \A v \in Versions : registry'[v] = registry[v]
        /\ registry'[Len(registry) + 1].stage = "None"
    BY <1>1, <2>1, <2>2, RegisterAppends
  <2>4. Len(registry') = Len(registry) + 1
    <3>1. Len(registry') \in Nat /\ Versions' = 1..Len(registry')
      BY <2>3, LenProperties DEF Versions
    <3>2. Len(registry) + 1 \in 1..Len(registry')
      BY <2>3, <3>1
    <3>3. Len(registry') <= Len(registry) + 1
      BY <1>1, <2>3, <3>1, <3>2
    <3> QED
      BY <1>1, <3>1, <3>2, <3>3
  <2> QED
    BY <2>1, <2>3, <2>4
<1>4. CASE \E p \in Promoters : Register(p) /\ registry' # registry
  BY <1>1, <1>3, <1>4 DEF InProduction
<1>5. CASE \E p \in Promoters : ArchiveIncumbent(p) /\ registry' # registry
  <2>1. PICK p \in Promoters : ArchiveIncumbent(p) /\ registry' # registry
    BY <1>5
  <2>2. /\ TransitionStage(attempt[p].target, "Archived") /\ promoted' = promoted
        /\ attempt[p].target \in Versions /\ registry[attempt[p].target].stage # "None"
    BY <2>1 DEF ArchiveIncumbent, At, Inv, ArchiveTargets
  <2>3. /\ Versions' = Versions /\ Len(registry') = Len(registry)
        /\ \A v \in Versions \ {attempt[p].target} : registry'[v] = registry[v]
        /\ registry'[attempt[p].target].stage = "Archived"
    BY <1>1, <2>2, TransitionChangesStage DEF Stages
  <2>4. \A v \in InProduction' : v \in InProduction
    BY <2>3 DEF InProduction
  <2>5. \A v \in Versions' : registry'[v].stage # "None" =>
           v \in Versions /\ registry[v].stage # "None"
    BY <2>2, <2>3
  <2> HIDE DEF Versions
  <2> QED
    BY <1>1, <2>2, <2>3, <2>4, <2>5
<1>6. CASE \E p \in Promoters : PromoteCandidate(p)
  <2>1. PICK p \in Promoters : PromoteCandidate(p)
    BY <1>6
  <2> DEFINE v == attempt[p].version
             entry == [version |-> v, at |-> now]
  <2>2. /\ TransitionStage(v, "Production") /\ promoted' = Append(promoted, entry)
        /\ attempt[p].pc = "promote" /\ At(p, "promote")
    BY <2>1 DEF PromoteCandidate, At
  <2>3. v \in Versions /\ entry \in [version : Nat, at : Nat] /\ entry.version = v
    BY <1>1, <2>2 DEF Inv, VersionsRegistered, Unregistered
  <2> HIDE DEF entry
  <2>4. /\ Versions' = Versions /\ Len(registry') = Len(registry)
        /\ \A w \in Versions \ {v} : registry'[w] = registry[w]
    BY <1>1, <2>2, <2>3, TransitionChangesStage DEF Stages
  <2>5. /\ \A i \in DOMAIN promoted : i \in DOMAIN promoted' /\ promoted'[i] = promoted[i]
        /\ Len(promoted) + 1 \in DOMAIN promoted' /\ promoted'[Len(promoted) + 1] = entry
    BY <1>1, <2>2, <2>3, AppendProperties, LenProperties
  <2>6. \A w \in Versions' : registry'[w].stage # "None" =>
           \/ w \in Versions /\ registry[w].stage # "None"
           \/ \E i \in DOMAIN promoted' : promoted'[i].version = w
    BY <2>3, <2>4, <2>5
  <2>7. \A w \in InProduction' : w \in InProduction \/ w = v
    BY <2>4 DEF InProduction
  <2> QED
    BY <1>1, <2>2, <2>4, <2>5, <2>6, <2>7
<1> QED
  BY <1>2, <1>4, <1>5, <1>6 DEF vars, Next, Step, Abort, Tick, CheckCooldown, ReadIncumbent,
     Register, FindIncumbent, ArchiveIncumbent, TruncateSentinel, WriteSentinel

LEMMA PromotedStay ==
    ASSUME Inv, [Next]_vars, NEW v, WasPromoted(v)
    PROVE  WasPromoted(v)'
BY RegistryChanges DEF WasPromoted

\* Steps of the promoters keep what the loader relies on.
LEMMA TrainKeepsServed ==
    ASSUME Inv, ServedInv, [Next]_vars, UNCHANGED loaderVars
    PROVE  ServedInv'
<1>1. UNCHANGED <<model, version, poll, seen, loaded, restarts>>
  BY DEF loaderVars
<1>2. Loader!LoaderTypeOK'
  <2>1. Versions \subseteq Versions'
    BY RegistryChanges
  <2> QED
    BY <1>1, <2>1 DEF ServedInv, Loader!LoaderTypeOK, Loader!Versions, Versions
<1>3. StagedWerePromoted'
  <2> SUFFICES ASSUME NEW v \in Versions', registry'[v].stage # "None"
               PROVE  \E i \in DOMAIN promoted' : promoted'[i].version = v
    BY DEF StagedWerePromoted
  <2>1. CASE v \in Versions /\ registry[v].stage # "None"
    BY <2>1, PromotedStay DEF ServedInv, StagedWerePromoted, WasPromoted
  <2> QED
    BY <2>1, RegistryChanges
<1>4. OnlyPromotedServed'
  BY <1>1, PromotedStay DEF ServedInv, OnlyPromotedServed, WasPromoted
<1>5. poll' = "swap" => WasPromoted(loaded)'
  BY <1>1, PromotedStay DEF ServedInv, WasPromoted
<1> QED
  BY <1>2, <1>3, <1>4, <1>5 DEF ServedInv

LEMMA ServeKeepsServed ==
    ASSUME Inv, ServedInv, Serve, ServingAssumption
    PROVE  ServedInv'
<1>1. UNCHANGED <<registry, now, sentinel, attempt, promoted>>
  BY DEF Serve, vars
<1>2. /\ Versions' = Versions /\ Loader!Versions = Versions
      /\ Versions \subseteq Nat /\ NoVersion = 0 /\ Loader!NoVersion = 0
  BY <1>1, TypesOfState, SameRegistry DEF Versions, NoVersion
<1>3. /\ {model, version, seen, loaded} \subseteq Nat
      /\ poll \in {"load", "swap"} => seen \in Versions
      /\ poll = "swap" => loaded \in Versions /\ WasPromoted(loaded)
      /\ restarts \in 0..MaxRestarts
      /\ model # NoVersion => WasPromoted(model)
  BY <1>2 DEF ServedInv, Loader!LoaderTypeOK, OnlyPromotedServed, WasPromoted
<1>4. LatestProduction # NoVersion =>
         LatestProduction \in Versions /\ LatestProduction \in Nat /\ WasPromoted(LatestProduction)
  <2>1. LatestProduction # NoVersion => LatestProduction \in InProduction
    BY TypesOfState, LatestIsInProduction
  <2>2. LatestProduction \in InProduction =>
           LatestProduction \in Versions /\ registry[LatestProduction].stage # "None"
    BY DEF InProduction
  <2> QED
    BY <1>2, <2>1, <2>2 DEF ServedInv, StagedWerePromoted, WasPromoted
<1>5. \A v : WasPromoted(v)' = WasPromoted(v)
  BY <1>1 DEF WasPromoted
<1>6. StagedWerePromoted'
  BY <1>1, <1>2 DEF ServedInv, StagedWerePromoted
<1>7. ASSUME {model', version', seen', loaded'} \subseteq Nat,
             poll' \in {"sleep", "load", "swap"},
             poll' \in {"load", "swap"} => seen' \in Versions,
             poll' = "swap" => loaded' \in Versions /\ WasPromoted(loaded'),
             restarts' \in 0..MaxRestarts,
             model' # NoVersion => WasPromoted(model')
      PROVE  ServedInv'
  <2>1. Loader!LoaderTypeOK'
    BY <1>1, <1>2, <1>7 DEF Loader!LoaderTypeOK, Loader!Versions, Versions
  <2>2. OnlyPromotedServed' /\ (poll' = "swap" => WasPromoted(loaded)')
    BY <1>1, <1>7 DEF OnlyPromotedServed, WasPromoted, NoVersion
  <2> QED
    BY <1>6, <2>1, <2>2 DEF ServedInv
<1>8. CASE Loader!LookUp
  BY <1>3, <1>4, <1>7, <1>8, SameRegistry DEF Loader!LookUp
<1>9. CASE Loader!Download
  BY <1>3, <1>4, <1>7, <1>9, SameRegistry DEF Loader!Download
<1>10. CASE Loader!DownloadFails
  BY <1>2, <1>3, <1>7, <1>10 DEF Loader!DownloadFails, Loader!Sleep
<1>11. CASE Loader!Swap
  BY <1>2, <1>3, <1>7, <1>11 DEF Loader!Swap, Loader!Sleep
<1>12. CASE Loader!Restart
  BY <1>2, <1>3, <1>7, <1>12 DEF Loader!Restart, Loader!Sleep, ServingAssumption
<1> QED
  BY <1>8, <1>9, <1>10, <1>11, <1>12 DEF Serve, Loader!LoaderNext

LEMMA LoaderHarmless ==
    ASSUME [ServingNext]_servingVars
    PROVE  /\ [Next]_vars
           /\ ([Next]_vars /\ UNCHANGED loaderVars) \/ Serve
BY DEF ServingNext, Train, Serve, servingVars

\* However promoters interleave, misread the registry and die, the loader's
\* picture of it is sound.
THEOREM ServingInvariance == ServingSpec => [](Inv /\ ServedInv)
<1>1. ServingInit => Inv /\ ServedInv
  <2> SUFFICES ASSUME ServingInit PROVE Inv /\ ServedInv
    OBVIOUS
  <2>1. Inv /\ Init
    BY InitEstablishesInv DEF ServingInit
  <2>2. Versions = {}
    BY <2>1 DEF Init, Versions
  <2>3. Loader!LoaderTypeOK
    BY ServingAssumption DEF ServingInit, Loader!LoaderInit, Loader!LoaderTypeOK, Loader!NoVersion
  <2>4. StagedWerePromoted
    BY <2>2 DEF StagedWerePromoted
  <2>5. OnlyPromotedServed /\ poll # "swap"
    BY DEF ServingInit, Loader!LoaderInit, OnlyPromotedServed, Loader!NoVersion, NoVersion
  <2> QED
    BY <2>1, <2>3, <2>4, <2>5 DEF ServedInv
<1>2. Inv /\ ServedInv /\ [ServingNext]_servingVars => (Inv /\ ServedInv)'
  <2> SUFFICES ASSUME Inv, ServedInv, [ServingNext]_servingVars
               PROVE  Inv' /\ ServedInv'
    OBVIOUS
  <2>1. Inv'
    BY LoaderHarmless, NextKeepsInv
  <2>2. ServedInv'
    BY LoaderHarmless, TrainKeepsServed, ServeKeepsServed, ServingAssumption
  <2> QED
    BY <2>1, <2>2
<1> QED
  BY <1>1, <1>2, PTL DEF ServingSpec

\* Registry, calls, files and loader keep their types.
THEOREM ServingTypeCorrect == ServingSpec => []ServingTypeOK
<1>1. Inv /\ ServedInv => ServingTypeOK
  BY DEF Inv, ServedInv, ServingTypeOK
<1> QED
  BY <1>1, ServingInvariance, PTL

\* The scorer never runs a version that was registered and not promoted
\* (model_loader.py:54-78), whatever happens between look-up and download.
THEOREM ServedWerePromoted == ServingSpec => []OnlyPromotedServed
<1>1. ServedInv => OnlyPromotedServed
  BY DEF ServedInv
<1> QED
  BY <1>1, ServingInvariance, PTL

-----------------------------------------------------------------------------
(* The order of the models, while promotions are serial.                   *)

\* The call in flight has the newest version.
CandidateIsNewest ==
    \A p \in Promoters : attempt[p].pc \in Waiting => attempt[p].version = Len(registry)

\* Whatever the loader holds is not newer than the registry, nor than any
\* version in Production; what it fetches later is not older.
HeldInv ==
    /\ \A h \in {model, seen, loaded} :
          h <= Len(registry) /\ \A v \in InProduction : h <= v
    /\ version <= model
    /\ poll = "load" => model <= seen
    /\ poll = "swap" => model <= loaded /\ seen <= loaded

LEMMA NewestKept ==
    ASSUME SerialArchiving, Inv, CandidateIsNewest, [Next]_vars
    PROVE  CandidateIsNewest'
<1>1. /\ registry \in Seq(ModelVersion) /\ attempt \in [Promoters -> Attempts]
      /\ Len(registry) \in Nat
  BY TypesOfState
<1>2. \A p, q \in Promoters : p = q
  BY DEF SerialArchiving
<1>3. ASSUME NEW p \in Promoters, Len(registry') = Len(registry),
             attempt'[p].pc \in Waiting =>
                attempt[p].pc \in Waiting /\ attempt'[p].version = attempt[p].version
      PROVE  CandidateIsNewest'
  BY <1>2, <1>3 DEF CandidateIsNewest
<1>4. ASSUME NEW p \in Promoters, Return(p), Len(registry') = Len(registry)
      PROVE  CandidateIsNewest'
  BY <1>1, <1>3, <1>4, ReturnIdles DEF Idle, Waiting
<1>5. ASSUME NEW p \in Promoters,
             CheckCooldown(p) \/ ReadIncumbent(p) \/ FindIncumbent(p) \/ TruncateSentinel(p)
             \/ WriteSentinel(p) \/ Abort(p)
      PROVE  CandidateIsNewest'
  <2>1. registry' = registry
    BY <1>5 DEF CheckCooldown, ReadIncumbent, FindIncumbent, TruncateSentinel, WriteSentinel, Abort
  <2>2. \/ Return(p)
        \/ attempt'[p].pc \in Waiting =>
              attempt[p].pc \in Waiting /\ attempt'[p].version = attempt[p].version
    BY <1>1, <1>5 DEF CheckCooldown, ReadIncumbent, FindIncumbent, TruncateSentinel, WriteSentinel,
       Abort, At, Goto, Attempts, Waiting
  <2> QED
    BY <1>3, <1>4, <2>1, <2>2
<1>6. ASSUME NEW p \in Promoters, Register(p)
      PROVE  CandidateIsNewest'
  <2>1. CASE Len(registry) < MaxVersions
    <3>1. /\ RegisterVersion(attempt[p].metric) /\ attempt[p].metric \in LoggedMetrics
          /\ attempt'[p].version = Len(registry) + 1
      BY <1>1, <1>6, <2>1 DEF Register, Attempts
    <3>2. registry' = Append(registry, [metric |-> attempt[p].metric, stage |-> "None"])
      BY <3>1 DEF RegisterVersion
    <3>3. [metric |-> attempt[p].metric, stage |-> "None"] \in ModelVersion
      BY <3>1 DEF ModelVersion, Stages
    <3>4. Len(registry') = Len(registry) + 1
      <4> DEFINE new == [metric |-> attempt[p].metric, stage |-> "None"]
      <4> HIDE DEF new
      <4>1. new \in ModelVersion /\ registry' = Append(registry, new)
        BY <3>2, <3>3 DEF new
      <4> QED
        BY <1>1, <4>1, AppendProperties
    <3> QED
      BY <1>2, <3>1, <3>4 DEF CandidateIsNewest
  <2>2. CASE ~ (Len(registry) < MaxVersions)
    BY <1>4, <1>6, <2>2 DEF Register
  <2> QED
    BY <2>1, <2>2
<1>7. ASSUME NEW p \in Promoters, ArchiveIncumbent(p)
      PROVE  CandidateIsNewest'
  <2>1. /\ attempt[p].pc = "archive" /\ Goto(p, "promote")
        /\ TransitionStage(attempt[p].target, "Archived") \/ registry' = registry
        /\ attempt[p].target \in Versions
    BY <1>7 DEF ArchiveIncumbent, At, Inv, ArchiveTargets
  <2>2. Len(registry') = Len(registry)
    BY <1>1, <2>1, TransitionChangesStage DEF Stages
  <2>3. attempt'[p].version = attempt[p].version
    BY <1>1, <2>1, GotoMoves DEF PCs
  <2> QED
    BY <1>3, <2>1, <2>2, <2>3 DEF Waiting
<1>8. ASSUME NEW p \in Promoters, PromoteCandidate(p)
      PROVE  CandidateIsNewest'
  <2>1. /\ attempt[p].pc = "promote" /\ Goto(p, "truncate")
        /\ TransitionStage(attempt[p].version, "Production")
    BY <1>8 DEF PromoteCandidate, At
  <2>2. attempt[p].version \in Versions
    BY <2>1 DEF Inv, VersionsRegistered, Unregistered
  <2>3. Len(registry') = Len(registry)
    BY <1>1, <2>1, <2>2, TransitionChangesStage DEF Stages
  <2>4. attempt'[p].pc = "truncate"
    BY <1>1, <2>1, GotoMoves DEF PCs
  <2> QED
    BY <1>3, <2>3, <2>4 DEF Waiting
<1>9. CASE Tick \/ UNCHANGED vars
  BY <1>9 DEF Tick, vars, CandidateIsNewest
<1> QED
  BY <1>5, <1>6, <1>7, <1>8, <1>9 DEF Next, Step

LEMMA TrainKeepsHeld ==
    ASSUME Inv, ServedInv, CandidateIsNewest, HeldInv, [Next]_vars, UNCHANGED loaderVars
    PROVE  HeldInv'
<1>1. /\ UNCHANGED <<model, version, poll, seen, loaded, restarts>>
      /\ {model, version, seen, loaded} \subseteq Nat
  BY DEF loaderVars, ServedInv, Loader!LoaderTypeOK
<1>2. Len(registry) \in Nat /\ Len(registry') \in Nat /\ Len(registry) <= Len(registry')
  BY RegistryChanges, TypesOfState
<1>3. ASSUME NEW h \in {model, seen, loaded}, NEW v \in InProduction'
      PROVE  h <= v
  <2>1. CASE v \in InProduction
    BY <1>3, <2>1 DEF HeldInv
  <2>2. CASE \E p \in Promoters : At(p, "promote") /\ v = attempt[p].version
    BY <1>3, <2>2 DEF HeldInv, CandidateIsNewest, At, Waiting
  <2> QED
    BY <2>1, <2>2, RegistryChanges
<1> QED
  BY <1>1, <1>2, <1>3 DEF HeldInv

LEMMA ServeKeepsHeld ==
    ASSUME Inv, ServedInv, AtMostOneProduction, HeldInv, Serve
    PROVE  HeldInv'
<1>1. UNCHANGED <<registry, now, sentinel, attempt, promoted>>
  BY DEF Serve, vars
<1>2. InProduction' = InProduction
  BY <1>1 DEF InProduction, Versions
<1>3. /\ {model, version, seen, loaded} \subseteq Nat /\ Len(registry) \in Nat
      /\ InProduction \subseteq Nat /\ NoVersion = 0 /\ Loader!NoVersion = 0
      /\ \A v \in InProduction : v <= Len(registry)
  BY TypesOfState DEF ServedInv, Loader!LoaderTypeOK, InProduction, NoVersion, Loader!NoVersion
<1>4. LatestProduction # NoVersion =>
         /\ LatestProduction \in InProduction /\ LatestProduction \in Nat
         /\ \A v \in InProduction : v = LatestProduction
  BY <1>3, TypesOfState, LatestIsInProduction DEF AtMostOneProduction
<1>5. CASE Loader!LookUp
  BY <1>1, <1>2, <1>3, <1>4, <1>5, SameRegistry DEF HeldInv, Loader!LookUp
<1>6. CASE Loader!Download
  BY <1>1, <1>2, <1>3, <1>4, <1>6, SameRegistry DEF HeldInv, Loader!Download
<1>7. CASE Loader!DownloadFails
  BY <1>1, <1>2, <1>3, <1>7 DEF HeldInv, Loader!DownloadFails, Loader!Sleep
<1>8. CASE Loader!Swap
  BY <1>1, <1>2, <1>3, <1>8 DEF HeldInv, Loader!Swap, Loader!Sleep
<1>9. CASE Loader!Restart
  BY <1>1, <1>2, <1>3, <1>9 DEF HeldInv, Loader!Restart, Loader!Sleep
<1> QED
  BY <1>5, <1>6, <1>7, <1>8, <1>9 DEF Serve, Loader!LoaderNext

\* With serial promotions, aborted or not, the loader goes forward.
THEOREM HeldInvariance ==
    ASSUME SerialArchiving
    PROVE  ServingSpec => [](CandidateIsNewest /\ HeldInv)
<1>1. ServingInit => CandidateIsNewest /\ HeldInv
  <2> SUFFICES ASSUME ServingInit PROVE CandidateIsNewest /\ HeldInv
    OBVIOUS
  <2>1. registry = <<>> /\ \A p \in Promoters : attempt[p] = Idle
    BY DEF ServingInit, Init
  <2>2. CandidateIsNewest
    BY <2>1 DEF CandidateIsNewest, Idle, Waiting
  <2>3. InProduction = {} /\ Len(registry) = 0
    BY <2>1, EmptySeq DEF InProduction, Versions
  <2>4. HeldInv
    BY <2>3 DEF HeldInv, ServingInit, Loader!LoaderInit, Loader!NoVersion
  <2> QED
    BY <2>2, <2>4
<1>2. /\ Inv /\ ServedInv /\ AtMostOneProduction
      /\ CandidateIsNewest /\ HeldInv /\ [ServingNext]_servingVars
      => (CandidateIsNewest /\ HeldInv)'
  <2> SUFFICES ASSUME Inv, ServedInv, AtMostOneProduction, CandidateIsNewest, HeldInv,
                      [ServingNext]_servingVars
               PROVE  CandidateIsNewest' /\ HeldInv'
    OBVIOUS
  <2>1. CandidateIsNewest'
    BY LoaderHarmless, NewestKept
  <2>2. HeldInv'
    BY LoaderHarmless, TrainKeepsHeld, ServeKeepsHeld
  <2> QED
    BY <2>1, <2>2
<1>3. ServingSpec => Spec
  <2>1. ServingInit => Init
    BY DEF ServingInit
  <2>2. [ServingNext]_servingVars => [Next]_vars
    BY LoaderHarmless
  <2> QED
    BY <2>1, <2>2, PTL DEF ServingSpec, Spec
<1> QED
  BY <1>1, <1>2, <1>3, ServingInvariance, ProductionIsUnique, PTL DEF ServingSpec

\* The version recorded with the model is never newer than the model, so
\* that "no change" means what it says (model_loader.py:60-76).
THEOREM RecordNeverAhead ==
    ASSUME SerialArchiving
    PROVE  ServingSpec => []RecordNotAheadOfModel
<1>1. HeldInv => RecordNotAheadOfModel
  BY DEF HeldInv, RecordNotAheadOfModel
<1> QED
  BY <1>1, HeldInvariance, PTL

\* Promotions that come one after the other and fail nowhere.
UndisturbedCalls == SerialCalls /\ SerialArchiving

\* A swap replaces a model by a better one: the gate compares with the model
\* promoted before, and the loader never goes back (docs/phase5.md:147).
THEOREM SwapsImprove ==
    ASSUME UndisturbedCalls
    PROVE  ServingSpec => ScorerOnlyImproves
<1> DEFINE Improves == /\ model # NoVersion
                       /\ model' \notin {NoVersion, model}
                       => Beats(registry[model'].metric, registry[model].metric)
<1>1. SerialCalls /\ SerialArchiving
  BY DEF UndisturbedCalls
<1>2. Inv /\ ServedInv /\ SerialInv /\ HeldInv /\ [ServingNext]_servingVars
         => [Improves]_servingVars
  <2> SUFFICES ASSUME Inv, ServedInv, SerialInv, HeldInv, [ServingNext]_servingVars,
                      model # NoVersion, model' \notin {NoVersion, model}
               PROVE  Beats(registry[model'].metric, registry[model].metric)
    OBVIOUS
  <2>1. poll = "swap" /\ model' = loaded
    BY DEF ServingNext, Train, Serve, servingVars, loaderVars, Loader!LoaderNext, Loader!LookUp,
       Loader!Download, Loader!DownloadFails, Loader!Swap, Loader!Restart, Loader!NoVersion, NoVersion
  <2>2. model \in Nat /\ loaded \in Nat /\ model <= loaded /\ model # loaded
    BY <2>1 DEF HeldInv, ServedInv, Loader!LoaderTypeOK
  <2>3. PICK i \in DOMAIN promoted : promoted[i].version = model
    BY DEF ServedInv, OnlyPromotedServed
  <2>4. PICK j \in DOMAIN promoted : promoted[j].version = loaded
    BY <2>1 DEF ServedInv, WasPromoted
  <2>5. i \in Nat /\ j \in Nat
    BY TypesOfState
  <2>6. i < j
    BY <2>2, <2>3, <2>4, <2>5 DEF SerialInv, PromotedInOrder
  <2> QED
    BY <2>1, <2>3, <2>4, <2>6 DEF SerialInv, EveryPromotionImproves, MetricOf
<1>3. ServingSpec => Spec
  <2>1. ServingInit => Init
    BY DEF ServingInit
  <2>2. [ServingNext]_servingVars => [Next]_vars
    BY LoaderHarmless
  <2> QED
    BY <2>1, <2>2, PTL DEF ServingSpec, Spec
<1> QED
  BY <1>1, <1>2, <1>3, ServingInvariance, HeldInvariance, SerialInvariance, PTL
     DEF ServingSpec, ScorerOnlyImproves

-----------------------------------------------------------------------------
(* Refinement of the serving of champions.                                 *)

LEMMA InitRefinesChampions == ServingInit => Champions!ChampionInit
<1> SUFFICES ASSUME ServingInit PROVE Champions!ChampionInit
  OBVIOUS
<1>1. promoted = <<>> /\ now = 0 /\ model = NoVersion /\ restarts = 0
  BY DEF ServingInit, Init, Loader!LoaderInit, Loader!NoVersion, NoVersion
<1>2. {MetricOf(i) : i \in DOMAIN promoted} = {}
  BY <1>1
<1> QED
  BY <1>1, <1>2 DEF Champions!ChampionInit, Champions!PolicyInit

\* A model that is served keeps the metric it was registered with.
LEMMA ServedMetricStays ==
    ASSUME Inv, ServedInv, model # NoVersion
    PROVE  /\ model \in Versions
           /\ \E i \in DOMAIN promoted : registry[model].metric = MetricOf(i)
<1>1. PICK i \in DOMAIN promoted : promoted[i].version = model
  BY DEF ServedInv, OnlyPromotedServed
<1>2. promoted[i].version \in Versions
  BY DEF Inv, PromotedVersions
<1> QED
  BY <1>1, <1>2 DEF MetricOf

\* The gate's promotion crowns a champion, the clock waits, and no other step
\* of a promoter shows.
LEMMA TrainRefinesChampions ==
    ASSUME SerialCalls, SerialInv, ServedInv, [Next]_vars, UNCHANGED loaderVars
    PROVE  [Champions!ChampionNext]_(Champions!championVars)
<1> DEFINE all == {MetricOf(i) : i \in DOMAIN promoted}
           serving == IF model = NoVersion THEN NoMetric ELSE registry[model].metric
<1>1. Inv /\ UNCHANGED <<model, restarts>>
  BY DEF SerialInv, loaderVars
<1>2. \A v \in Versions : registry'[v].metric = registry[v].metric
  BY <1>1, NextAdvancesStages DEF StagesAdvance, vars
<1>3. UNCHANGED serving
  BY <1>1, <1>2, ServedMetricStays
<1>4. ASSUME NEW p \in Promoters, PromoteCandidate(p)
      PROVE  Champions!ChampionNext
  <2> DEFINE m == attempt[p].metric
  <2>1. Policy!Promote(m) /\ m \in Metrics
    BY <1>4, PromotionIsPromote
  <2>2. all' = all \cup {m}
    BY <1>4, PromotionExtendsHistory
  <2> HIDE DEF m, all, serving
  <2>3. Champions!Promote(m)
    BY <2>1 DEF Policy!Promote, Champions!Promote, Policy!Beats, Champions!Beats
  <2>4. Champions!Crown(m)
    BY <1>1, <1>3, <2>2, <2>3 DEF Champions!Crown, all, serving
  <2> QED
    BY <2>1, <2>4 DEF Champions!ChampionNext
<1>5. ASSUME \A p \in Promoters : ~ PromoteCandidate(p)
      PROVE  [Champions!ChampionNext]_(Champions!championVars)
  <2>1. /\ UNCHANGED promoted
        /\ Policy!Wait \/ UNCHANGED Policy!policyVars
    BY <1>5, OtherStepsWait
  <2>2. UNCHANGED all
    BY <1>1, <1>2, <2>1 DEF MetricOf, Inv, PromotedVersions
  <2>3. Champions!Wait \/ UNCHANGED Champions!policyVars
    BY <2>1 DEF Policy!Wait, Champions!Wait, Policy!policyVars, Champions!policyVars
  <2> QED
    BY <1>1, <1>3, <2>2, <2>3 DEF Champions!ChampionNext, Champions!championVars
<1> QED
  BY <1>4, <1>5

\* The swap adopts a champion, and the loader's other steps do not show.
LEMMA ServeRefinesChampions ==
    ASSUME SerialInv, ServedInv, HeldInv, Serve
    PROVE  [Champions!ChampionNext]_(Champions!championVars)
<1> DEFINE all == {MetricOf(i) : i \in DOMAIN promoted}
           serving == IF model = NoVersion THEN NoMetric ELSE registry[model].metric
<1>1. UNCHANGED <<registry, now, sentinel, attempt, promoted>>
  BY DEF Serve, vars
<1>2. UNCHANGED <<all, Champions!policyVars>>
  BY <1>1 DEF MetricOf, Champions!policyVars
<1>3. CASE UNCHANGED <<model, restarts>>
  <2>1. UNCHANGED serving
    BY <1>1, <1>3
  <2> QED
    BY <1>2, <1>3, <2>1 DEF Champions!championVars
<1>4. CASE Loader!Swap
  <2> DEFINE m == registry[loaded].metric
  <2>1. /\ poll = "swap" /\ model' = loaded /\ restarts' = restarts
        /\ loaded # NoVersion
    BY <1>4, SameRegistry, TypesOfState
       DEF Loader!Swap, SerialInv, ServedInv, Loader!LoaderTypeOK, NoVersion
  <2>2. PICK j \in DOMAIN promoted : promoted[j].version = loaded
    BY <2>1 DEF ServedInv, WasPromoted
  <2>3. m = MetricOf(j) /\ m \in all
    BY <2>2 DEF MetricOf
  <2>4. serving' = m
    BY <1>1, <2>1
  <2>5. CASE serving = NoMetric
    <3>1. Champions!Adopt(m)
      BY <1>2, <2>1, <2>4, <2>5 DEF Champions!Adopt
    <3> QED
      BY <2>3, <3>1 DEF Champions!ChampionNext
  <2>6. CASE model = loaded
    <3>1. UNCHANGED serving
      BY <1>1, <2>1, <2>6
    <3> QED
      BY <1>2, <2>1, <3>1 DEF Champions!championVars
  <2>7. CASE model # NoVersion /\ model # loaded
    <3>1. PICK i \in DOMAIN promoted : promoted[i].version = model
      BY <2>7 DEF ServedInv, OnlyPromotedServed
    <3>2. model \in Nat /\ loaded \in Nat /\ model < loaded
      BY <2>1, <2>7 DEF HeldInv, ServedInv, Loader!LoaderTypeOK
    <3>3. i \in Nat /\ j \in Nat
      BY TypesOfState DEF SerialInv
    <3>4. i < j
      BY <2>2, <3>1, <3>2, <3>3 DEF SerialInv, PromotedInOrder
    <3>5. Beats(m, serving)
      BY <2>3, <2>7, <3>1, <3>4 DEF SerialInv, EveryPromotionImproves, MetricOf
    <3>6. Champions!Adopt(m)
      BY <1>2, <2>1, <2>4, <3>5 DEF Champions!Adopt, Champions!Beats, Beats
    <3> QED
      BY <2>3, <3>6 DEF Champions!ChampionNext
  <2> QED
    BY <2>5, <2>6, <2>7
<1>5. CASE Loader!Restart
  <2>1. serving' = NoMetric /\ restarts' = restarts + 1
    BY <1>5, SameRegistry DEF Loader!Restart
  <2> QED
    BY <1>2, <2>1 DEF Champions!ChampionNext, Champions!RestartScorer
<1> QED
  BY <1>3, <1>4, <1>5 DEF Serve, Loader!LoaderNext, Loader!LookUp, Loader!Download,
     Loader!DownloadFails

\* Promotion gate, registry and hot-swap loader together implement the
\* serving of champions (docs/phase5.md:147, model_loader.py:40), while
\* promotions come one after the other and fail nowhere.
THEOREM ServingImplemented ==
    ASSUME UndisturbedCalls
    PROVE  ServingSpec => ImplementsServing
<1>1. SerialCalls /\ SerialArchiving
  BY DEF UndisturbedCalls
<1>2. SerialInv /\ ServedInv /\ HeldInv /\ [ServingNext]_servingVars
         => [Champions!ChampionNext]_(Champions!championVars)
  BY <1>1, LoaderHarmless, TrainRefinesChampions, ServeRefinesChampions
<1>3. ServingSpec => Spec
  <2>1. ServingInit => Init
    BY DEF ServingInit
  <2>2. [ServingNext]_servingVars => [Next]_vars
    BY LoaderHarmless
  <2> QED
    BY <2>1, <2>2, PTL DEF ServingSpec, Spec
<1> QED
  BY <1>1, <1>2, <1>3, InitRefinesChampions, ServingInvariance, HeldInvariance,
     SerialInvariance, PTL DEF ServingSpec, ImplementsServing, Champions!ChampionSpec

\* A scorer that has a model loses it by a restart alone, whatever fails
\* (model_loader.py:54-78).
THEOREM ReadyUntilRestart == ServingSpec => OnceReadyAlwaysReady
<1> DEFINE Stays == model # NoVersion /\ model' = NoVersion => restarts' > restarts
<1>1. Inv /\ ServedInv /\ [ServingNext]_servingVars => [Stays]_servingVars
  <2> SUFFICES ASSUME Inv, ServedInv, [ServingNext]_servingVars,
                      model # NoVersion, model' = NoVersion
               PROVE  restarts' > restarts
    OBVIOUS
  <2>1. Loader!Swap \/ Loader!Restart
    BY DEF ServingNext, Train, Serve, servingVars, loaderVars, Loader!LoaderNext, Loader!LookUp,
       Loader!Download, Loader!DownloadFails
  <2>2. ~ Loader!Swap
    <3>1. poll = "swap" => loaded # NoVersion
      BY TypesOfState, SameRegistry DEF ServedInv, Loader!LoaderTypeOK, NoVersion
    <3> QED
      BY <3>1 DEF Loader!Swap
  <2>3. restarts \in Nat
    BY ServingAssumption DEF ServedInv, Loader!LoaderTypeOK
  <2> QED
    BY <2>1, <2>2, <2>3 DEF Loader!Restart
<1> QED
  BY <1>1, ServingInvariance, PTL DEF ServingSpec, OnceReadyAlwaysReady

=============================================================================
