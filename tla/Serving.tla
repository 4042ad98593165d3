------------------------------- MODULE Serving -------------------------------
(***************************************************************************)
(* Promotion and serving together: promoters write the registry, the       *)
(* hot-swap loader of the Flink scorer reads it.                           *)
(***************************************************************************)
EXTENDS Promotion

CONSTANT MaxRestarts   \* Bound on the restarts of the scoring process.

ASSUME ServingAssumption == MaxRestarts \in Nat

VARIABLES model, version, poll, seen, loaded, restarts

Loader == INSTANCE HotSwapLoader

loaderVars == <<model, version, poll, seen, loaded, restarts>>

servingVars == <<vars, loaderVars>>

ServingInit == Init /\ Loader!LoaderInit

Train == Next /\ UNCHANGED loaderVars

Serve == Loader!LoaderNext /\ UNCHANGED vars

ServingNext == Train \/ Serve

\* The thread keeps polling, and the registry answers again and again.
LoaderFairness ==
    /\ WF_loaderVars(Loader!LookUp)
    /\ SF_loaderVars(Loader!Download)
    /\ WF_loaderVars(Loader!Swap)

ServingSpec ==
    /\ ServingInit
    /\ [][ServingNext]_servingVars
    /\ LoaderFairness

-----------------------------------------------------------------------------
(* Properties.                                                             *)

ServingTypeOK == TypeOK /\ Loader!LoaderTypeOK

\* The scorer only ever runs a model that went through the gate: never a
\* version registered but not promoted.
OnlyPromotedServed ==
    model # NoVersion =>
        \E i \in DOMAIN promoted : promoted[i].version = model

\* The version recorded with the model is never newer than the model: if it
\* were, the next poll would see "no change" and keep the old model.
RecordNotAheadOfModel == version <= model

\* "The Flink scorer keeps using the old model until a better one is
\* promoted" (docs/phase5.md:147): a swap replaces the model by a better one.
ScorerOnlyImproves ==
    [][ /\ model # NoVersion
        /\ model' \notin {NoVersion, model}
        => Beats(registry[model'].metric, registry[model].metric)]_servingVars

\* Gate and loader together implement the abstract serving of champions: no
\* registry, look-ups, downloads or half-finished promotions are in sight.
Champions == INSTANCE ChampionServing WITH
    Never     <- Absent,
    champion  <- IF promoted = <<>> THEN NoMetric
                 ELSE MetricOf(Len(promoted)),
    lastAt    <- IF promoted = <<>> THEN Absent
                 ELSE promoted[Len(promoted)].at,
    champions <- {MetricOf(i) : i \in DOMAIN promoted},
    serving   <- IF model = NoVersion THEN NoMetric
                 ELSE registry[model].metric

ImplementsServing == Champions!ChampionSpec

\* A scorer that has a model goes back to the rules only by a restart.
OnceReadyAlwaysReady ==
    [][model # NoVersion /\ model' = NoVersion
          => restarts' > restarts]_servingVars

\* "always returns current production model" (model_loader.py:40), once the
\* registry is at rest: the scorer ends up with the Production version.
ScorerCatchesUp ==
    \A v \in 1..MaxVersions :
        <>[](LatestProduction = v) => <>[](model = v)

=============================================================================
