---------------------------- MODULE ModelRegistry ----------------------------
(***************************************************************************)
(* The MLflow model registry, as ml/promote.py and ml/model_loader.py use  *)
(* it, for one registered model name.  MLflow is external code: the        *)
(* operators below say what the calls made from src/ do to the registry.   *)
(*                                                                         *)
(* The registry is the sequence of the model's versions; a version's       *)
(* number is its position.  A version keeps the primary metric its run     *)
(* logged and the stage it is in.                                          *)
(***************************************************************************)
EXTENDS ModelMetrics, Sequences, FiniteSetsExt

VARIABLE registry

-----------------------------------------------------------------------------

Stages == {"None", "Production", "Archived"}

ModelVersion == [metric : LoggedMetrics, stage : Stages]

\* The version number no version has.
NoVersion == 0

Versions == DOMAIN registry

\* Mutant: the stage filter of the look-up forgotten but for "Archived".
InProduction_Unfiltered == {v \in Versions : registry[v].stage # "Archived"}

InProduction == {v \in Versions : registry[v].stage = "Production"}

\* Mutant: the oldest Production version taken for the latest.
LatestProduction_Oldest ==
    IF InProduction = {} THEN NoVersion ELSE Min(InProduction)

\* get_latest_versions(name, stages=["Production"]) returns at most one
\* version: the highest-numbered one in that stage.
LatestProduction ==
    IF InProduction = {} THEN NoVersion ELSE Max(InProduction)

\* mlflow.register_model: a new version, in stage None.
RegisterVersion(m) ==
    registry' = Append(registry, [metric |-> m, stage |-> "None"])

\* transition_model_version_stage(..., archive_existing_versions=False).
TransitionStage(v, stage) ==
    registry' = [registry EXCEPT ![v].stage = stage]

=============================================================================
