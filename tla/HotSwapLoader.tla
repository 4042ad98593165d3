---------------------------- MODULE HotSwapLoader ----------------------------
(***************************************************************************)
(* ml/model_loader.py: HotSwapModelLoader, the polling thread that keeps   *)
(* the Flink scorer's model in step with the registry.  One poll is        *)
(* _try_load: look up the Production version, download the model the       *)
(* "models:/<name>/Production" URI resolves to, and swap it in under the   *)
(* lock.  The look-up and the download each ask the registry, at different *)
(* moments.                                                                *)
(***************************************************************************)
EXTENDS ModelRegistry

CONSTANT MaxRestarts   \* Bound on the restarts of the scoring process.

VARIABLES
    model,      \* _model, named by the version it was built from.
    version,    \* _version: the version number recorded with it.
    poll,       \* What _try_load does next.
    seen,       \* latest_version, the local variable of _try_load.
    loaded,     \* new_model, the local variable of _try_load.
    restarts

loaderVars == <<model, version, poll, seen, loaded, restarts>>

\* The locals of _try_load are set by the time they are used.
LoaderTypeOK ==
    /\ {model, version, seen, loaded} \subseteq Nat
    /\ poll \in {"sleep", "load", "swap"}
    /\ poll \in {"load", "swap"} => seen \in Versions
    /\ poll = "swap" => loaded \in Versions
    /\ restarts \in 0..MaxRestarts

LoaderInit ==
    /\ model = NoVersion
    /\ version = NoVersion
    /\ poll = "sleep"
    /\ seen = NoVersion
    /\ loaded = NoVersion
    /\ restarts = 0

Sleep ==
    /\ poll' = "sleep"
    /\ seen' = NoVersion
    /\ loaded' = NoVersion

\* Returns early when there is no Production version or it is the recorded
\* one.  The constructor makes the same call before polling starts.
LookUp ==
    /\ poll = "sleep"
    /\ LatestProduction \notin {NoVersion, version}
    /\ seen' = LatestProduction
    /\ poll' = "load"
    /\ UNCHANGED <<model, version, loaded, restarts>>

\* Mutant: an unresolvable URI yields no model instead of an exception.
Download_Unresolved ==
    /\ poll = "load"
    /\ loaded' = LatestProduction
    /\ poll' = "swap"
    /\ UNCHANGED <<model, version, seen, restarts>>

\* Mutant: the URI models:/<name>/latest.
Download_Newest ==
    /\ poll = "load"
    /\ LatestProduction # NoVersion
    /\ loaded' = Len(registry)
    /\ poll' = "swap"
    /\ UNCHANGED <<model, version, seen, restarts>>

Download ==
    /\ poll = "load"
    /\ LatestProduction # NoVersion
    /\ loaded' = LatestProduction
    /\ poll' = "swap"
    /\ UNCHANGED <<model, version, seen, restarts>>

\* Mutant: a failed download drops the old model.
DownloadFails_DropsModel ==
    /\ poll = "load"
    /\ model' = NoVersion
    /\ version' = NoVersion
    /\ Sleep
    /\ UNCHANGED restarts

\* Any exception, an unresolvable URI included, is logged and swallowed.
DownloadFails ==
    /\ poll = "load"
    /\ Sleep
    /\ UNCHANGED <<model, version, restarts>>

\* Mutant: the version to record looked up after the download.
Swap_RecordsLatest ==
    /\ poll = "swap"
    /\ model' = loaded
    /\ version' = LatestProduction
    /\ Sleep
    /\ UNCHANGED restarts

Swap ==
    /\ poll = "swap"
    /\ model' = loaded
    /\ version' = seen
    /\ Sleep
    /\ UNCHANGED restarts

\* The task manager restarts: the scorer builds a new loader.
Restart ==
    /\ restarts < MaxRestarts
    /\ restarts' = restarts + 1
    /\ model' = NoVersion
    /\ version' = NoVersion
    /\ Sleep

LoaderNext == LookUp \/ Download \/ DownloadFails \/ Swap \/ Restart

=============================================================================
