--------------------------- MODULE ChampionServing ---------------------------
(***************************************************************************)
(* What the promotion gate and the hot-swap loader promise together (the   *)
(* module comments of ml/promote.py and ml/model_loader.py, and            *)
(* docs/phase5.md:147): the scorer runs models that were champions under   *)
(* the promotion policy, replaces one only by a better one, and is without *)
(* a model only after a restart.  It may skip champions, and lag behind.   *)
(***************************************************************************)
EXTENDS PromotionPolicy

VARIABLES
    champions,  \* The metrics of all models promoted so far.
    serving,    \* The metric of the model that scores; NoMetric: the rules do.
    restarts    \* How often the scorer was started again.

championVars == <<policyVars, champions, serving, restarts>>

ChampionInit ==
    /\ PolicyInit
    /\ champions = {}
    /\ serving = NoMetric
    /\ restarts = 0

Crown(m) ==
    /\ Promote(m)
    /\ champions' = champions \cup {m}
    /\ UNCHANGED <<serving, restarts>>

Adopt(m) ==
    /\ serving = NoMetric \/ Beats(m, serving)
    /\ serving' = m
    /\ UNCHANGED <<policyVars, champions, restarts>>

RestartScorer ==
    /\ serving' = NoMetric
    /\ restarts' = restarts + 1
    /\ UNCHANGED <<policyVars, champions>>

ChampionNext ==
    \/ \E m \in Metrics : Crown(m)
    \/ \E m \in champions : Adopt(m)
    \/ RestartScorer
    \/ Wait /\ UNCHANGED <<champions, serving, restarts>>

ChampionSpec == ChampionInit /\ [][ChampionNext]_championVars

=============================================================================
