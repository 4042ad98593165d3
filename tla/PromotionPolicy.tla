--------------------------- MODULE PromotionPolicy ---------------------------
(***************************************************************************)
(* What ml/promote.py promises in its module comment (lines 3-11): the     *)
(* champion is replaced only by a model that beats it, unconditionally if  *)
(* there is none, and not more than once per cooldown.  Each promotion is  *)
(* one step here; Promotion.tla shows what it takes to make it one.        *)
(***************************************************************************)
EXTENDS ModelMetrics

CONSTANTS
    Cooldown,   \* The time between two promotions, at least.
    Never       \* The time of the last promotion when there was none.

VARIABLES
    champion,   \* The metric of the model promoted last, or NoMetric.
    lastAt,     \* When it was promoted, or Never.
    now

policyVars == <<champion, lastAt, now>>

PolicyInit ==
    /\ champion = NoMetric
    /\ lastAt = Never
    /\ now = 0

Promote(m) ==
    /\ champion = NoMetric \/ Beats(m, champion)
    /\ lastAt = Never \/ now - lastAt >= Cooldown
    /\ champion' = m
    /\ lastAt' = now
    /\ UNCHANGED now

Wait ==
    /\ now' = now + 1
    /\ UNCHANGED <<champion, lastAt>>

PolicyNext == Wait \/ \E m \in Metrics : Promote(m)

PolicySpec == PolicyInit /\ [][PolicyNext]_policyVars

=============================================================================
