---------------------------- MODULE MCReporting ----------------------------
(* A small instance of Reporting, and bounded inputs for Evaluation.       *)
EXTENDS Reporting, Evaluation

Instants == 0..3
Happenings == [type : {"surge"}, key : {"k1", "k2"}, at : Instants]

\* Over all small sets of predictions and labels: the precision is at most
\* one, and recall and F1 are when no label is shared.
ASSUME EvaluationBounded ==
    \A P, L \in {S \in SUBSET Happenings : Cardinality(S) <= 2} :
        LET e == Evaluate(P, L)
        IN  /\ AtMostOne(e.precision)
            /\ LabelsUnshared(P, L) => AtMostOne(e.recall) /\ AtMostOne(e.f1)

\* Two predictions of one injected surge: its recall is two.
ASSUME RecallAboveOne ==
    \E P, L \in SUBSET [type : {"surge"}, key : {"k1"}, at : Instants] :
        ~AtMostOne(Evaluate(P, L).recall) /\ ~AtMostOne(Evaluate(P, L).f1)
=============================================================================
