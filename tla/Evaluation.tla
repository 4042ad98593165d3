----------------------------- MODULE Evaluation -----------------------------
(***************************************************************************)
(* ml/evaluate.py: DetectorEvaluator.  The detector's predictions on the   *)
(* holdout windows are compared with the injector's labels; the F1 that    *)
(* comes out is what the promotion gate compares.  The ratios are kept as  *)
(* pairs <<numerator, denominator>>; the code rounds them to four places.  *)
(***************************************************************************)
EXTENDS Integers, FiniteSets

CONSTANT MatchWindow   \* match_window_s

ASSUME EvaluationAssumption == MatchWindow \in Nat

\* Predictions and labels are records [type, key, at]; the time of a
\* prediction is the end of its window.
Within(s, t) == s - t <= MatchWindow /\ t - s <= MatchWindow

Matches(p, l) == p.type = l.type /\ p.key = l.key /\ Within(p.at, l.at)

\* The inner loop stops at the first label that matches, and no label is
\* used up by it.
MatchedPredictions(preds, labels) == {p \in preds : \E l \in labels : Matches(p, l)}

\* precision, recall and f1 = 2 tp / (n_predictions + n_labels).
Evaluate(preds, labels) ==
    LET tp == Cardinality(MatchedPredictions(preds, labels))
        p == Cardinality(preds)
        l == Cardinality(labels)
    IN  IF preds = {} \/ labels = {}
        THEN [precision |-> <<0, 1>>, recall |-> <<0, 1>>, f1 |-> <<0, 1>>]
        ELSE [precision |-> <<tp, p>>, recall |-> <<tp, l>>, f1 |-> <<2 * tp, p + l>>]

AtMostOne(ratio) == ratio[1] <= ratio[2]

\* No label stands for two predictions.
LabelsUnshared(preds, labels) ==
    \A p, q \in preds : \A l \in labels : Matches(p, l) /\ Matches(q, l) => p = q

=============================================================================
