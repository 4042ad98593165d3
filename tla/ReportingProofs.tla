--------------------------- MODULE ReportingProofs ---------------------------
(***************************************************************************)
(* What the drift job, the training runs and the exporter keep for any     *)
(* number of workers, rows and runs, whatever dies or is out of reach, and *)
(* what the detector's evaluation bounds.  TLC checks the same on a small  *)
(* instance (Reporting.cfg, MCReporting).                                  *)
(***************************************************************************)
EXTENDS Reporting, Evaluation, SequenceTheorems, FiniteSetTheorems,
        WellFoundedInduction, TLAPS

-----------------------------------------------------------------------------
(* The split of the rows.                                                  *)

\* A non-empty set of numbers up to n has a largest element.
LEMMA LargestExists ==
    ASSUME NEW n \in Nat, NEW S \in SUBSET (0..n), S # {}
    PROVE  /\ Max(S) \in S
           /\ \A y \in S : y <= Max(S)
<1> DEFINE T == {n - x : x \in S}
           R == OpToRel(<, Nat)
<1>1. T \subseteq Nat /\ T # {}
  <2>1. \A x \in S : n - x \in Nat
    BY S \subseteq 0..n
  <2>2. PICK x \in S : TRUE
    OBVIOUS
  <2>3. n - x \in T
    BY <2>2
  <2> QED
    BY <2>1, <2>3
<1>2. PICK t \in T : \A u \in T : ~ (<<u, t>> \in R)
  <2> HIDE DEF T, R
  <2>1. IsWellFoundedOn(R, Nat)
    BY NatLessThanWellFounded DEF R
  <2> QED
    BY <1>1, <2>1, WFMin
<1>3. \A u \in T : ~ (u < t)
  BY <1>1, <1>2 DEF OpToRel
<1>4. PICK x \in S : t = n - x
  BY <1>2
<1>5. \A y \in S : x >= y
  BY <1>3, <1>4
<1>6. Max(S) \in S /\ \A y \in S : Max(S) >= y
  BY <1>5 DEF Max
<1> QED
  BY <1>6

\* What both splits promise of a sorted, non-empty file: two sets of rows,
\* every reference row before every current one and not newer.
Ordered(s, rows) ==
    /\ s.current \subseteq DOMAIN rows
    /\ s.reference \subseteq DOMAIN rows
    /\ \A c \in s.current, r \in s.reference : r < c /\ rows[r] <= rows[c]

LEMMA TimeSplitOrdered ==
    ASSUME NEW rows \in Seq(Ends), rows # <<>>, Ascending(rows), ReportingAssumption
    PROVE  Ordered(TimeSplit(rows), rows)
<1> DEFINE s == TimeSplit(rows)
<1>1. /\ Len(rows) \in Nat /\ DOMAIN rows = 1..Len(rows)
      /\ \A i \in DOMAIN rows : rows[i] \in Int
  BY LenProperties, ElementOfSeq DEF Ends
<1>2. Len(rows) # 0
  BY EmptySeq, SeqEqual, <1>1
<1>3. Newest(rows) \in Int /\ CurrentWindow \in Int /\ ReferenceWindow \in Int
  BY <1>1, <1>2 DEF Newest, ReportingAssumption
<1>4. ASSUME NEW c \in s.current, NEW r \in s.reference
      PROVE  r < c /\ rows[r] <= rows[c]
  <2>1. /\ c \in DOMAIN rows /\ r \in DOMAIN rows
        /\ rows[r] < Newest(rows) - CurrentWindow
        /\ rows[c] >= Newest(rows) - CurrentWindow
    BY <1>4 DEF TimeSplit
  <2>2. rows[r] < rows[c]
    BY <1>1, <1>3, <2>1
  <2>3. ~ (c <= r)
    BY <1>1, <2>1, <2>2 DEF Ascending
  <2> QED
    BY <1>1, <2>1, <2>2, <2>3
<1> QED
  BY <1>4 DEF Ordered, TimeSplit

LEMMA PercentileSplitOrdered ==
    ASSUME NEW rows \in Seq(Ends), Ascending(rows)
    PROVE  Ordered(PercentileSplit(rows), rows)
<1> DEFINE n == Len(rows)
           k == (n * 4) \div 5
           s == PercentileSplit(rows)
<1>1. n \in Nat /\ DOMAIN rows = 1..n
  BY LenProperties
<1>2. k \in 0..n
  BY <1>1
<1>3. s.current = (k + 1)..n /\ s.reference = 1..k
  BY DEF PercentileSplit
<1>4. s.current \subseteq DOMAIN rows /\ s.reference \subseteq DOMAIN rows
  BY <1>1, <1>2, <1>3
<1>5. \A c \in s.current, r \in s.reference : r < c
  <2> HIDE DEF k, n, s
  <2> QED
    BY <1>1, <1>2, <1>3
<1>6. \A c \in s.current, r \in s.reference : rows[r] <= rows[c]
  BY <1>1, <1>4, <1>5 DEF Ascending
<1> QED
  BY <1>4, <1>5, <1>6 DEF Ordered

LEMMA SplitOrdered ==
    ASSUME NEW rows \in Seq(Ends), rows # <<>>, Ascending(rows), ReportingAssumption
    PROVE  Ordered(Split(rows), rows)
BY TimeSplitOrdered, PercentileSplitOrdered DEF Split

\* From 21 rows on, a fifth of them is five and the rest sixteen, so that
\* the fallback always goes on.
LEMMA FallbackEnough ==
    ASSUME NEW rows \in Seq(Ends), ~Enough(Split(rows))
    PROVE  Len(rows) <= 20
<1> DEFINE n == Len(rows)
           k == (n * 4) \div 5
<1>1. n \in Nat /\ k \in 0..n
  BY LenProperties
<1>2. ~Enough(PercentileSplit(rows))
  BY DEF Split
<1>3. SUFFICES ASSUME n >= 21 PROVE Enough(PercentileSplit(rows))
  BY <1>1, <1>2
<1>4. k >= 16 /\ n - k >= 5
  BY <1>1, <1>3
<1>5. Cardinality(1..k) = k /\ Cardinality((k + 1)..n) = n - k
  <2> HIDE DEF k, n
  <2> QED
    BY <1>1, <1>4, FS_Interval
<1> QED
  BY <1>1, <1>4, <1>5 DEF Enough, PercentileSplit

-----------------------------------------------------------------------------
(* The evaluation of the detector (evaluate.py:99-165).                    *)

LEMMA MatchedCount ==
    ASSUME NEW P, NEW L, IsFiniteSet(P), IsFiniteSet(L)
    PROVE  /\ Cardinality(P) \in Nat /\ Cardinality(L) \in Nat
           /\ Cardinality(MatchedPredictions(P, L)) \in Nat
           /\ Cardinality(MatchedPredictions(P, L)) <= Cardinality(P)
<1>1. MatchedPredictions(P, L) \in SUBSET P
  BY DEF MatchedPredictions
<1> QED
  BY <1>1, FS_Subset, FS_CardinalityType

\* With no label shared, choosing a label for every matched prediction is
\* one-to-one.
LEMMA MatchedAtMostLabels ==
    ASSUME NEW P, NEW L, IsFiniteSet(P), IsFiniteSet(L), LabelsUnshared(P, L)
    PROVE  Cardinality(MatchedPredictions(P, L)) <= Cardinality(L)
<1> DEFINE M == MatchedPredictions(P, L)
           f == [p \in M |-> CHOOSE l \in L : Matches(p, l)]
<1>1. \A p \in M : f[p] \in L /\ Matches(p, f[p])
  BY DEF MatchedPredictions
<1>2. f \in [M -> L]
  BY <1>1
<1>3. \A p, q \in M : f[p] = f[q] => p = q
  <2> HIDE DEF f
  <2> QED
    BY <1>1 DEF LabelsUnshared, MatchedPredictions
<1>4. f \in Injection(M, L)
  BY <1>2, <1>3 DEF Injection, IsInjective
<1> QED
  BY <1>4, FS_Injection

\* The precision of a detector run is never above one.
THEOREM PrecisionBounded ==
    ASSUME NEW P, NEW L, IsFiniteSet(P), IsFiniteSet(L)
    PROVE  AtMostOne(Evaluate(P, L).precision)
<1>1. CASE P = {} \/ L = {}
  BY <1>1 DEF Evaluate, AtMostOne
<1>2. CASE ~(P = {} \/ L = {})
  BY <1>2, MatchedCount DEF Evaluate, AtMostOne
<1> QED
  BY <1>1, <1>2

\* Recall and F1, which the promotion gate compares, are at most one when
\* no label stands for two predictions; evaluate does not see to that
\* (evaluate.py:147), and MCReporting shows a recall of two.
THEOREM RecallBounded ==
    ASSUME NEW P, NEW L, IsFiniteSet(P), IsFiniteSet(L), LabelsUnshared(P, L)
    PROVE  AtMostOne(Evaluate(P, L).recall) /\ AtMostOne(Evaluate(P, L).f1)
<1>1. CASE P = {} \/ L = {}
  BY <1>1 DEF Evaluate, AtMostOne
<1>2. CASE ~(P = {} \/ L = {})
  <2> DEFINE tp == Cardinality(MatchedPredictions(P, L))
             p == Cardinality(P)
             l == Cardinality(L)
  <2>1. /\ tp \in Nat /\ p \in Nat /\ l \in Nat
        /\ tp <= p /\ tp <= l
    BY MatchedCount, MatchedAtMostLabels
  <2>2. 2 * tp <= p + l
    <3> HIDE DEF tp, p, l
    <3> QED
      BY <2>1
  <2> QED
    BY <1>2, <2>1, <2>2 DEF Evaluate, AtMostOne
<1> QED
  BY <1>1, <1>2

-----------------------------------------------------------------------------
(* The invariant.                                                          *)

\* What a job has in hand is what its next step needs: rows and a sound
\* split of them, then a report, then a run to log; and the drift job that
\* is about to log judged enough rows for every feature to have metrics.
JobSound(w) ==
    LET j == job[w]
    IN  /\ IsFiniteSet(j.current) /\ IsFiniteSet(j.reference)
        /\ j.at \in {"report", "start"} =>
              /\ j.rows # <<>>
              /\ Cardinality(j.current) >= 5
              /\ Cardinality(j.reference) >= 10
              /\ \A c \in j.current, r \in j.reference : r < c /\ j.rows[r] <= j.rows[c]
        /\ j.at = "start" => Newest(j.rows) \in reports
        /\ j.at = "log" =>
              /\ j.run \in DOMAIN runs
              /\ runs[j.run].exp = "drift" =>
                    Cardinality(j.current) >= 5 /\ Cardinality(j.reference) >= 10
        /\ j.at = "skipped" => Len(j.rows) <= 20

JobInv == \A w \in Workers : JobSound(w)

\* A drift run has its report on disk, and all of its metrics or none.
RunsInv ==
    \A r \in DOMAIN runs : runs[r].exp = "drift" =>
        /\ runs[r].data \in reports
        /\ runs[r].metrics \in {{}, DriftGauges}

\* A gauge shows a run of its own experiment.
GaugeInv ==
    \A exp \in {"forecaster", "detector", "drift"}, g \in Gauges :
        g \in GaugesOf(exp) /\ gauge[g] # 0 => runs[gauge[g]].exp = exp

\* A round sets the gauges of one run, none of them further on already; the
\* drift gauges it has set show that run, the flag is set last, and outside
\* of such a round they agree.
PollInv ==
    /\ poll.todo # {} =>
          /\ poll.run \in DOMAIN runs
          /\ poll.todo \subseteq GaugesOf(runs[poll.run].exp)
          /\ \A g \in poll.todo : gauge[g] <= poll.run
    /\ \/ /\ "drift_detected" \in poll.todo
          /\ \A f \in Features \ poll.todo : gauge[f] = poll.run
       \/ /\ poll.todo \cap DriftGauges = {}
          /\ \A f \in Features : gauge[f] = gauge["drift_detected"]

IInv == ReportingTypeOK /\ JobInv /\ RunsInv /\ GaugeInv /\ PollInv

-----------------------------------------------------------------------------
(* The table, and the runs of MLflow.                                      *)

\* Adding rows behind the last one that is not newer keeps the order.
LEMMA InsertSorted ==
    ASSUME NEW rows \in Seq(Ends), Ascending(rows), NEW t \in Ends, NEW n \in Nat,
           NEW k \in 0..Len(rows), \A i \in DOMAIN rows : i <= k <=> rows[i] <= t,
           MaxEnd \in Nat
    PROVE  LET new == SubSeq(rows, 1, k) \o NewRows(t, n) \o SubSeq(rows, k + 1, Len(rows))
           IN  new \in Seq(Ends) /\ Ascending(new)
<1> DEFINE len == Len(rows)
           a == SubSeq(rows, 1, k)
           b == NewRows(t, n)
           c == SubSeq(rows, k + 1, len)
           ab == a \o b
           new == ab \o c
<1>1. /\ len \in Nat /\ DOMAIN rows = 1..len
      /\ \A i \in 1..len : rows[i] \in Ends
      /\ k \in Nat /\ k <= len
  <2>1. len \in Nat /\ DOMAIN rows = 1..len
    BY LenProperties
  <2>2. \A i \in 1..len : rows[i] \in Ends
    BY ElementOfSeq
  <2> HIDE DEF len
  <2>3. k \in 0..len
    BY DEF len
  <2> QED
    BY <2>1, <2>2, <2>3
<1>2. a \in Seq(Ends) /\ Len(a) = k /\ \A i \in 1..k : a[i] = rows[i]
  <2>1. \A i \in 1..k : rows[i] \in Ends
    BY <1>1
  <2>2. /\ a \in Seq(Ends)
        /\ Len(a) = IF 1 <= k THEN k - 1 + 1 ELSE 0
        /\ \A i \in 1..(k - 1 + 1) : a[i] = rows[1 + i - 1]
    BY <1>1, <2>1, SubSeqProperties
  <2> HIDE DEF a
  <2> QED
    BY <1>1, <2>2
<1>3. b \in Seq(Ends) /\ Len(b) = n /\ \A i \in 1..n : b[i] = t
  BY DEF NewRows
<1>4. /\ c \in Seq(Ends) /\ Len(c) = len - k
      /\ \A i \in 1..(len - k) : c[i] = rows[k + i]
  <2>1. \A i \in (k + 1)..len : rows[i] \in Ends
    BY <1>1
  <2>2. /\ c \in Seq(Ends)
        /\ Len(c) = IF k + 1 <= len THEN len - (k + 1) + 1 ELSE 0
        /\ \A i \in 1..(len - (k + 1) + 1) : c[i] = rows[k + 1 + i - 1]
    BY <1>1, <2>1, SubSeqProperties
  <2> HIDE DEF c, len
  <2>3. Len(c) = len - k
    BY <1>1, <2>2
  <2>4. ASSUME NEW i \in 1..(len - k) PROVE c[i] = rows[k + i]
    <3>1. i \in 1..(len - (k + 1) + 1) /\ k + 1 + i - 1 = k + i
      BY <1>1
    <3> QED
      BY <2>2, <3>1
  <2> QED
    BY <2>2, <2>3, <2>4
<1> HIDE DEF a, b, c
<1>5. /\ ab \in Seq(Ends) /\ Len(ab) = k + n
      /\ \A i \in 1..(k + n) : ab[i] = IF i <= k THEN a[i] ELSE b[i - k]
  <2>1. a \in Seq(Ends) /\ b \in Seq(Ends)
    BY <1>2, <1>3
  <2>2. /\ ab \in Seq(Ends) /\ Len(ab) = Len(a) + Len(b)
        /\ \A i \in 1..(Len(a) + Len(b)) :
              ab[i] = IF i <= Len(a) THEN a[i] ELSE b[i - Len(a)]
    BY <2>1, ConcatProperties
  <2>3. Len(a) = k /\ Len(b) = n
    BY <1>2, <1>3
  <2> QED
    BY <2>2, <2>3
<1> HIDE DEF ab
<1>6. /\ new \in Seq(Ends) /\ Len(new) = len + n
      /\ \A i \in 1..(len + n) :
            new[i] = IF i <= k + n THEN ab[i] ELSE c[i - (k + n)]
  <2>1. /\ new \in Seq(Ends) /\ Len(new) = Len(ab) + Len(c)
        /\ \A i \in 1..(Len(ab) + Len(c)) :
              new[i] = IF i <= Len(ab) THEN ab[i] ELSE c[i - Len(ab)]
    BY <1>4, <1>5, ConcatProperties
  <2>2. Len(ab) + Len(c) = len + n
    BY <1>1, <1>4, <1>5
  <2> QED
    BY <1>5, <2>1, <2>2
<1>7. \A i \in 1..(len + n) :
         new[i] = IF i <= k THEN rows[i] ELSE IF i <= k + n THEN t ELSE rows[i - n]
  <2> TAKE i \in 1..(len + n)
  <2> HIDE DEF new
  <2>1. CASE i <= k
    <3>1. i \in 1..k /\ i \in 1..(k + n) /\ i <= k + n
      BY <1>1, <2>1
    <3> QED
      BY <1>2, <1>5, <1>6, <2>1, <3>1
  <2>2. CASE k < i /\ i <= k + n
    <3>1. i - k \in 1..n /\ i \in 1..(k + n) /\ ~(i <= k)
      BY <1>1, <2>2
    <3> QED
      BY <1>3, <1>5, <1>6, <2>2, <3>1
  <2>3. CASE k + n < i
    <3>1. /\ i - (k + n) \in 1..(len - k) /\ k + (i - (k + n)) = i - n
          /\ ~(i <= k) /\ ~(i <= k + n)
      BY <1>1, <2>3
    <3> QED
      BY <1>4, <1>6, <3>1
  <2> QED
    BY <1>1, <2>1, <2>2, <2>3
<1>8. Ascending(new)
  <2>1. DOMAIN new = 1..(len + n)
    BY <1>6, LenProperties
  <2>2. SUFFICES ASSUME NEW i \in 1..(len + n), NEW j \in 1..(len + n), i <= j
                 PROVE  new[i] <= new[j]
    BY <2>1 DEF Ascending
  <2> HIDE DEF new
  <2>3. \A x \in 1..len : rows[x] \in Int /\ t \in Int
    BY <1>1 DEF Ends
  <2>4. \A x \in 1..len : x <= k <=> rows[x] <= t
    BY <1>1
  <2>5. CASE j <= k
    <3>1. i \in 1..len /\ j \in 1..len /\ i <= k
      BY <1>1, <2>2, <2>5
    <3> QED
      BY <1>1, <1>7, <2>2, <2>5, <3>1 DEF Ascending
  <2>6. CASE k < j /\ j <= k + n
    <3>1. new[j] = t
      BY <1>1, <1>7, <2>6
    <3>2. CASE i <= k
      <4>1. i \in 1..len
        BY <1>1, <3>2
      <4> QED
        BY <1>7, <2>4, <3>1, <3>2, <4>1
    <3>3. CASE ~(i <= k)
      <4>1. i <= k + n
        BY <1>1, <2>2, <2>6
      <4> QED
        BY <1>7, <2>3, <3>1, <3>3, <4>1 DEF Ends
    <3> QED
      BY <3>2, <3>3
  <2>7. CASE k + n < j
    <3>1. j - n \in 1..len /\ k < j - n /\ ~(j <= k) /\ ~(j <= k + n)
      BY <1>1, <2>7
    <3>2. new[j] = rows[j - n]
      BY <1>7, <3>1
    <3>3. CASE i <= k
      <4>1. i \in 1..len /\ i <= j - n /\ new[i] = rows[i]
        BY <1>1, <1>7, <3>1, <3>3
      <4> QED
        BY <1>1, <3>1, <3>2, <4>1 DEF Ascending
    <3>4. CASE ~(i <= k) /\ i <= k + n
      <4>1. new[i] = t
        BY <1>7, <3>4
      <4>2. ~(rows[j - n] <= t)
        BY <1>1, <2>4, <3>1
      <4> QED
        BY <2>3, <3>1, <3>2, <4>1, <4>2
    <3>5. CASE ~(i <= k + n)
      <4>1. i - n \in 1..len /\ i - n <= j - n /\ ~(i <= k)
        BY <1>1, <2>2, <3>5
      <4>2. new[i] = rows[i - n]
        BY <1>7, <3>5, <4>1
      <4> QED
        BY <1>1, <3>1, <3>2, <4>1, <4>2 DEF Ascending
    <3> QED
      BY <3>3, <3>4, <3>5
  <2> QED
    BY <1>1, <2>5, <2>6, <2>7
<1> QED
  BY <1>6, <1>8 DEF a, b, c, ab

\* Nothing takes a run away or changes what it is of.
RunsKept ==
    /\ Len(runs) \in Nat /\ Len(runs') \in Nat
    /\ DOMAIN runs = 1..Len(runs) /\ DOMAIN runs' = 1..Len(runs')
    /\ Len(runs) <= Len(runs')
    /\ \A r \in DOMAIN runs :
          runs'[r].exp = runs[r].exp /\ runs'[r].data = runs[r].data

LEMMA RunsUnchanged ==
    ASSUME runs \in Seq(Run), runs' = runs
    PROVE  RunsKept
BY LenProperties DEF RunsKept

LEMMA RunAppended ==
    ASSUME runs \in Seq(Run), NEW r \in Run, runs' = Append(runs, r)
    PROVE  /\ RunsKept
           /\ runs' \in Seq(Run)
           /\ Len(runs') = Len(runs) + 1
           /\ \A i \in DOMAIN runs : runs'[i] = runs[i]
           /\ runs'[Len(runs) + 1] = r
<1>1. /\ runs' \in Seq(Run) /\ Len(runs') = Len(runs) + 1
      /\ \A i \in 1..Len(runs) : runs'[i] = runs[i]
      /\ runs'[Len(runs) + 1] = r
  BY AppendProperties
<1>2. /\ Len(runs) \in Nat /\ DOMAIN runs = 1..Len(runs)
      /\ Len(runs') \in Nat /\ DOMAIN runs' = 1..Len(runs')
  BY <1>1, LenProperties
<1> QED
  BY <1>1, <1>2 DEF RunsKept

LEMMA RunLogged ==
    ASSUME runs \in Seq(Run), NEW n \in DOMAIN runs, NEW m \in SUBSET Gauges,
           runs' = [runs EXCEPT ![n].metrics = m]
    PROVE  /\ RunsKept
           /\ runs' \in Seq(Run)
           /\ Len(runs') = Len(runs)
           /\ \A i \in DOMAIN runs :
                 runs'[i].metrics = IF i = n THEN m ELSE runs[i].metrics
<1> DEFINE e == [runs[n] EXCEPT !.metrics = m]
<1>1. Len(runs) \in Nat /\ DOMAIN runs = 1..Len(runs)
  BY LenProperties
<1>2. runs[n] \in Run
  BY <1>1, ElementOfSeq
<1>3. e \in Run /\ e.exp = runs[n].exp /\ e.data = runs[n].data /\ e.metrics = m
  BY <1>2 DEF Run
<1>4. runs' = [runs EXCEPT ![n] = e]
  OBVIOUS
<1> HIDE DEF e
<1>5. /\ runs' \in Seq(Run) /\ Len(runs') = Len(runs)
      /\ \A i \in 1..Len(runs) : runs'[i] = IF i = n THEN e ELSE runs[i]
  BY <1>1, <1>3, <1>4, ExceptSeq
<1>6. DOMAIN runs' = 1..Len(runs')
  BY <1>5, LenProperties
<1> QED
  BY <1>1, <1>3, <1>5, <1>6 DEF RunsKept

-----------------------------------------------------------------------------
(* Type correctness.                                                       *)

\* The latest run of an experiment, if it has one, is the last of its runs.
LEMMA LatestIsLast ==
    ASSUME runs \in Seq(Run), NEW exp
    PROVE  /\ LatestRun(exp) \in 0..Len(runs)
           /\ LatestRun(exp) # 0 =>
                 LatestRun(exp) \in DOMAIN runs /\ runs[LatestRun(exp)].exp = exp
           /\ \A r \in RunsOf(exp) : r <= LatestRun(exp)
<1>1. Len(runs) \in Nat /\ DOMAIN runs = 1..Len(runs)
  BY LenProperties
<1>2. RunsOf(exp) \subseteq 1..Len(runs)
  BY <1>1 DEF RunsOf
<1>3. CASE RunsOf(exp) = {}
  BY <1>1, <1>3 DEF LatestRun
<1>4. CASE RunsOf(exp) # {}
  <2>1. RunsOf(exp) \in SUBSET (0..Len(runs))
    BY <1>1, <1>2
  <2>2. /\ LatestRun(exp) \in RunsOf(exp)
        /\ \A r \in RunsOf(exp) : r <= LatestRun(exp)
    BY <1>1, <1>4, <2>1, LargestExists DEF LatestRun
  <2> QED
    BY <1>1, <1>2, <2>2 DEF RunsOf
<1> QED
  BY <1>3, <1>4

LEMMA ExperimentGauges ==
    \A exp \in {"forecaster", "detector", "drift"} : GaugesOf(exp) \subseteq Gauges
BY DEF GaugesOf, Gauges, DriftGauges

LEMMA InitType ==
    ASSUME ReportingAssumption, ReportingInit
    PROVE  ReportingTypeOK
<1>1. /\ <<>> \in Seq(Ends) /\ <<>> \in Seq(Run) /\ Len(<<>>) = 0
      /\ DOMAIN <<>> = {}
  BY EmptySeq
<1>2. Ascending(<<>>)
  BY <1>1 DEF Ascending
<1> QED
  BY <1>1, <1>2 DEF ReportingInit, ReportingTypeOK, Idle, Gauges

LEMMA TypePreserved ==
    ASSUME ReportingAssumption, IInv, ReportingNext
    PROVE  ReportingTypeOK'
<1> USE DEF ReportingTypeOK
<1>1. /\ ReportingTypeOK
      /\ runs \in Seq(Run) /\ table \in Seq(Ends) /\ file \in Seq(Ends)
      /\ Ascending(table) /\ Ascending(file)
      /\ Len(runs) \in Nat /\ DOMAIN runs = 1..Len(runs)
      /\ \A r \in DOMAIN runs : runs[r] \in Run
  <2>1. runs \in Seq(Run) /\ ReportingTypeOK
    BY DEF IInv
  <2>2. Len(runs) \in Nat /\ DOMAIN runs = 1..Len(runs)
    BY <2>1, LenProperties
  <2>3. \A r \in 1..Len(runs) : runs[r] \in Run
    BY <2>1, ElementOfSeq
  <2> QED
    BY <2>1, <2>2, <2>3
<1> DEFINE Jobs == [at : {"idle", "report", "start", "log", "skipped"},
                    rows : Seq(Ends), current : SUBSET (Nat \ {0}),
                    reference : SUBSET (Nat \ {0}), run : Nat]
<1>2. /\ \A w \in Workers : job[w] \in Jobs
      /\ <<>> \in Seq(Ends)
      /\ Idle \in Jobs
  BY <1>1, EmptySeq DEF Idle
<1>3. ASSUME NEW w \in Workers, NEW exp \in {"forecaster", "detector", "drift"},
             NEW rows \in Seq(Ends), rows # <<>>, StartRun(w, exp, rows)
      PROVE  ReportingTypeOK'
  <2> DEFINE r == [exp |-> exp, metrics |-> {}, data |-> Newest(rows)]
  <2>1. Newest(rows) \in Ends
    <3>1. Len(rows) \in 1..Len(rows)
      BY <1>3, EmptySeq
    <3> QED
      BY <3>1, ElementOfSeq DEF Newest
  <2>2. r \in Run
    BY <2>1 DEF Run
  <2>3. /\ runs' \in Seq(Run) /\ Len(runs') = Len(runs) + 1
        /\ \A i \in DOMAIN runs : runs'[i] = runs[i]
        /\ runs'[Len(runs) + 1] = r /\ RunsKept
    BY <1>1, <1>3, <2>2, RunAppended DEF StartRun
  <2>4. job' \in [Workers -> Jobs]
    <3> DEFINE j == [job[w] EXCEPT !.at = "log", !.rows = <<>>, !.run = Len(runs) + 1]
    <3>1. job[w] \in Jobs /\ Len(runs) + 1 \in Nat
      BY <1>1, <1>2
    <3>2. j \in Jobs
      BY <1>2, <3>1
    <3>3. job' = [job EXCEPT ![w] = j]
      BY <1>1, <1>3 DEF StartRun
    <3> HIDE DEF j
    <3> QED
      BY <1>1, <3>2, <3>3
  <2>5. \A i \in DOMAIN runs' : runs'[i].metrics \subseteq GaugesOf(runs'[i].exp)
    <3> TAKE i \in DOMAIN runs'
    <3>1. CASE i \in DOMAIN runs
      BY <1>1, <2>3, <3>1
    <3>2. CASE i = Len(runs) + 1
      BY <2>3, <3>2
    <3> QED
      BY <2>3, <3>1, <3>2 DEF RunsKept
  <2>6. gauge' \in [Gauges -> 0..Len(runs')] /\ poll'.run \in 0..Len(runs')
    BY <1>1, <1>3, <2>3 DEF StartRun
  <2> QED
    BY <1>1, <1>3, <2>3, <2>4, <2>5, <2>6 DEF StartRun
<1>4. ASSUME NEW t \in Ends, NEW n \in Batches, Insert(t, n)
      PROVE  ReportingTypeOK'
  <2>1. n \in Nat /\ MaxEnd \in Nat
    BY DEF ReportingAssumption
  <2>2. PICK k \in 0..Len(table) :
           /\ \A i \in DOMAIN table : i <= k <=> table[i] <= t
           /\ table' = SubSeq(table, 1, k) \o NewRows(t, n) \o SubSeq(table, k + 1, Len(table))
    BY <1>4 DEF Insert
  <2>3. table' \in Seq(Ends) /\ Ascending(table')
    BY <1>1, <2>1, <2>2, InsertSorted
  <2> QED
    BY <1>1, <1>4, <2>3 DEF Insert
<1>5. CASE Export
  BY <1>1, <1>5 DEF Export
<1>6. ASSUME NEW w \in Workers, SplitWindows(w)
      PROVE  ReportingTypeOK'
  <2>1. Ordered(Split(file), file) /\ file # <<>>
    BY <1>1, <1>6, SplitOrdered DEF SplitWindows
  <2>2. DOMAIN file \subseteq Nat \ {0}
    BY <1>1, LenProperties
  <2>3. Split(file).current \subseteq Nat \ {0} /\ Split(file).reference \subseteq Nat \ {0}
    BY <2>1, <2>2 DEF Ordered
  <2> DEFINE j == [at |-> IF Enough(Split(file)) THEN "report" ELSE "skipped", rows |-> file,
                   current |-> Split(file).current, reference |-> Split(file).reference,
                   run |-> 0]
  <2>4. j \in Jobs
    BY <1>1, <2>3
  <2>5. job' = [job EXCEPT ![w] = j]
    BY <1>6 DEF SplitWindows
  <2> HIDE DEF j
  <2>6. job' \in [Workers -> Jobs]
    BY <1>1, <2>4, <2>5
  <2> QED
    BY <1>1, <1>6, <2>6 DEF SplitWindows
<1>7. ASSUME NEW w \in Workers, WriteReport(w)
      PROVE  ReportingTypeOK'
  <2>1. Newest(job[w].rows) \in Ends
    <3>1. job[w].rows # <<>> /\ job[w].rows \in Seq(Ends)
      BY <1>2, <1>7 DEF WriteReport, IInv, JobInv, JobSound
    <3>2. Len(job[w].rows) \in 1..Len(job[w].rows)
      BY <3>1, EmptySeq
    <3> QED
      BY <3>1, <3>2, ElementOfSeq DEF Newest
  <2>2. job' \in [Workers -> Jobs]
    BY <1>1, <1>2, <1>7 DEF WriteReport
  <2> QED
    BY <1>1, <1>7, <2>1, <2>2 DEF WriteReport
<1>8. ASSUME NEW w \in Workers, StartDriftRun(w)
      PROVE  ReportingTypeOK'
  <2>1. job[w].rows # <<>> /\ job[w].rows \in Seq(Ends)
    BY <1>2, <1>8 DEF StartDriftRun, IInv, JobInv, JobSound
  <2> QED
    BY <1>3, <1>8, <2>1 DEF StartDriftRun
<1>9. ASSUME NEW w \in Workers, NEW exp \in {"forecaster", "detector"}, StartTraining(w, exp)
      PROVE  ReportingTypeOK'
  BY <1>1, <1>3, <1>9 DEF StartTraining
<1>10. ASSUME NEW w \in Workers, LogMetrics(w)
       PROVE  ReportingTypeOK'
  <2> DEFINE r == job[w].run
             m == IF runs[r].exp = "drift"
                  THEN Judged(job[w].current, job[w].reference) \cup {"drift_detected"}
                  ELSE GaugesOf(runs[r].exp)
  <2>1. r \in DOMAIN runs
    BY <1>10 DEF LogMetrics, IInv, JobInv, JobSound
  <2>2. runs[r].exp \in {"forecaster", "detector", "drift"}
    BY <1>1, <2>1 DEF Run
  <2>3. m \subseteq GaugesOf(runs[r].exp)
    BY DEF Judged, GaugesOf, DriftGauges
  <2>4. m \in SUBSET Gauges /\ runs' = [runs EXCEPT ![r].metrics = m]
    BY <1>10, <2>2, <2>3, ExperimentGauges DEF LogMetrics
  <2> HIDE DEF m, r
  <2>5. /\ runs' \in Seq(Run) /\ Len(runs') = Len(runs) /\ RunsKept
        /\ \A i \in DOMAIN runs :
              runs'[i].metrics = IF i = r THEN m ELSE runs[i].metrics
    BY <1>1, <2>1, <2>4, RunLogged
  <2>6. \A i \in DOMAIN runs' : runs'[i].metrics \subseteq GaugesOf(runs'[i].exp)
    BY <1>1, <2>3, <2>5 DEF RunsKept
  <2>7. job' \in [Workers -> Jobs]
    BY <1>1, <1>2, <1>10 DEF LogMetrics
  <2> QED
    BY <1>1, <1>10, <2>5, <2>6, <2>7 DEF LogMetrics
<1>11. ASSUME NEW w \in Workers, Abort(w)
       PROVE  ReportingTypeOK'
  BY <1>1, <1>2, <1>11 DEF Abort
<1>12. ASSUME NEW q \in 1..3, Query(q)
       PROVE  ReportingTypeOK'
  <2> DEFINE r == LatestRun(Experiments[q])
  <2>1. r \in 0..Len(runs) /\ (r # 0 => r \in DOMAIN runs)
    BY <1>1, LatestIsLast
  <2>2. MetricsOf(r) \in SUBSET Gauges
    BY <1>1, <2>1 DEF MetricsOf, Run
  <2>3. NextQuery(q) \in 1..3
    BY DEF NextQuery
  <2> QED
    BY <1>1, <1>12, <2>1, <2>2, <2>3 DEF Query
<1>13. CASE QueryFails
  <2> DEFINE Polls == [query : 1..3, run : 0..Len(runs), todo : SUBSET Gauges]
  <2>1. poll' \in Polls
    <3>1. poll \in Polls /\ poll' = [poll EXCEPT !.query = 1] /\ 1 \in 1..3
      BY <1>1, <1>13 DEF QueryFails
    <3> QED
      BY ONLY <3>1
  <2> QED
    BY <1>1, <1>13, <2>1 DEF QueryFails
<1>14. ASSUME NEW g \in Gauges, SetGauge(g)
       PROVE  ReportingTypeOK'
  BY <1>1, <1>14 DEF SetGauge
<1>15. CASE RestartExporter
  BY <1>1, <1>15 DEF RestartExporter
<1> QED
  BY <1>4, <1>5, <1>6, <1>7, <1>8, <1>9, <1>10, <1>11, <1>12, <1>13, <1>14, <1>15
  DEF ReportingNext

-----------------------------------------------------------------------------
(* The rest of the invariant, part by part.                                *)

\* What the invariant says of a step's first state, without the sequences.
LEMMA StateFacts ==
    ASSUME IInv
    PROVE  /\ runs \in Seq(Run) /\ Len(runs) \in Nat /\ DOMAIN runs = 1..Len(runs)
           /\ \A r \in DOMAIN runs :
                 /\ runs[r].exp \in {"forecaster", "detector", "drift"}
                 /\ runs[r].metrics \subseteq GaugesOf(runs[r].exp)
           /\ gauge \in [Gauges -> 0..Len(runs)]
<1>1. runs \in Seq(Run) /\ gauge \in [Gauges -> 0..Len(runs)]
  BY DEF IInv, ReportingTypeOK
<1>2. Len(runs) \in Nat /\ DOMAIN runs = 1..Len(runs)
  BY <1>1, LenProperties
<1>3. \A r \in 1..Len(runs) : runs[r] \in Run
  BY <1>1, ElementOfSeq
<1>4. \A r \in DOMAIN runs : runs[r].exp \in {"forecaster", "detector", "drift"}
  BY <1>2, <1>3 DEF Run
<1> QED
  BY <1>1, <1>2, <1>4 DEF IInv, ReportingTypeOK

\* A run that is logged is the worker's own, and gets all of its metrics.
LEMMA LogsAll ==
    ASSUME IInv, NEW w \in Workers, LogMetrics(w)
    PROVE  /\ job[w].run \in DOMAIN runs
           /\ runs' = [runs EXCEPT ![job[w].run].metrics = GaugesOf(runs[job[w].run].exp)]
<1>1. /\ IsFiniteSet(job[w].current) /\ IsFiniteSet(job[w].reference)
      /\ job[w].run \in DOMAIN runs
      /\ runs[job[w].run].exp = "drift" =>
            Cardinality(job[w].current) >= 5 /\ Cardinality(job[w].reference) >= 10
  BY DEF LogMetrics, IInv, JobInv, JobSound
<1>2. Cardinality(job[w].current) \in Nat /\ Cardinality(job[w].reference) \in Nat
  BY <1>1, FS_CardinalityType
<1>3. runs[job[w].run].exp = "drift" =>
         Judged(job[w].current, job[w].reference) = Features
  BY <1>1, <1>2 DEF Judged
<1>4. GaugesOf("drift") = Features \cup {"drift_detected"}
  BY DEF GaugesOf, DriftGauges
<1> QED
  BY <1>1, <1>3, <1>4 DEF LogMetrics

LEMMA StepKeepsRuns ==
    ASSUME ReportingAssumption, IInv, ReportingNext
    PROVE  RunsKept /\ reports \subseteq reports'
<1>1. /\ runs \in Seq(Run) /\ table \in Seq(Ends) /\ file \in Seq(Ends)
  BY DEF IInv, ReportingTypeOK
<1>2. ASSUME NEW w \in Workers, NEW exp \in {"forecaster", "detector", "drift"},
             NEW rows \in Seq(Ends), rows # <<>>, StartRun(w, exp, rows)
      PROVE  RunsKept /\ reports \subseteq reports'
  <2> DEFINE r == [exp |-> exp, metrics |-> {}, data |-> Newest(rows)]
  <2>1. Len(rows) \in 1..Len(rows)
    BY <1>2, EmptySeq
  <2>2. Newest(rows) \in Ends
    BY <2>1, ElementOfSeq DEF Newest
  <2>3. r \in Run
    BY <2>2 DEF Run
  <2>4. runs' = Append(runs, r) /\ reports' = reports
    BY <1>2 DEF StartRun
  <2> HIDE DEF r
  <2> QED
    BY <1>1, <2>3, <2>4, RunAppended
<1>3. CASE \E w \in Workers : StartDriftRun(w)
  <2>1. PICK w \in Workers : StartDriftRun(w)
    BY <1>3
  <2>2. job[w].rows # <<>> /\ job[w].rows \in Seq(Ends)
    BY <2>1 DEF StartDriftRun, IInv, JobInv, JobSound, ReportingTypeOK
  <2> QED
    BY <1>2, <2>1, <2>2 DEF StartDriftRun
<1>4. CASE \E w \in Workers, exp \in {"forecaster", "detector"} : StartTraining(w, exp)
  BY <1>1, <1>2, <1>4 DEF StartTraining
<1>5. CASE \E w \in Workers : LogMetrics(w)
  <2>1. PICK w \in Workers : LogMetrics(w)
    BY <1>5
  <2> DEFINE n == job[w].run
             m == GaugesOf(runs[n].exp)
  <2>2. n \in DOMAIN runs /\ runs' = [runs EXCEPT ![n].metrics = m]
    BY <2>1, LogsAll
  <2>3. m \in SUBSET Gauges
    BY <2>2, StateFacts, ExperimentGauges
  <2>4. reports' = reports
    BY <2>1 DEF LogMetrics
  <2> HIDE DEF n, m
  <2> QED
    BY <1>1, <2>2, <2>3, <2>4, RunLogged
<1>6. CASE runs' = runs /\ reports \subseteq reports'
  BY <1>1, <1>6, RunsUnchanged
<1>7. CASE \/ \E t \in Ends, n \in Batches : Insert(t, n)
           \/ Export \/ QueryFails \/ RestartExporter
           \/ \E w \in Workers : SplitWindows(w) \/ WriteReport(w) \/ Abort(w)
           \/ \E q \in 1..3 : Query(q)
           \/ \E g \in Gauges : SetGauge(g)
  BY <1>6, <1>7 DEF Insert, Export, QueryFails, RestartExporter, SplitWindows,
     WriteReport, Abort, Query, SetGauge
<1> QED
  BY <1>3, <1>4, <1>5, <1>7 DEF ReportingNext

LEMMA JobPreserved ==
    ASSUME ReportingAssumption, IInv, ReportingNext
    PROVE  JobInv'
<1>1. /\ RunsKept /\ reports \subseteq reports' /\ runs \in Seq(Run)
      /\ file \in Seq(Ends) /\ Ascending(file)
      /\ \A w \in Workers : JobSound(w)
      /\ job = [w \in Workers |-> job[w]]
  BY StepKeepsRuns DEF IInv, JobInv, ReportingTypeOK
\* The worker that moves is the only one to look at.
<1>2. ASSUME NEW v \in Workers, job'[v] = job[v]
      PROVE  JobSound(v)'
  <2>1. JobSound(v)
    BY <1>1
  <2>2. job[v].at = "log" =>
           /\ job[v].run \in DOMAIN runs'
           /\ runs'[job[v].run].exp = runs[job[v].run].exp
    BY <1>1, <2>1 DEF JobSound, RunsKept
  <2> QED
    BY <1>1, <1>2, <2>1, <2>2 DEF JobSound
<1>3. ASSUME NEW w \in Workers, \A v \in Workers \ {w} : job'[v] = job[v], JobSound(w)'
      PROVE  JobInv'
  BY <1>2, <1>3 DEF JobInv
<1>4. ASSUME NEW w \in Workers, NEW exp \in {"forecaster", "detector", "drift"},
             NEW rows \in Seq(Ends), rows # <<>>, StartRun(w, exp, rows),
             exp = "drift" =>
                 Cardinality(job[w].current) >= 5 /\ Cardinality(job[w].reference) >= 10
      PROVE  JobInv'
  <2> DEFINE r == [exp |-> exp, metrics |-> {}, data |-> Newest(rows)]
  <2>1. Len(rows) \in 1..Len(rows)
    BY <1>4, EmptySeq
  <2>2. r \in Run
    BY <2>1, ElementOfSeq DEF Newest, Run
  <2>3. /\ Len(runs') = Len(runs) + 1 /\ runs'[Len(runs) + 1] = r
    BY <1>1, <1>4, <2>2, RunAppended DEF StartRun
  <2>4. Len(runs) + 1 \in DOMAIN runs'
    BY <1>1, <2>3 DEF RunsKept
  <2>5. /\ job'[w].at = "log" /\ job'[w].run = Len(runs) + 1
        /\ job'[w].current = job[w].current /\ job'[w].reference = job[w].reference
        /\ \A v \in Workers \ {w} : job'[v] = job[v]
    BY <1>1, <1>4 DEF StartRun, IInv, ReportingTypeOK
  <2>6. JobSound(w)
    BY <1>1
  <2>7. JobSound(w)'
    BY <1>4, <2>3, <2>4, <2>5, <2>6 DEF JobSound
  <2> QED
    BY <1>3, <2>5, <2>7
<1>5. ASSUME NEW w \in Workers, SplitWindows(w)
      PROVE  JobInv'
  <2> DEFINE s == Split(file)
  <2>1. /\ job'[w].at = IF Enough(s) THEN "report" ELSE "skipped"
        /\ job'[w].rows = file
        /\ job'[w].current = s.current /\ job'[w].reference = s.reference
        /\ \A v \in Workers \ {w} : job'[v] = job[v]
    BY <1>1, <1>5 DEF SplitWindows
  <2>2. Ordered(s, file) /\ file # <<>>
    BY <1>1, <1>5, SplitOrdered DEF SplitWindows
  <2>3. IsFiniteSet(s.current) /\ IsFiniteSet(s.reference)
    <3>1. Len(file) \in Nat /\ DOMAIN file = 1..Len(file)
      BY <1>1, LenProperties
    <3>2. IsFiniteSet(1..Len(file))
      BY <3>1, FS_Interval
    <3> QED
      BY <2>2, <3>1, <3>2, FS_Subset DEF Ordered
  <2>4. ~Enough(s) => Len(file) <= 20
    BY <1>1, FallbackEnough
  <2> HIDE DEF s
  <2>5. CASE Enough(s)
    BY <2>1, <2>2, <2>3, <2>5, <1>3 DEF JobSound, Ordered, Enough
  <2>6. CASE ~Enough(s)
    BY <2>1, <2>3, <2>4, <2>6, <1>3 DEF JobSound
  <2> QED
    BY <2>5, <2>6
<1>6. ASSUME NEW w \in Workers, WriteReport(w)
      PROVE  JobInv'
  <2>1. /\ job[w].at = "report"
        /\ job'[w] = [job[w] EXCEPT !.at = "start"]
        /\ \A v \in Workers \ {w} : job'[v] = job[v]
        /\ Newest(job[w].rows) \in reports'
    BY <1>1, <1>6 DEF WriteReport
  <2>2. /\ job'[w].at = "start" /\ job'[w].rows = job[w].rows
        /\ job'[w].current = job[w].current /\ job'[w].reference = job[w].reference
    BY <2>1 DEF IInv, ReportingTypeOK
  <2>3. JobSound(w)
    BY <1>1
  <2>4. JobSound(w)'
    BY <2>1, <2>2, <2>3 DEF JobSound, Newest
  <2> QED
    BY <1>3, <2>1, <2>4
<1>7. ASSUME NEW w \in Workers, StartDriftRun(w)
      PROVE  JobInv'
  <2>1. /\ job[w].at = "start" /\ job[w].rows # <<>> /\ job[w].rows \in Seq(Ends)
        /\ Cardinality(job[w].current) >= 5 /\ Cardinality(job[w].reference) >= 10
    BY <1>1, <1>7 DEF StartDriftRun, JobSound, IInv, ReportingTypeOK
  <2> QED
    BY <1>4, <1>7, <2>1 DEF StartDriftRun
<1>8. ASSUME NEW w \in Workers, NEW exp \in {"forecaster", "detector"}, StartTraining(w, exp)
      PROVE  JobInv'
  BY <1>1, <1>4, <1>8 DEF StartTraining
<1>9. ASSUME NEW w \in Workers, LogMetrics(w) \/ Abort(w)
      PROVE  JobInv'
  <2>1. job'[w] = Idle /\ \A v \in Workers \ {w} : job'[v] = job[v]
    BY <1>1, <1>9 DEF LogMetrics, Abort
  <2>2. JobSound(w)'
    BY <2>1, FS_EmptySet DEF JobSound, Idle
  <2> QED
    BY <1>3, <2>1, <2>2
<1>10. CASE job' = job
  BY <1>2, <1>10 DEF JobInv
<1>11. CASE \/ \E t \in Ends, n \in Batches : Insert(t, n)
            \/ Export \/ QueryFails \/ RestartExporter
            \/ \E q \in 1..3 : Query(q)
            \/ \E g \in Gauges : SetGauge(g)
  BY <1>10, <1>11 DEF Insert, Export, QueryFails, RestartExporter, Query, SetGauge
<1> QED
  BY <1>5, <1>6, <1>7, <1>8, <1>9, <1>11 DEF ReportingNext

LEMMA RunsPreserved ==
    ASSUME ReportingAssumption, IInv, ReportingNext
    PROVE  RunsInv'
<1>1. /\ RunsKept /\ reports \subseteq reports' /\ runs \in Seq(Run) /\ RunsInv
      /\ file \in Seq(Ends)
  BY StepKeepsRuns DEF IInv, ReportingTypeOK
<1>2. ASSUME NEW w \in Workers, NEW exp \in {"forecaster", "detector", "drift"},
             NEW rows \in Seq(Ends), rows # <<>>, StartRun(w, exp, rows),
             exp = "drift" => Newest(rows) \in reports
      PROVE  RunsInv'
  <2> DEFINE r == [exp |-> exp, metrics |-> {}, data |-> Newest(rows)]
  <2>1. Len(rows) \in 1..Len(rows)
    BY <1>2, EmptySeq
  <2>2. r \in Run
    BY <2>1, ElementOfSeq DEF Newest, Run
  <2>3. /\ Len(runs') = Len(runs) + 1 /\ runs'[Len(runs) + 1] = r
        /\ \A i \in DOMAIN runs : runs'[i] = runs[i]
    BY <1>1, <1>2, <2>2, RunAppended DEF StartRun
  <2>4. \A i \in DOMAIN runs' : i \in DOMAIN runs \/ i = Len(runs) + 1
    BY <1>1, <2>3 DEF RunsKept
  <2> QED
    BY <1>1, <1>2, <2>3, <2>4 DEF RunsInv
<1>3. CASE \E w \in Workers : StartDriftRun(w)
  <2>1. PICK w \in Workers : StartDriftRun(w)
    BY <1>3
  <2>2. /\ job[w].rows # <<>> /\ job[w].rows \in Seq(Ends)
        /\ Newest(job[w].rows) \in reports
    BY <2>1 DEF StartDriftRun, IInv, JobInv, JobSound, ReportingTypeOK
  <2> QED
    BY <1>2, <2>1, <2>2 DEF StartDriftRun
<1>4. CASE \E w \in Workers, exp \in {"forecaster", "detector"} : StartTraining(w, exp)
  BY <1>1, <1>2, <1>4 DEF StartTraining
<1>5. CASE \E w \in Workers : LogMetrics(w)
  <2>1. PICK w \in Workers : LogMetrics(w)
    BY <1>5
  <2> DEFINE n == job[w].run
             m == GaugesOf(runs[n].exp)
  <2>2. n \in DOMAIN runs /\ runs' = [runs EXCEPT ![n].metrics = m]
    BY <2>1, LogsAll
  <2>3. m \in SUBSET Gauges
    BY <2>2, StateFacts, ExperimentGauges
  <2>4. runs[n].exp = "drift" => m = DriftGauges
    BY DEF GaugesOf
  <2> HIDE DEF n, m
  <2>5. /\ Len(runs') = Len(runs)
        /\ \A i \in DOMAIN runs : runs'[i].metrics = IF i = n THEN m ELSE runs[i].metrics
    BY <1>1, <2>2, <2>3, RunLogged
  <2> QED
    BY <1>1, <2>4, <2>5 DEF RunsInv, RunsKept
<1>6. CASE runs' = runs
  BY <1>1, <1>6 DEF RunsInv
<1>7. CASE \/ \E t \in Ends, n \in Batches : Insert(t, n)
           \/ Export \/ QueryFails \/ RestartExporter
           \/ \E w \in Workers : SplitWindows(w) \/ WriteReport(w) \/ Abort(w)
           \/ \E q \in 1..3 : Query(q)
           \/ \E g \in Gauges : SetGauge(g)
  BY <1>6, <1>7 DEF Insert, Export, QueryFails, RestartExporter, SplitWindows,
     WriteReport, Abort, Query, SetGauge
<1> QED
  BY <1>3, <1>4, <1>5, <1>7 DEF ReportingNext

\* Only the exporter's thread changes what it shows and is at.
LEMMA OthersLeaveGauges ==
    ASSUME ReportingNext
    PROVE  \/ gauge' = gauge /\ poll' = poll
           \/ runs' = runs /\ \/ \E q \in 1..3 : Query(q)
                              \/ \E g \in Gauges : SetGauge(g)
                              \/ QueryFails \/ RestartExporter
BY DEF ReportingNext, Insert, Export, SplitWindows, WriteReport, StartDriftRun, StartTraining,
   StartRun, LogMetrics, Abort, Query, SetGauge, QueryFails, RestartExporter

LEMMA GaugePreserved ==
    ASSUME ReportingAssumption, IInv, ReportingNext
    PROVE  GaugeInv'
<1>1. /\ RunsKept /\ GaugeInv /\ PollInv
      /\ Len(runs) \in Nat /\ DOMAIN runs = 1..Len(runs)
      /\ gauge \in [Gauges -> 0..Len(runs)]
  BY StepKeepsRuns, StateFacts DEF IInv
<1>2. CASE gauge' = gauge
  <2>1. \A g \in Gauges : gauge[g] # 0 => gauge[g] \in DOMAIN runs
    BY <1>1
  <2> QED
    BY <1>1, <1>2, <2>1 DEF GaugeInv, RunsKept
<1>3. CASE \E g \in Gauges : SetGauge(g)
  <2>1. PICK g \in Gauges : SetGauge(g)
    BY <1>3
  <2>2. /\ runs' = runs /\ gauge' = [gauge EXCEPT ![g] = poll.run]
        /\ poll.run \in DOMAIN runs /\ g \in GaugesOf(runs[poll.run].exp)
    BY <1>1, <2>1 DEF SetGauge, PollInv
  <2>3. runs[poll.run].exp \in {"forecaster", "detector", "drift"}
    BY <2>2, StateFacts
  \* An exporter gauge belongs to one experiment.
  <2>4. \A e \in {"forecaster", "detector", "drift"} :
           g \in GaugesOf(e) => e = runs[poll.run].exp
    BY <2>2, <2>3 DEF GaugesOf, DriftGauges, ReportingAssumption
  <2> QED
    BY <1>1, <2>2, <2>4 DEF GaugeInv
<1>4. CASE RestartExporter
  BY <1>4 DEF RestartExporter, GaugeInv
<1> QED
  BY <1>2, <1>3, <1>4, OthersLeaveGauges DEF Query, QueryFails

LEMMA PollPreserved ==
    ASSUME ReportingAssumption, IInv, ReportingNext
    PROVE  PollInv'
<1>1. /\ RunsKept /\ GaugeInv /\ PollInv /\ RunsInv
      /\ runs \in Seq(Run) /\ Len(runs) \in Nat /\ DOMAIN runs = 1..Len(runs)
      /\ gauge \in [Gauges -> 0..Len(runs)]
      /\ Features \subseteq Gauges /\ "drift_detected" \in Gauges
      /\ "drift_detected" \notin Features
  BY StepKeepsRuns, StateFacts DEF IInv, Gauges, DriftGauges, ReportingAssumption
<1>2. CASE gauge' = gauge /\ poll' = poll
  <2>1. poll.todo # {} => poll.run \in DOMAIN runs' /\ runs'[poll.run].exp = runs[poll.run].exp
    BY <1>1 DEF PollInv, RunsKept
  <2> QED
    BY <1>1, <1>2, <2>1 DEF PollInv
<1>3. ASSUME NEW q \in 1..3, Query(q)
      PROVE  PollInv'
  <2> DEFINE r == LatestRun(Experiments[q])
             todo == MetricsOf(r)
  <2>1. /\ poll.todo = {} /\ runs' = runs /\ gauge' = gauge
        /\ poll'.run = r /\ poll'.todo = todo
    BY <1>3 DEF Query
  <2>2. \A f \in Features : gauge[f] = gauge["drift_detected"]
    BY <1>1, <2>1 DEF PollInv
  <2>3. /\ r \in 0..Len(runs)
        /\ r # 0 => r \in DOMAIN runs /\ runs[r].exp = Experiments[q]
        /\ \A i \in DOMAIN runs : runs[i].exp = Experiments[q] => i <= r
    BY <1>1, LatestIsLast DEF RunsOf
  <2> HIDE DEF r
  <2>4. CASE todo = {}
    BY <2>1, <2>2, <2>4 DEF PollInv
  <2>5. CASE todo # {}
    <3>1. r \in DOMAIN runs /\ todo = runs[r].metrics
      BY <2>3, <2>5 DEF MetricsOf
    <3>2. /\ runs[r].exp \in {"forecaster", "detector", "drift"}
          /\ todo \subseteq GaugesOf(runs[r].exp)
      BY <3>1, StateFacts
    <3>3. ASSUME NEW g \in todo PROVE gauge[g] <= r
      <4>1. g \in GaugesOf(runs[r].exp) /\ g \in Gauges
        BY <3>2, ExperimentGauges
      <4>2. gauge[g] # 0 => gauge[g] \in DOMAIN runs /\ runs[gauge[g]].exp = runs[r].exp
        BY <1>1, <3>2, <4>1 DEF GaugeInv
      <4>3. gauge[g] # 0 => gauge[g] <= r
        BY <2>3, <3>1, <4>2
      <4> QED
        BY <1>1, <2>3, <4>1, <4>3
    <3>4. CASE runs[r].exp = "drift"
      <4>1. todo = DriftGauges
        BY <1>1, <2>5, <3>1, <3>4 DEF RunsInv
      <4>2. "drift_detected" \in todo /\ Features \ todo = {}
        BY <4>1 DEF DriftGauges
      <4> HIDE DEF todo
      <4> QED
        BY <2>1, <3>1, <3>2, <3>3, <4>2 DEF PollInv
    <3>5. CASE runs[r].exp # "drift"
      <4>1. todo \cap DriftGauges = {}
        BY <3>2, <3>5 DEF GaugesOf, DriftGauges, ReportingAssumption
      <4> HIDE DEF todo
      <4> QED
        BY <2>1, <2>2, <3>1, <3>2, <3>3, <4>1 DEF PollInv
    <3> QED
      BY <3>4, <3>5
  <2> QED
    BY <2>4, <2>5
<1>4. ASSUME NEW g \in Gauges, SetGauge(g)
      PROVE  PollInv'
  <2>1. /\ g \in poll.todo /\ (g = "drift_detected" => poll.todo = {g})
        /\ runs' = runs /\ gauge' = [gauge EXCEPT ![g] = poll.run]
        /\ poll' = [poll EXCEPT !.todo = @ \ {g}]
    BY <1>4 DEF SetGauge
  <2>2. poll'.run = poll.run /\ poll'.todo = poll.todo \ {g}
    BY <2>1 DEF IInv, ReportingTypeOK
  <2>3. /\ poll.run \in DOMAIN runs
        /\ poll.todo \subseteq GaugesOf(runs[poll.run].exp)
        /\ \A x \in poll.todo : gauge[x] <= poll.run
        /\ runs[poll.run].exp \in {"forecaster", "detector", "drift"}
    BY <1>1, <2>1, StateFacts DEF PollInv
  <2>4. poll.todo \subseteq Gauges
    BY <2>3, ExperimentGauges
  <2>5. /\ gauge'[g] = poll.run
        /\ \A x \in Gauges : x # g => gauge'[x] = gauge[x]
    BY <1>1, <2>1
  <2>6. \A x \in poll'.todo : gauge'[x] <= poll'.run
    BY <2>2, <2>3, <2>4, <2>5
  <2>7. CASE g = "drift_detected"
    <3>1. \A f \in Features : gauge'[f] = gauge'["drift_detected"]
      BY <1>1, <2>1, <2>5, <2>7 DEF PollInv, DriftGauges
    <3> QED
      BY <2>1, <2>2, <2>7, <3>1 DEF PollInv
  <2>8. CASE g \in Features
    <3>1. "drift_detected" \in poll.todo /\ \A f \in Features \ poll.todo : gauge[f] = poll.run
      BY <1>1, <2>1, <2>8 DEF PollInv, DriftGauges
    <3>2. /\ "drift_detected" \in poll'.todo
          /\ \A f \in Features \ poll'.todo : gauge'[f] = poll'.run
      BY <1>1, <2>2, <2>5, <2>8, <3>1
    <3> QED
      BY <2>1, <2>2, <2>3, <2>6, <3>2 DEF PollInv
  <2>9. CASE g \notin DriftGauges
    <3>1. /\ \A f \in Features : gauge'[f] = gauge[f]
          /\ gauge'["drift_detected"] = gauge["drift_detected"]
      BY <1>1, <2>5, <2>9 DEF DriftGauges
    <3>2. \/ /\ "drift_detected" \in poll'.todo
             /\ \A f \in Features \ poll'.todo : gauge'[f] = poll'.run
          \/ /\ poll'.todo \cap DriftGauges = {}
             /\ \A f \in Features : gauge'[f] = gauge'["drift_detected"]
      BY <1>1, <2>2, <2>9, <3>1 DEF PollInv, DriftGauges
    <3> QED
      BY <2>1, <2>2, <2>3, <2>6, <3>2 DEF PollInv
  <2> QED
    BY <2>7, <2>8, <2>9 DEF DriftGauges
<1>5. CASE QueryFails
  <2>1. poll.todo = {} /\ poll'.todo = {} /\ gauge' = gauge
    BY <1>5 DEF QueryFails, IInv, ReportingTypeOK
  <2> QED
    BY <1>1, <2>1 DEF PollInv
<1>6. CASE RestartExporter
  <2>1. poll'.todo = {} /\ \A g \in Gauges : gauge'[g] = 0
    BY <1>6 DEF RestartExporter
  <2> QED
    BY <1>1, <2>1 DEF PollInv
<1> QED
  BY <1>2, <1>3, <1>4, <1>5, <1>6, OthersLeaveGauges

-----------------------------------------------------------------------------
(* The theorems of the specification.                                      *)

LEMMA InitInvariant ==
    ASSUME ReportingAssumption, ReportingInit
    PROVE  IInv
<1>1. DOMAIN runs = {}
  BY EmptySeq DEF ReportingInit
<1>2. JobInv
  BY FS_EmptySet DEF ReportingInit, JobInv, JobSound, Idle
<1>3. RunsInv
  BY <1>1 DEF RunsInv
<1>4. GaugeInv
  BY DEF ReportingInit, GaugeInv
<1>5. PollInv
  BY DEF ReportingInit, PollInv, Gauges, DriftGauges
<1> QED
  BY InitType, <1>2, <1>3, <1>4, <1>5 DEF IInv

\* The inductive invariant, however jobs overlap, die or are repeated.
THEOREM ReportingInvariance == ReportingSpec => []IInv
<1>1. ReportingInit => IInv
  BY InitInvariant, ReportingAssumption
<1>2. IInv /\ [ReportingNext]_reportingVars => IInv'
  <2>1. CASE IInv /\ ReportingNext
    BY <2>1, TypePreserved, JobPreserved, RunsPreserved, GaugePreserved, PollPreserved,
       ReportingAssumption DEF IInv
  <2>2. CASE IInv /\ UNCHANGED reportingVars
    <3>1. ReportingTypeOK'
      BY <2>2 DEF IInv, ReportingTypeOK, reportingVars, Ascending
    <3>2. JobInv'
      BY <2>2 DEF IInv, JobInv, JobSound, reportingVars
    <3>3. RunsInv' /\ GaugeInv' /\ PollInv'
      BY <2>2 DEF IInv, RunsInv, GaugeInv, PollInv, reportingVars
    <3> QED
      BY <3>1, <3>2, <3>3 DEF IInv
  <2> QED
    BY <2>1, <2>2
<1> QED
  BY <1>1, <1>2, PTL DEF ReportingSpec

\* Table, file, jobs, runs, reports and gauges keep their types.
THEOREM ReportingTypeCorrect == ReportingSpec => []ReportingTypeOK
<1>1. IInv => ReportingTypeOK
  BY DEF IInv
<1> QED
  BY <1>1, ReportingInvariance, PTL

\* For any windows and any file, a drift job that goes on compares enough
\* rows of two disjoint times, and only small files are skipped
\* (drift_job.py:77-102, 330-361).
THEOREM EverySplitSound == ReportingSpec => []SplitSound
<1>1. IInv => SplitSound
  BY DEF IInv, JobInv, JobSound, SplitSound
<1> QED
  BY <1>1, ReportingInvariance, PTL

\* Between rounds the drift gauges show one run, and its report is there
\* (metrics_exporter.py:265-286, streamlit_app.py:179-181).
THEOREM DriftPictureIsWhole == ReportingSpec => []DriftPictureWhole
<1>1. ASSUME IInv PROVE DriftPictureWhole
  <2> DEFINE r == gauge["drift_detected"]
  <2>1. poll.todo = {} => \A f \in Features : gauge[f] = r
    BY <1>1 DEF IInv, PollInv
  <2>2. ASSUME r # 0 PROVE reports # {} /\ LatestReport >= runs[r].data
    <3>1. "drift_detected" \in Gauges /\ "drift_detected" \in GaugesOf("drift")
      BY DEF Gauges, GaugesOf, DriftGauges
    <3>2. r \in DOMAIN runs
      BY <1>1, <2>2, <3>1, StateFacts
    <3>3. runs[r].exp = "drift"
      BY <1>1, <2>2, <3>1 DEF IInv, GaugeInv
    <3>4. runs[r].data \in reports
      BY <1>1, <3>2, <3>3 DEF IInv, RunsInv
    <3>5. reports \in SUBSET (0..MaxEnd) /\ MaxEnd \in Nat
      BY <1>1, ReportingAssumption DEF IInv, ReportingTypeOK, Ends, ReportingAssumption
    <3> HIDE DEF r
    <3>6. /\ Max(reports) \in reports
          /\ runs[r].data <= Max(reports)
      BY <3>4, <3>5, LargestExists
    <3> QED
      BY <3>4, <3>5, <3>6 DEF LatestReport
  <2> QED
    BY <2>1, <2>2 DEF DriftPictureWhole
<1> QED
  BY <1>1, ReportingInvariance, PTL

\* A gauge never falls back to an earlier run, whatever the jobs do between
\* the query for the latest run and the setting of the gauges
\* (metrics_exporter.py:209-286).
THEOREM GaugesNeverFallBack == ReportingSpec => GaugesMoveForward
<1>1. ASSUME IInv, [ReportingNext]_reportingVars
      PROVE  \A g \in Gauges : gauge'[g] >= gauge[g] \/ gauge'[g] = 0
  <2>1. gauge \in [Gauges -> 0..Len(runs)] /\ Len(runs) \in Nat
    BY <1>1, StateFacts
  <2>2. CASE gauge' = gauge
    BY <2>1, <2>2
  <2>3. ASSUME NEW g \in Gauges, SetGauge(g)
        PROVE  \A x \in Gauges : gauge'[x] >= gauge[x]
    <3>1. gauge[g] <= poll.run /\ gauge' = [gauge EXCEPT ![g] = poll.run]
      BY <1>1, <2>3 DEF SetGauge, IInv, PollInv
    <3>2. poll.run \in 0..Len(runs)
      BY <1>1 DEF IInv, ReportingTypeOK
    <3> QED
      BY <2>1, <3>1, <3>2
  <2>4. CASE RestartExporter
    BY <2>4 DEF RestartExporter
  <2> QED
    BY <1>1, <2>2, <2>3, <2>4, OthersLeaveGauges DEF Query, QueryFails, reportingVars
<1> QED
  BY <1>1, ReportingInvariance, PTL DEF ReportingSpec, GaugesMoveForward

=============================================================================
