------------------------------ MODULE Scoring ------------------------------
(***************************************************************************)
(* InferenceEngine (inference/engine.py) between two calls: predict and    *)
(* predict_batch with the calibrator applied (ml/calibrator.py) and the    *)
(* rolling latency statistics.  What the booster says of a state is given, *)
(* in Grid-ths; probabilities are pairs <<numerator, denominator>>.        *)
(***************************************************************************)
EXTENDS Numbers

CONSTANTS
  States,      \* what may be scored: [id, scoreable, raw]
  Calibrators, \* loaded breakpoints: sequences of <<x, y>>, x increasing
  Grid,        \* raw and the breakpoints are Grid-ths
  Latencies,   \* measured milliseconds
  Window,      \* LATENCY_WINDOW
  MaxBatch,    \* bound on the length of a batch
  MaxCalls     \* bound on the calls

ASSUME ScoringAssumption ==
  /\ Window \in Nat \ {0} /\ Grid \in Nat \ {0} /\ {MaxBatch, MaxCalls} \subseteq Nat
  /\ Latencies \subseteq Nat
  /\ \A s \in States : s.scoreable \in BOOLEAN /\ s.raw \in 0..Grid
  /\ Calibrators \subseteq Seq((0..Grid) \X (0..Grid))
  /\ \A c \in Calibrators : \A i, j \in 1..Len(c) : i < j => c[i][1] < c[j][1] /\ c[i][2] <= c[j][2]

VARIABLES
  calibrator,
  samples, total, skipped, \* LatencyStats
  asked, answered,         \* the last call: its states and its predictions
  recorded,                \* history: every latency recorded
  calls

scoringVars == <<calibrator, samples, total, skipped, asked, answered, recorded, calls>>

ScoringInit ==
  /\ calibrator \in Calibrators
  /\ samples = <<>> /\ total = 0 /\ skipped = 0
  /\ asked = <<>> /\ answered = <<>>
  /\ recorded = <<>> /\ calls = 0

-----------------------------------------------------------------------------
\* np.interp: linear between the breakpoints, constant beyond them.  Fewer
\* than two breakpoints are the identity.
Apply(points, x) ==
  LET n == Len(points) IN
  IF n < 2 THEN <<x, Grid>>
  ELSE IF x <= points[1][1] THEN <<points[1][2], Grid>>
  ELSE IF x >= points[n][1] THEN <<points[n][2], Grid>>
  ELSE LET k == CHOOSE i \in 1..(n - 1) : points[i][1] <= x /\ x < points[i + 1][1]
           run == points[k + 1][1] - points[k][1]
           rise == points[k + 1][2] - points[k][2]
       IN <<points[k][2] * run + (x - points[k][1]) * rise, Grid * run>>

Neutral == <<1, 2>>

Prediction(s) ==
  IF s.scoreable THEN [id |-> s.id, ct |-> Apply(calibrator, s.raw), scored |-> TRUE]
  ELSE [id |-> s.id, ct |-> Neutral, scored |-> FALSE]

\* Mutant: the deque keeps one sample too few.
RetainedShort(seq) == IF Len(seq) < Window THEN seq ELSE SubSeq(seq, 2, Len(seq))

\* deque(maxlen=LATENCY_WINDOW)
Retained(seq) == IF Len(seq) <= Window THEN seq ELSE SubSeq(seq, Len(seq) - Window + 1, Len(seq))

\* LatencyStats.record, for n predictions of one latency.
Record(n, latency) ==
  LET new == [i \in 1..n |-> latency] IN
  /\ samples' = Retained(samples \o new)
  /\ total' = total + n
  /\ recorded' = recorded \o new

Predict ==
  /\ calls < MaxCalls /\ calls' = calls + 1
  /\ \E s \in States, latency \in Latencies :
       /\ asked' = <<s>> /\ answered' = <<Prediction(s)>>
       /\ Record(IF s.scoreable THEN 1 ELSE 0, latency)
       /\ skipped' = skipped + (IF s.scoreable THEN 0 ELSE 1)
  /\ UNCHANGED calibrator

\* The index that each row of the matrix is scored for, and back.
Rows(batch) == InOrder({i \in 1..Len(batch) : batch[i].scoreable})
RowOf(rows, i) == CHOOSE row \in 1..Len(rows) : rows[row] = i

\* predict_batch: the unscoreable states are answered in place, the others are
\* scored as rows of one matrix and put back at their index.
PredictBatch ==
  /\ calls < MaxCalls /\ calls' = calls + 1
  /\ \E size \in 0..MaxBatch, latency \in Latencies : \E batch \in [1..size -> States] :
       LET rows == Rows(batch)
           raw == [row \in 1..Len(rows) |-> batch[rows[row]].raw]
           calibrated == [row \in 1..Len(rows) |-> Apply(calibrator, raw[row])]
       IN /\ asked' = batch
          /\ answered' =
               [i \in 1..Len(batch) |->
                  IF batch[i].scoreable
                    THEN [id |-> batch[i].id, scored |-> TRUE,
                          ct |-> calibrated[RowOf(rows, i)]]
                    ELSE [id |-> batch[i].id, scored |-> FALSE, ct |-> Neutral]]
          /\ Record(Len(rows), latency)
          /\ skipped' = skipped + Len(batch) - Len(rows)
  /\ UNCHANGED calibrator

ScoringNext == Predict \/ PredictBatch

ScoringSpec == ScoringInit /\ [][ScoringNext]_scoringVars

-----------------------------------------------------------------------------
\* percentile(percent / 100): the sorted sample at int(fraction * count).
Percentile(percent) ==
  IF samples = <<>> THEN 0
  ELSE LET n == Len(samples)
           index == (percent * n) \div 100
       IN Sorted(samples)[1 + (IF n - 1 < index THEN n - 1 ELSE index)]

Below(p, q) == p[1] * q[2] < q[1] * p[2]

\* A calibrator moves the numbers and keeps the order: no state that the
\* booster rates higher is reported lower, and the report is a probability
\* ("it cannot reorder predictions", calibrator.py).
RankingKept ==
  \A i, j \in 1..Len(asked) :
    /\ 0 <= answered[i].ct[1] /\ answered[i].ct[1] <= answered[i].ct[2]
    /\ asked[i].scoreable /\ asked[j].scoreable /\ asked[i].raw <= asked[j].raw
       => ~Below(answered[j].ct, answered[i].ct)

(***************************************************************************)
(* A batch answers what single calls would, in the order of its states.    *)
(* The statistics count every scored state once and retain the newest      *)
(* latencies, and a percentile is a sample that no more than its share of  *)
(* the samples lie below and at least its share lie at or below.  The      *)
(* answers keep the order of the booster.                                  *)
(***************************************************************************)
ScoringExact ==
  /\ RankingKept
  /\ answered = [i \in 1..Len(asked) |-> Prediction(asked[i])]
  /\ total = Len(recorded)
  /\ Len(samples) = (IF total < Window THEN total ELSE Window)
  /\ samples = SubSeq(recorded, 1 + total - Len(samples), total)
  /\ \A percent \in {50, 95, 99} : samples # <<>> =>
       LET value == Percentile(percent)
           count(Test(_)) == Cardinality({i \in 1..Len(samples) : Test(samples[i])})
       IN /\ 100 * count(LAMBDA x : x < value) <= percent * Len(samples)
          /\ 100 * count(LAMBDA x : x <= value) >= percent * Len(samples)
  /\ Percentile(50) <= Percentile(95) /\ Percentile(95) <= Percentile(99)

=============================================================================
