------------------------------ MODULE Reports ------------------------------
(***************************************************************************)
(* What `validate` and `train` report of a model, over rows that arrive    *)
(* one at a time: the drift of one feature (ml/drift.py) and the           *)
(* calibration of the probabilities (ml/calibration.py).  A PSI is told    *)
(* apart as zero, as the constant PSI_SHIFTED, or as positive: logarithms  *)
(* are left out.  A probability is a number of Scale-ths, a quantile one of *)
(* PsiBins-ths.                                                            *)
(***************************************************************************)
EXTENDS Numbers

CONSTANTS
  References,  \* samples recorded in training
  Values,      \* of the feature, live
  PsiBins,     \* PSI_BINS
  MinSamples,  \* MIN_SAMPLES
  MinDistinct, \* MIN_DISTINCT_VALUES
  Scale, Bins,  \* bin_count bands of the probabilities 0..Scale
  MaxLive      \* bound on the rows

ASSUME ReportsAssumption ==
  /\ {PsiBins, MinSamples, MinDistinct, Scale, Bins, MaxLive} \subseteq Nat \ {0}
  /\ Values \subseteq Int
  /\ References \subseteq Seq(Int) \ {<<>>}

VARIABLES reference, live, judged

reportVars == <<reference, live, judged>>

\* live: the feature's values; judged: the probabilities with the outcomes.
ReportsInit == reference \in References /\ live = <<>> /\ judged = <<>>

Row ==
  /\ Len(live) < MaxLive
  /\ \E value \in Values, p \in 0..Scale, won \in {0, 1} :
       live' = Append(live, value) /\ judged' = Append(judged, [p |-> p, won |-> won])
  /\ UNCHANGED reference

ReportsNext == Row

ReportsSpec == ReportsInit /\ [][ReportsNext]_reportVars

-----------------------------------------------------------------------------
Distinct(seq) == {seq[i] : i \in 1..Len(seq)}
CountIn(seq, S) == Cardinality({i \in 1..Len(seq) : seq[i] \in S})

\* np.quantile, linear between the neighbours.
Quantile(seq, i) ==
  LET sorted == Sorted(seq)
      place == i * (Len(seq) - 1)
      k == place \div PsiBins
  IN IF k + 1 = Len(seq) THEN PsiBins * sorted[k + 1]
     ELSE (PsiBins - (place % PsiBins)) * sorted[k + 1] + ((place % PsiBins) * sorted[k + 2])

\* np.unique of the quantiles.
Edges(seq) == InOrder({Quantile(seq, i) : i \in 0..PsiBins})

\* Mutant: the outer edges stay where training put them.
InPsiBinClosed(edges, k, x) ==
  /\ edges[k] <= PsiBins * x
  /\ IF k + 1 = Len(edges) THEN PsiBins * x <= edges[k + 1] ELSE PsiBins * x < edges[k + 1]

\* np.histogram with the outer edges at infinity: bin k is closed below.
InPsiBin(edges, k, x) ==
  /\ k > 1 => edges[k] <= PsiBins * x
  /\ k + 1 < Len(edges) => PsiBins * x < edges[k + 1]

Histogram(edges, seq) ==
  [k \in 1..(Len(edges) - 1) |-> Cardinality({i \in 1..Len(seq) : InPsiBin(edges, k, seq[i])})]

\* population_stability_index: zero when every bin has the same share.
Psi(seq, now) ==
  LET edges == Edges(seq) IN
  IF seq = <<>> \/ now = <<>> THEN "zero"
  ELSE IF Len(edges) < 2 THEN IF Cardinality(Distinct(now)) = 1 THEN "zero" ELSE "shifted"
  ELSE IF \A k \in 1..(Len(edges) - 1) :
            Histogram(edges, seq)[k] * Len(now) = Histogram(edges, now)[k] * Len(seq)
       THEN "zero" ELSE "positive"

\* The live values are too few to judge, and training's were as coarse.
Thin(seq, now) ==
  /\ Cardinality(Distinct(now)) < MinDistinct
  /\ ~(Cardinality(Distinct(seq)) > 2 * Cardinality(Distinct(now)))

\* from_psi and _worst_severity, for one feature; a positive PSI may be any.
Severities ==
  IF Len(live) < MinSamples \/ Thin(reference, live) THEN {"unknown"}
  ELSE IF Psi(reference, live) = "zero" THEN {"stable"}
  ELSE IF Psi(reference, live) = "shifted" THEN {"severe"}
  ELSE {"stable", "moderate", "severe"}

\* assess_calibration: the bands are closed below, the last one above, too.
InBand(b, p) ==
  /\ b * Scale <= p * Bins
  /\ IF b = Bins - 1 THEN p * Bins <= (b + 1) * Scale ELSE p * Bins < (b + 1) * Scale

Band(b) == {i \in 1..Len(judged) : InBand(b, judged[i].p)}

\* The gap of a band, times its rows and Scale: |sum of p - sum of outcomes|.
Gap(b) ==
  LET off == [i \in 1..Len(judged) |->
                IF i \in Band(b) THEN judged[i].p - Scale * judged[i].won ELSE 0]
      sum == Sums(off, Len(judged))[Len(judged)]
  IN IF sum < 0 THEN 0 - sum ELSE sum

\* expected_calibration_error, times the rows and Scale.
ExpectedError == Sums([k \in 1..Bins |-> Gap(k - 1)], Bins)[Bins]

-----------------------------------------------------------------------------
(***************************************************************************)
(* Drift: values beyond the training range are counted, so that the bins   *)
(* account for every live row; a live sample that repeats the training     *)
(* sample is stable; a feature that varied and is now constant is judged,  *)
(* and a feature that was constant is severe as soon as it varies, unless  *)
(* the sample is too thin to say.                                          *)
(***************************************************************************)
DriftSound ==
  LET edges == Edges(reference) IN
  /\ Len(edges) > 1 => Sums(Histogram(edges, live), Len(edges) - 1)[Len(edges) - 1] = Len(live)
  /\ \A n \in 1..MaxLive :
       live = [i \in 1..(n * Len(reference)) |-> reference[1 + (i % Len(reference))]]
       => Severities \subseteq {"stable", "unknown"}
  /\ Len(live) >= MinSamples /\ Cardinality(Distinct(live)) = 1
       /\ Cardinality(Distinct(reference)) > 2
     => "unknown" \notin Severities
  /\ Len(live) >= MinSamples /\ Cardinality(Distinct(reference)) = 1
       /\ Cardinality(Distinct(live)) >= MinDistinct
     => Severities = (IF Cardinality(Distinct(live)) > 1 THEN {"severe"} ELSE {"stable"})

(***************************************************************************)
(* Calibration: every probability is in one band, the expected error is no *)
(* more than the largest gap of a band, and it is zero when every outcome  *)
(* was foreseen with certainty.                                            *)
(***************************************************************************)
CalibrationSound ==
  /\ \A i \in 1..Len(judged) : Cardinality({b \in 0..(Bins - 1) : i \in Band(b)}) = 1
  /\ judged # <<>> =>
       \E b \in 0..(Bins - 1) :
         /\ Band(b) # {}
         /\ ExpectedError * Cardinality(Band(b)) <= Gap(b) * Len(judged)
  /\ (\A i \in 1..Len(judged) : judged[i].p = Scale * judged[i].won) => ExpectedError = 0

ReportsSound == DriftSound /\ CalibrationSound

(***************************************************************************)
(* "0.0 for identical distributions, rising without bound as they diverge" *)
(* (drift.py): where the training sample can be binned (it has more than   *)
(* one quantile), the PSI of a live sample that shares no value with it is *)
(* not zero.                                                               *)
(***************************************************************************)
DivergenceSeen ==
  /\ Len(Edges(reference)) > 1
  /\ live # <<>> /\ Distinct(live) \intersect Distinct(reference) = {}
  => Psi(reference, live) # "zero"

=============================================================================
