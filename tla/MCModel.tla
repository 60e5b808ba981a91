------------------------------- MODULE MCModel -------------------------------
(***************************************************************************)
(* Four parts of the machine-learning half, one per behaviour: the life of *)
(* a checkpoint over three matches, an older one or none being there       *)
(* already; the features of 40 snapshots; the scoring of single states and *)
(* batches; the reports on three rows.  A part that is not looked at stays *)
(* in its initial state.                                                   *)
(***************************************************************************)
EXTENDS ModelLifecycle, Features, Scoring, Reports

VARIABLES part

-----------------------------------------------------------------------------
\* ModelLifecycle: a quarter and three quarters held out.
MCFractions == {<<1, 4>>, <<3, 4>>}

\* Features: each group of fields varied on its own, to both ends and beyond.
Both(ct, t) == [side \in Sides |-> IF side = "CT" THEN ct ELSE t]

Even ==
  [alive |-> Both(5, 5), health |-> Both(500, 500), money |-> Both(4000, 4000),
   equipment |-> Both(0, 0), losses |-> Both(0, 0), score |-> Both(0, 0),
   seconds |-> 90, planted |-> FALSE, bomb |-> Null]

Pairs == {<<0, 0>>, <<1, 0>>, <<2, 5>>, <<0, 3>>}

MCStates ==
  {[Even EXCEPT !.alive = Both(p[1], p[2]), !.health = Both(20 * p[1], 100 * p[2])] : p \in Pairs}
  \union {[Even EXCEPT !.money = Both(p[1], p[2]), !.equipment = Both(p[2], p[1])] : p \in Pairs}
  \union {[Even EXCEPT !.losses = Both(a, b), !.score = Both(b, a)] :
            a \in {0, 3, 12}, b \in {0, 7, 13}}
  \union {[Even EXCEPT !.planted = TRUE, !.bomb = b, !.seconds = c] :
            b \in {0, 17, 40}, c \in {0, 115}}

MCSamples ==
  {[state |-> s, metrics |-> Null] : s \in MCStates}
  \union {[state |-> Even, metrics |-> [kills |-> Both(a, b), span |-> c]] :
            a \in {0, 2, 6}, b \in {0, 1, 7}, c \in {0, 1, 15}}

\* Scoring: raw probabilities at, between and beyond the breakpoints.
MCScored ==
  {[id |-> 1, scoreable |-> FALSE, raw |-> 0]}
  \union {[id |-> 2 + r, scoreable |-> TRUE, raw |-> r] : r \in {0, 2, 5, 8}}

MCCalibrators == {<<>>, <<<<1, 2>>, <<4, 2>>, <<7, 6>>>>}

\* Reports: a constant, a binary feature that was mostly 1 (two quantiles), and
\* samples of three to five quantiles, two of which can be repeated live.
MCReferences ==
  {<<1, 1, 1>>, <<0, 1, 1, 1, 1>>, <<0, 4>>, <<2, 1, 1, 2>>, <<0, 1, 4>>, <<0, 3, 1, 2>>}

-----------------------------------------------------------------------------
modelVars == <<part, lifeVars, featVars, scoringVars, reportVars>>

MCInit ==
  /\ part \in {"checkpoint", "features", "scoring", "reports"}
  /\ Init /\ (part # "checkpoint" => db = {})
  /\ FeatInit /\ (part # "features" => columns = <<>>)
  /\ ScoringInit /\ (part # "scoring" => calibrator = <<>>)
  /\ ReportsInit /\ (part # "reports" => reference = <<0, 4>>)

MCNext ==
  \/ part = "checkpoint" /\ Next /\ UNCHANGED <<part, featVars, scoringVars, reportVars>>
  \/ part = "features" /\ FeatNext /\ UNCHANGED <<part, lifeVars, scoringVars, reportVars>>
  \/ /\ part = "scoring" /\ ScoringNext
     /\ UNCHANGED <<part, lifeVars, featVars, reportVars>>
  \/ /\ part = "reports" /\ ReportsNext
     /\ UNCHANGED <<part, lifeVars, featVars, scoringVars>>

MCSpec == MCInit /\ [][MCNext]_modelVars
=============================================================================
