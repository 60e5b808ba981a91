------------------------------ MODULE Features ------------------------------
(***************************************************************************)
(* What the model sees of a tick, computed twice: by FeatureExtractor from *)
(* the live snapshot and its window (features/extractor.py), and by        *)
(* build_feature_frame (features/dataset.py) from the row that the sink    *)
(* stored (storage/duckdb_sink.py), possibly in a table that an older      *)
(* build created, to which start() adds the missing columns.               *)
(*                                                                         *)
(* A snapshot is the aggregates the features are made of; a real number is *)
(* a pair <<numerator, denominator>>, the denominator positive.            *)
(***************************************************************************)
EXTENDS Integers, Sequences, FiniteSets

CONSTANTS
  PlayersPerTeam, RoundSeconds, BombTimer, LadderLength, RoundsToWin, MaxRounds,
  Samples,    \* [state, metrics] pairs; metrics may be Null
  MaxRows,    \* bound on the rows of the table
  Null

Sides == {"CT", "T"}
PerSide == [Sides -> Nat]

Snapshot ==
  [alive : PerSide, health : PerSide, money : PerSide, equipment : PerSide,
   losses : PerSide, score : PerSide,
   seconds : Nat, planted : BOOLEAN, bomb : Nat \union {Null}]

WindowedMetrics == [kills : PerSide, span : Nat]

ASSUME FeaturesAssumption ==
  /\ {PlayersPerTeam, RoundSeconds, BombTimer, LadderLength, RoundsToWin, MaxRounds}
       \subseteq Nat \ {0}
  /\ MaxRows \in Nat
  /\ Null \notin Nat \union WindowedMetrics
  /\ Samples \subseteq [state : Snapshot, metrics : WindowedMetrics \union {Null}]
  /\ \A sample \in Samples :
       /\ \A side \in Sides : sample.state.alive[side] <= PlayersPerTeam
       /\ sample.state.planted <=> sample.state.bomb # Null

VARIABLES
  columns, \* of the table `ticks`, in order; <<>> while there is no table
  table,   \* its rows: the sample, and the cells, in the order of the columns
  started  \* a sink of this build is open

featVars == <<columns, table, started>>

-----------------------------------------------------------------------------
Zero == <<0, 1>>
Same(p, q) == p[1] * q[2] = q[1] * p[2]
Negated(p) == <<0 - p[1], p[2]>>

\* _clamp
Clamp(q, low, high) ==
  IF q[1] < low * q[2] THEN <<low, 1>>
  ELSE IF q[1] > high * q[2] THEN <<high, 1>> ELSE q

Unit(q) == Clamp(q, -1, 1)
Share(q) == Clamp(q, 0, 1)

\* _ratio of extractor.py: a symmetric advantage.
Ratio(v) == IF v["CT"] + v["T"] <= 0 THEN Zero ELSE <<v["CT"] - v["T"], v["CT"] + v["T"]>>

Lead(v, scale) == Unit(<<v["CT"] - v["T"], scale>>)

Manpower(s) ==
  <<<<s.alive["CT"], PlayersPerTeam>>, <<s.alive["T"], PlayersPerTeam>>,
    Lead(s.alive, PlayersPerTeam), Ratio(s.alive), Ratio(s.health)>>

Clock(s) ==
  <<Share(<<s.seconds, RoundSeconds>>),
    IF s.planted THEN <<1, 1>> ELSE Zero,
    Share(IF s.planted /\ s.bomb # Null THEN <<s.bomb, BombTimer>> ELSE Zero)>>

Wealth(s) == <<Ratio(s.money), Ratio(s.equipment), Lead(s.losses, LadderLength)>>

Context(s) ==
  <<Lead(s.score, RoundsToWin), Share(<<s.score["CT"] + s.score["T"], MaxRounds>>)>>

\* kills_per_second of WindowedMetrics.
Pace(m) == IF m.span <= 0 THEN Zero ELSE <<m.kills["CT"] + m.kills["T"], m.span>>

Momentum(m) ==
  IF m = Null THEN <<Zero, Zero>> ELSE <<Lead(m.kills, PlayersPerTeam), Share(Pace(m))>>

\* Mutant: the leads are not clamped.
ExtractUnclamped(s, m) ==
  Manpower(s) \o Clock(s) \o <<Ratio(s.money), Ratio(s.equipment),
    <<s.losses["CT"] - s.losses["T"], LadderLength>>>> \o Context(s) \o Momentum(m)

\* FeatureExtractor.extract
Extract(s, m) == Manpower(s) \o Clock(s) \o Wealth(s) \o Context(s) \o Momentum(m)

-----------------------------------------------------------------------------
\* The table of this build; an older one ended before the momentum columns.
\* The columns no feature reads are left out.
Columns ==
  <<"seconds_remaining", "bomb_planted", "bomb_seconds", "score_ct", "score_t",
    "alive_ct", "alive_t", "health_ct", "health_t", "money_ct", "money_t",
    "equipment_ct", "equipment_t", "losses_ct", "losses_t",
    "kills_ct_window", "kills_t_window", "window_seconds">>

OldColumns == SubSeq(Columns, 1, 15)

\* _tick_row
TickRow(s, m) ==
  <<s.seconds, IF s.planted THEN 1 ELSE 0, s.bomb, s.score["CT"], s.score["T"],
    s.alive["CT"], s.alive["T"], s.health["CT"], s.health["T"],
    s.money["CT"], s.money["T"], s.equipment["CT"], s.equipment["T"],
    s.losses["CT"], s.losses["T"]>>
  \o (IF m = Null THEN <<0, 0, 0>> ELSE <<m.kills["CT"], m.kills["T"], m.span>>)

\* A row of the training view: its cells by name.
Named(cells) ==
  [name \in {columns[i] : i \in 1..Len(columns)} |->
     cells[CHOOSE i \in 1..Len(columns) : columns[i] = name]]

Filled(value) == IF value = Null THEN 0 ELSE value

\* The arithmetic of dataset.py: pandas divides, fills what is null, clips.
RatioOf(ct, t) == IF ct + t > 0 THEN <<ct - t, ct + t>> ELSE Zero
Clip(q, low, high) ==
  LET capped == IF q[1] > high * q[2] THEN <<high, 1>> ELSE q
  IN IF capped[1] < low * capped[2] THEN <<low, 1>> ELSE capped
LeadOf(ct, t, scale) == Clip(<<ct - t, scale>>, -1, 1)

\* build_feature_frame, for one row.
Offline(row) ==
  LET kills == row.kills_ct_window + row.kills_t_window IN
  <<<<row.alive_ct, PlayersPerTeam>>, <<row.alive_t, PlayersPerTeam>>,
    LeadOf(row.alive_ct, row.alive_t, PlayersPerTeam),
    RatioOf(row.alive_ct, row.alive_t), RatioOf(row.health_ct, row.health_t),
    Clip(<<row.seconds_remaining, RoundSeconds>>, 0, 1),
    <<row.bomb_planted, 1>>,
    Clip(<<Filled(row.bomb_seconds), BombTimer>>, 0, 1),
    RatioOf(row.money_ct, row.money_t), RatioOf(row.equipment_ct, row.equipment_t),
    LeadOf(row.losses_ct, row.losses_t, LadderLength),
    LeadOf(row.score_ct, row.score_t, RoundsToWin),
    Clip(<<row.score_ct + row.score_t, MaxRounds>>, 0, 1),
    LeadOf(row.kills_ct_window, row.kills_t_window, PlayersPerTeam),
    Clip(IF row.window_seconds > 0 THEN <<kills, row.window_seconds>> ELSE Zero, 0, 1)>>

-----------------------------------------------------------------------------
FeatInit == columns \in {<<>>, OldColumns} /\ table = <<>> /\ started = FALSE

Insert(sample, cells) ==
  /\ Len(table) < MaxRows
  /\ table' = Append(table, [sample |-> sample, cells |-> cells])

\* The build that created an older table fills it; it knows no window.
OldBuildWrites ==
  /\ columns = OldColumns /\ ~started
  /\ \E sample \in Samples :
       /\ sample.metrics = Null
       /\ Insert(sample, SubSeq(TickRow(sample.state, Null), 1, Len(OldColumns)))
  /\ UNCHANGED <<columns, started>>

\* The columns the table lacks, in the order of their declaration.
Missing ==
  LET lacking == {i \in 1..Len(Columns) : \A j \in 1..Len(columns) : columns[j] # Columns[i]}
      Before(i) == {j \in lacking : j < i}
  IN [k \in 1..Cardinality(lacking) |->
        Columns[CHOOSE i \in lacking : Cardinality(Before(i)) = k - 1]]

\* start() with _migrate_schema(): a new table has every column; one that
\* exists gets the missing ones at its end, zero in the rows it holds.
Start ==
  /\ ~started /\ started' = TRUE
  /\ columns' = columns \o Missing
  /\ table' = [i \in 1..Len(table) |->
                 [table[i] EXCEPT !.cells = @ \o [j \in 1..Len(Missing) |-> 0]]]

StopSink == started /\ started' = FALSE /\ UNCHANGED <<columns, table>>

\* write_tick and its flush: INSERT ... SELECT * pairs cells and columns by
\* position.
WriteTick ==
  /\ started
  /\ \E sample \in Samples : Insert(sample, TickRow(sample.state, sample.metrics))
  /\ UNCHANGED <<columns, started>>

FeatNext == OldBuildWrites \/ Start \/ StopSink \/ WriteTick

FeatSpec == FeatInit /\ [][FeatNext]_featVars

-----------------------------------------------------------------------------
Swap(v) == [side \in Sides |-> IF side = "CT" THEN v["T"] ELSE v["CT"]]

Mirror(s) ==
  [s EXCEPT !.alive = Swap(@), !.health = Swap(@), !.money = Swap(@),
            !.equipment = Swap(@), !.losses = Swap(@), !.score = Swap(@)]

MirrorMetrics(m) == IF m = Null THEN m ELSE [m EXCEPT !.kills = Swap(@)]

Balances == {3, 4, 5, 9, 10, 11, 12, 14}  \* the features that compare the sides

Within(q, low, high) == low * q[2] <= q[1] /\ q[1] <= high * q[2]

\* Every feature lies in [-1, 1], and those that compare nothing in [0, 1].
Bounded(s, m) ==
  \A i \in 1..15 : Within(Extract(s, m)[i], IF i \in Balances THEN -1 ELSE 0, 1)

\* Exchanging the sides flips the sign of every balance, exchanges the two
\* head counts and leaves the rest.
Mirrored(s, m) ==
  LET there == Extract(s, m)
      here == Extract(Mirror(s), MirrorMetrics(m))
  IN \A i \in 1..15 :
       Same(here[i], IF i \in Balances THEN Negated(there[i])
                     ELSE IF i = 1 THEN there[2] ELSE IF i = 2 THEN there[1] ELSE there[i])

(***************************************************************************)
(* What training reads back is what serving computes: for every stored row *)
(* the two feature paths agree, also when an older build stored the row or *)
(* created the table; and the features are bounded and symmetric in the    *)
(* sides ("Bounded", "Symmetric, not absolute", extractor.py).             *)
(***************************************************************************)
FeatureContract ==
  \A i \in 1..Len(table) :
    LET s == table[i].sample.state
        m == table[i].sample.metrics
    IN /\ started => \A j \in 1..15 : Same(Offline(Named(table[i].cells))[j], Extract(s, m)[j])
       /\ Bounded(s, m) /\ Mirrored(s, m)
=============================================================================
