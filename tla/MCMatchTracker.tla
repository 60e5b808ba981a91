--------------------------- MODULE MCMatchTracker ---------------------------
(***************************************************************************)
(* Topics for MatchTracker, shaped like what MatchSimulator emits: a round *)
(* starts with a freezetime tick, kills precede the tick of their instant, *)
(* and nothing but the match end follows the last round end.               *)
(***************************************************************************)
EXTENDS MatchTracker

CONSTANTS m1, m2

Base(type, m, play, round, time, seq) ==
  [type |-> type, match |-> m, play |-> play, round |-> round, time |-> time, seq |-> seq]

RoundStart(m, p, r, t, s) == Base("round_start", m, p, r, t, s)

Tick(m, p, r, t, s) == Base("tick", m, p, r, t, s)

Kill(m, p, r, t, s, victim) ==
  [type |-> "kill", match |-> m, play |-> p, round |-> r, time |-> t, seq |-> s,
   victim |-> victim]

RoundEnd(m, p, r, t, s, winner) ==
  [type |-> "round_end", match |-> m, play |-> p, round |-> r, time |-> t, seq |-> s,
   winner |-> winner]

MatchEnd(m, p, t, s) == Base("match_end", m, p, 0, t, s)

\* Two rounds; at its last tick the first one has an event that is exactly one
\* span old and one that is older.
Match(m, p) ==
  <<RoundStart(m, p, 1, 0, 2), Tick(m, p, 1, 0, 3), Kill(m, p, 1, 1, 4, "T"),
    Tick(m, p, 1, 1, 5), Kill(m, p, 1, 3, 6, "CT"), Kill(m, p, 1, 6, 7, "T"),
    Tick(m, p, 1, 6, 8), RoundEnd(m, p, 1, 6, 9, "CT"),
    RoundStart(m, p, 2, 6, 10), Tick(m, p, 2, 6, 11), Kill(m, p, 2, 7, 12, "CT"),
    RoundEnd(m, p, 2, 7, 13, "T"), MatchEnd(m, p, 7, 14)>>

\* One match of which only the results are followed: more rounds than are kept.
Results(m, p, n) ==
  [r \in 1..n |-> RoundEnd(m, p, r, r, r, IF r = 1 THEN "CT" ELSE "T")]

Interleave(s, t) ==
  [i \in 1..(2 * Len(s)) |-> IF i % 2 = 1 THEN s[(i + 1) \div 2] ELSE t[i \div 2]]

TwoMatches == {Interleave(Match(m1, 1), Match(m2, 1)), Match(m1, 1) \o Match(m2, 1)}

OneMatch == {Match(m1, 1), Results(m1, 1, 4)}

Streams == TwoMatches \union OneMatch

\* serve --simulate plays one match after the other under one id.
DemoLoop == {Match(m1, 1) \o Match(m1, 2)}
=============================================================================
