--------------------------- MODULE MatchSimulator ---------------------------
(***************************************************************************)
(* producer/simulator.py, MatchSimulator.run(): the rounds of a match as a *)
(* generator of telemetry events.  Money and equipment are in Economy.     *)
(*                                                                         *)
(* A step is one numbered section of the loop of _simulate_live_round, or  *)
(* the code up to the event it yields.  What the random generator decides  *)
(* is a choice.  Durations are counted in ticks.                           *)
(***************************************************************************)
EXTENDS Roster, Integers, FiniteSets

CONSTANTS
  FreezeTicks,    \* ticks of freezetime
  RoundTicks,     \* ROUND_SECONDS
  BombTicks,      \* BOMB_TIMER_SECONDS
  PlantMoments,   \* values of plant_at: the clock at which a plant lands
  RoundsToWin,    \* ROUNDS_TO_WIN
  MaxRegulation,  \* MAX_REGULATION_ROUNDS
  NoBomb          \* bomb_remaining is None

ASSUME SimulatorAssumption ==
  /\ IsFiniteSet(CTs) /\ IsFiniteSet(Ts)
  /\ CTs # {} /\ Ts # {} /\ CTs \intersect Ts = {}
  /\ FreezeTicks \in Nat
  /\ RoundTicks \in Nat \ {0}
  /\ BombTicks \in Nat \ {0}
  /\ PlantMoments \subseteq 1..(RoundTicks - 1) /\ PlantMoments # {}
  /\ RoundsToWin \in Nat \ {0, 1}
  /\ MaxRegulation = 2 * (RoundsToWin - 1)
  /\ NoBomb \notin Nat

VARIABLES
  stage,     \* where the generator is
  round,     \* round_number
  score,     \* the two ledgers
  alive,     \* players with health
  frozen,    \* ticks of freezetime still to emit
  remaining, \* the round clock; negative once it ran out
  bomb,      \* bomb_remaining, or NoBomb before the plant
  plantAt,   \* plant_at, or -1 when no plant is attempted
  outcome,   \* winner and reason of the round, or Undecided
  event      \* the last event yielded

simVars == <<stage, round, score, alive, frozen, remaining, bomb, plantAt, outcome, event>>

Alive(side) == alive \intersect Team(side)

Undecided == [winner |-> "none", reason |-> "none"]
Decision(winner, reason) == [winner |-> winner, reason |-> reason]

SimInit ==
  /\ stage = "match_start"
  /\ round = 0
  /\ score = [side \in Sides |-> 0]
  /\ alive = {}
  /\ frozen = 0 /\ remaining = RoundTicks /\ bomb = NoBomb /\ plantAt = -1
  /\ outcome = Undecided
  /\ event = [type |-> "none"]

-----------------------------------------------------------------------------
Planted == bomb # NoBomb

IsDecided ==
  \/ \E side \in Sides : score[side] >= RoundsToWin
  \/ score["CT"] + score["T"] >= MaxRegulation

TickEvent(phase, clock) ==
  [type |-> "tick", round |-> round, phase |-> phase, clock |-> clock,
   planted |-> Planted, bomb |-> bomb, alive |-> alive]

MatchStart ==
  /\ stage = "match_start" /\ stage' = "between"
  /\ event' = [type |-> "match_start"]
  /\ UNCHANGED <<round, score, alive, frozen, remaining, bomb, plantAt, outcome>>

\* _simulate_round up to its first yield; the locals of the live phase are
\* set when that begins.
RoundStart ==
  /\ stage = "between" /\ ~IsDecided
  /\ stage' = "freeze"
  /\ round' = round + 1
  /\ alive' = CTs \union Ts
  /\ frozen' = FreezeTicks
  /\ event' = [type |-> "round_start", round |-> round', score |-> score]
  /\ UNCHANGED <<score, remaining, bomb, plantAt, outcome>>

FreezeTick ==
  /\ stage = "freeze" /\ frozen > 0
  /\ frozen' = frozen - 1
  /\ event' = [type |-> "tick", round |-> round, phase |-> "freezetime",
               clock |-> RoundTicks, planted |-> FALSE, bomb |-> NoBomb, alive |-> alive]
  /\ UNCHANGED <<stage, round, score, alive, remaining, bomb, plantAt, outcome>>

\* The locals of _simulate_live_round.
GoLive ==
  /\ stage = "freeze" /\ frozen = 0
  /\ stage' = "tick"
  /\ remaining' = RoundTicks
  /\ bomb' = NoBomb
  /\ outcome' = Undecided
  /\ plantAt' \in PlantMoments \union {-1}
  /\ UNCHANGED <<round, score, alive, frozen, event>>

LiveTick ==
  /\ stage = "tick" /\ outcome = Undecided
  /\ event' = TickEvent(IF Planted THEN "bomb_planted" ELSE "live",
                        IF remaining < 0 THEN 0 ELSE remaining)
  /\ stage' = "clock"
  /\ UNCHANGED <<round, score, alive, frozen, remaining, bomb, plantAt, outcome>>

\* Mutant: once the bomb is down, nothing counts down.
ClockStopped ==
  /\ stage = "clock" /\ stage' = "engage"
  /\ remaining' = IF Planted THEN remaining ELSE remaining - 1
  /\ UNCHANGED <<round, score, alive, frozen, bomb, plantAt, outcome, event>>

\* The clocks advance.
Clock ==
  /\ stage = "clock" /\ stage' = "engage"
  /\ remaining' = remaining - 1
  /\ bomb' = IF Planted THEN (IF bomb > 0 THEN bomb - 1 ELSE 0) ELSE bomb
  /\ UNCHANGED <<round, score, alive, frozen, plantAt, outcome, event>>

\* 1. A duel is due, and both sides have someone to fight it, or is not.
Engage ==
  /\ stage = "engage" /\ stage' = "resolve"
  /\ \/ UNCHANGED <<alive, event>>
     \/ \E side \in Sides : \E killer \in Alive(side), victim \in Alive(Opponent(side)) :
          /\ alive' = alive \ {victim}
          /\ event' = [type |-> "kill", round |-> round, killer |-> killer,
                       victim |-> victim, victim_team |-> Opponent(side)]
  /\ UNCHANGED <<round, score, frozen, remaining, bomb, plantAt, outcome>>

Decide(winner, reason) ==
  /\ outcome' = Decision(winner, reason)
  /\ UNCHANGED <<round, score, alive, frozen, remaining, bomb, plantAt>>

\* 2. One side is eliminated.
Eliminated ==
  \/ /\ Alive("T") = {}
     /\ Decide("CT", "t_eliminated")
     /\ UNCHANGED event
  \/ /\ Alive("T") # {} /\ Alive("CT") = {}
     /\ Decide("T", IF Planted THEN "bomb_exploded" ELSE "ct_eliminated")
     /\ UNCHANGED event

BothAlive == Alive("T") # {} /\ Alive("CT") # {}

PlantDue == ~Planted /\ remaining <= plantAt

\* 3. The plant.
Plant ==
  /\ PlantDue
  /\ bomb' = BombTicks
  /\ \E planter \in Alive("T") :
       event' = [type |-> "bomb_planted", round |-> round, planter |-> planter]
  /\ UNCHANGED <<round, score, alive, frozen, remaining, plantAt, outcome>>

\* Mutant: either side may be credited with the defusal.
DetonateSwapped ==
  /\ bomb = 0
  /\ \/ /\ \E defuser \in Alive("CT") :
             event' = [type |-> "bomb_defused", round |-> round, defuser |-> defuser,
                       clock |-> 0]
        /\ Decide("T", "bomb_defused")
     \/ /\ Decide("T", "bomb_exploded")
        /\ UNCHANGED event

\* 4. The bomb timer runs out: defused at the last instant, or exploded.
Detonate ==
  /\ bomb = 0
  /\ \/ /\ \E defuser \in Alive("CT") :
             event' = [type |-> "bomb_defused", round |-> round, defuser |-> defuser,
                       clock |-> 0]
        /\ Decide("CT", "bomb_defused")
     \/ /\ Decide("T", "bomb_exploded")
        /\ UNCHANGED event

\* 5. The condition of a win on time.
ClockRunsOut == remaining <= 0 /\ ~Planted

\* Sections 2 to 5: each `continue`s, so the first that applies is the only one.
Resolve ==
  /\ stage = "resolve" /\ stage' = "tick"
  /\ \/ Eliminated
     \/ BothAlive /\ Plant
     \/ BothAlive /\ ~PlantDue /\ Detonate
     \/ BothAlive /\ ~PlantDue /\ bomb # 0 /\ ClockRunsOut
          /\ Decide("CT", "time_expired") /\ UNCHANGED event
     \/ BothAlive /\ ~PlantDue /\ bomb # 0 /\ ~ClockRunsOut
          /\ UNCHANGED <<round, score, alive, frozen, remaining, bomb, plantAt, outcome, event>>

\* Mutant: the event is made before the ledger is updated.
RoundEndEarly ==
  /\ stage = "tick" /\ outcome # Undecided
  /\ stage' = "between"
  /\ score' = [score EXCEPT ![outcome.winner] = @ + 1]
  /\ event' = [type |-> "round_end", round |-> round, winner |-> outcome.winner,
               reason |-> outcome.reason, score |-> score]
  /\ UNCHANGED <<round, alive, frozen, remaining, bomb, plantAt, outcome>>

\* The loop is left.
RoundEnd ==
  /\ stage = "tick" /\ outcome # Undecided
  /\ stage' = "between"
  /\ score' = [score EXCEPT ![outcome.winner] = @ + 1]
  /\ event' = [type |-> "round_end", round |-> round, winner |-> outcome.winner,
               reason |-> outcome.reason, score |-> score']
  /\ UNCHANGED <<round, alive, frozen, remaining, bomb, plantAt, outcome>>

\* A tie is broken in favour of the CTs, with one more point.
MatchEnd ==
  /\ stage = "between" /\ IsDecided
  /\ stage' = "over"
  /\ score' = IF score["CT"] = score["T"] THEN [score EXCEPT !["CT"] = @ + 1] ELSE score
  /\ event' = [type |-> "match_end", score |-> score',
               winner |-> IF score["CT"] >= score["T"] THEN "CT" ELSE "T"]
  /\ UNCHANGED <<round, alive, frozen, remaining, bomb, plantAt, outcome>>

SimNext ==
  \/ MatchStart \/ RoundStart \/ FreezeTick \/ GoLive \/ LiveTick \/ Clock
  \/ Engage \/ Resolve \/ RoundEnd \/ MatchEnd

SimSpec == SimInit /\ [][SimNext]_simVars

\* Whoever iterates the generator asks for the next event.
SimFairSpec == SimSpec /\ WF_simVars(SimNext)

-----------------------------------------------------------------------------
InLivePhase == stage \in {"tick", "clock", "engage", "resolve"}

SimTypeOK ==
  /\ stage \in {"match_start", "between", "freeze", "tick", "clock", "engage",
                "resolve", "over"}
  /\ round \in 0..MaxRegulation
  /\ score \in [Sides -> 0..MaxRegulation]
  /\ alive \subseteq CTs \union Ts
  /\ frozen \in 0..FreezeTicks
  /\ remaining \in Int /\ remaining <= RoundTicks
  /\ bomb \in 0..BombTicks \union {NoBomb}
  /\ plantAt \in PlantMoments \union {-1}
  /\ outcome \in [winner : Sides \union {"none"},
                  reason : {"none", "t_eliminated", "ct_eliminated", "bomb_exploded",
                            "bomb_defused", "time_expired"}]

\* schemas/events.py, models.py
SchemaAccepts ==
  /\ event.type = "tick" =>
       /\ event.clock \in 0..RoundTicks
       /\ event.planted = (event.bomb # NoBomb)
       /\ event.planted => event.bomb \in 0..BombTicks
       /\ event.phase = "bomb_planted" => event.planted
  /\ event.type = "round_end" =>
       /\ event.reason \in {"t_eliminated", "bomb_defused", "time_expired"} => event.winner = "CT"
       /\ event.reason \in {"ct_eliminated", "bomb_exploded"} => event.winner = "T"
  /\ event.type = "match_end" =>
       event.score[event.winner] > event.score[Opponent(event.winner)]

BombFollowsPlant ==
  InLivePhase /\ Planted =>
    LET since == plantAt - remaining IN
    /\ since \in Nat
    /\ bomb = (IF since < BombTicks THEN BombTicks - since ELSE 0)

ReasonFits ==
  event.type = "round_end" =>
    CASE event.reason = "t_eliminated" -> Alive("T") = {} /\ Alive("CT") # {}
      [] event.reason = "ct_eliminated" -> Alive("CT") = {} /\ Alive("T") # {} /\ ~Planted
      [] event.reason = "bomb_defused" -> BothAlive /\ bomb = 0
      [] event.reason = "bomb_exploded" -> Planted /\ Alive("T") # {} /\ (bomb = 0 \/ Alive("CT") = {})
      [] event.reason = "time_expired" -> BothAlive /\ ~Planted /\ remaining <= 0

(***************************************************************************)
(* No path through a round makes an event that its own schema rejects:     *)
(* constructing it would end the generator, and with it the match.  While  *)
(* a round is live, a planted bomb was planted in that round, and its      *)
(* countdown and the round clock stay in step from then on: no bomb is     *)
(* carried over, planted twice, or stopped.  The reason of a round end     *)
(* describes how the round stood: who was left, whether the bomb was down  *)
(* and had run out, whether the clock had.                                 *)
(***************************************************************************)
EventsValid == SchemaAccepts /\ BombFollowsPlant /\ ReasonFits

ScoresAddUp ==
  /\ event.type = "round_start" => event.score["CT"] + event.score["T"] = event.round - 1
  /\ event.type = "round_end" => event.score["CT"] + event.score["T"] = event.round

FinalScore ==
  event.type = "match_end" =>
    /\ round <= MaxRegulation
    /\ event.score[event.winner] = RoundsToWin
    /\ event.score[Opponent(event.winner)] = RoundsToWin - 1 =>
         event.winner = "CT" /\ round = MaxRegulation

(***************************************************************************)
(* The scores in an event count the rounds decided before it, and a round  *)
(* end counts its own.  A match is won with exactly RoundsToWin, in no     *)
(* more than MaxRegulation rounds; the loser is one behind only after a    *)
(* tie, which the CTs win.                                                 *)
(***************************************************************************)
ScoresRight == SimTypeOK /\ ScoresAddUp /\ FinalScore

(***************************************************************************)
(* Every match ends, whatever the dice: each round runs out of players, of *)
(* time, or of bomb timer.                                                 *)
(***************************************************************************)
MatchEnds == <>(stage = "over")
=============================================================================
