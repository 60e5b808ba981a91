-------------------------- MODULE SimulatorProofs --------------------------
(***************************************************************************)
(* Theorems about producer/simulator.py: its money (Economy), for any      *)
(* teams, prices, rewards and ladder, and a match (MatchSimulator), for    *)
(* any teams, timings and number of rounds, whatever the dice.             *)
(***************************************************************************)
EXTENDS Economy, MatchSimulator, WellFoundedInduction, TLAPS

(***************************************************************************)
(* A non-empty set of naturals that is bounded has a greatest element: the *)
(* distances to the bound have a least one.                                *)
(***************************************************************************)
LEMMA GreatestExists ==
  ASSUME NEW S, S \subseteq Nat, S # {}, NEW b \in Nat, \A x \in S : x <= b
  PROVE  \E m \in S : \A x \in S : x <= m
<1> DEFINE T == {b - x : x \in S}
<1>1. T \subseteq Nat /\ T # {}
  <2>1. \A x \in S : x \in Nat /\ x <= b /\ b - x \in Nat
    OBVIOUS
  <2>2. QED
    BY <2>1
<1>2. PICK d \in T : \A e \in T : ~ (<<e, d>> \in OpToRel(<, Nat))
  BY <1>1, WFMin, NatLessThanWellFounded
<1>3. \A e \in T : d <= e
  <2>1. TAKE e \in T
  <2>2. ~ (e < d)
    BY <1>1, <1>2 DEF OpToRel
  <2>3. QED
    BY <1>1, <2>2
<1>4. PICK m \in S : d = b - m
  OBVIOUS
<1>5. \A x \in S : x <= m
  BY <1>3, <1>4
<1>6. QED
  BY <1>5

-----------------------------------------------------------------------------
(***************************************************************************)
(* What _affordable_weapon returns: the free sidearm, or a weapon of the   *)
(* side whose price leaves the armour reserve untouched.                   *)
(***************************************************************************)
LEMMA WeaponForType ==
  ASSUME NEW side \in Sides, NEW cash \in Nat
  PROVE  /\ WeaponFor(side, cash) \in Nat
         /\ WeaponFor(side, cash) # 0 => WeaponFor(side, cash) <= cash - ArmourReserve
<1> DEFINE affordable == {c \in Prices[side] : c <= cash - ArmourReserve}
<1>1. /\ Prices[side] \subseteq Nat
      /\ ArmourReserve \in Nat
  BY EconomyAssumption
<1>2. CASE affordable = {}
  BY <1>2 DEF WeaponFor
<1>3. CASE affordable # {}
  <2>1. affordable \subseteq Nat /\ \A c \in affordable : c <= cash
    BY <1>1
  <2>2. \E m \in affordable : \A c \in affordable : c <= m
    BY <1>3, <2>1, GreatestExists
  <2>3. WeaponFor(side, cash) \in affordable
    BY <1>3, <2>2 DEF WeaponFor
  <2>4. QED
    BY <2>1, <2>3
<1>4. QED
  BY <1>2, <1>3

(***************************************************************************)
(* What a buy does for any amount of cash: the loadout is one PlayerState  *)
(* accepts, its cost is the value of the equipment bought, and it never    *)
(* exceeds the cash.                                                       *)
(***************************************************************************)
LEMMA LoadoutSound ==
  ASSUME NEW side \in Sides, NEW cash \in Nat
  PROVE  LET bought == Loadout(side, cash) IN
         /\ bought.gear \in Gear
         /\ bought.cost \in 0..cash
         /\ bought.cost = EquipmentValue(bought.gear)
         /\ bought.gear.helmet => bought.gear.armour
         /\ bought.gear.kit => side = "CT"
         /\ bought.gear.price > 0 => bought.gear.helmet
<1> DEFINE price == WeaponFor(side, cash)
           budget == cash - price
           helmet == budget >= HelmetCost
           armour == helmet \/ budget >= KevlarCost
           rest == budget - (IF helmet THEN HelmetCost ELSE IF armour THEN KevlarCost ELSE 0)
           kit == side = "CT" /\ rest >= KitCost /\ cash >= KitThreshold
<1>1. /\ {KevlarCost, HelmetCost, KitCost, ArmourReserve, KitThreshold} \subseteq Nat
      /\ HelmetCost <= ArmourReserve
  BY EconomyAssumption
<1>2. price \in Nat /\ (price # 0 => price <= cash - ArmourReserve)
  BY WeaponForType
<1>3. budget \in Nat /\ (price > 0 => helmet)
  BY <1>1, <1>2
<1>4. rest \in 0..budget
  BY <1>1, <1>3
<1>5. Loadout(side, cash) =
        [gear |-> [price |-> price, armour |-> armour, helmet |-> helmet, kit |-> kit],
         cost |-> (cash - rest) + (IF kit THEN KitCost ELSE 0)]
  BY DEF Loadout
<1> HIDE DEF price
<1>6. (cash - rest) + (IF kit THEN KitCost ELSE 0) \in 0..cash
  BY <1>1, <1>2, <1>3, <1>4
<1>7. [price |-> price, armour |-> armour, helmet |-> helmet, kit |-> kit] \in Gear
  BY <1>2 DEF Gear
<1>8. price + (IF ~armour THEN 0 ELSE IF helmet THEN HelmetCost ELSE KevlarCost)
        + (IF kit THEN KitCost ELSE 0)
      = (cash - rest) + (IF kit THEN KitCost ELSE 0)
  BY <1>1, <1>2, <1>3, <1>4
<1>9. /\ helmet => armour
      /\ kit => side = "CT"
  OBVIOUS
<1> HIDE DEF budget, helmet, armour, rest, kit
<1>10. LET bought == Loadout(side, cash) IN
      /\ bought.gear = [price |-> price, armour |-> armour, helmet |-> helmet, kit |-> kit]
      /\ bought.gear.price = price /\ bought.gear.armour = armour
      /\ bought.gear.helmet = helmet /\ bought.gear.kit = kit
      /\ bought.cost = (cash - rest) + (IF kit THEN KitCost ELSE 0)
  BY <1>5
<1>11. EquipmentValue(Loadout(side, cash).gear) =
         price + (IF ~armour THEN 0 ELSE IF helmet THEN HelmetCost ELSE KevlarCost)
           + (IF kit THEN KitCost ELSE 0)
  BY <1>10, Zenon DEF EquipmentValue
<1>12. QED
  BY <1>3, <1>6, <1>7, <1>8, <1>9, <1>10, <1>11, Zenon

\* Rewards keep money a natural number under the cap.
LEMMA PaidType ==
  ASSUME money \in [Players -> 0..MaxMoney], NEW reward \in [Players -> Nat]
  PROVE  Paid(reward) \in [Players -> 0..MaxMoney]
<1>1. \A n \in Nat : Capped(n) \in 0..MaxMoney
  BY EconomyAssumption DEF Capped
<1>2. ASSUME NEW p \in Players
      PROVE  money[p] + reward[p] \in Nat
  <2>1. money[p] \in Nat /\ reward[p] \in Nat
    BY EconomyAssumption
  <2>2. QED
    BY <2>1
<1>3. \A p \in Players : Capped(money[p] + reward[p]) \in 0..MaxMoney
  BY <1>1, <1>2
<1>4. QED
  BY <1>3 DEF Paid

\* A loss pays a rung of the ladder.
LEMMA LossBonusRung ==
  ASSUME NEW n \in Nat \ {0}
  PROVE  \E i \in 1..Len(LossLadder) : LossBonus(n) = LossLadder[i] /\ LossLadder[i] \in Nat
<1>1. LossLadder \in Seq(Nat) /\ Len(LossLadder) \in Nat \ {0}
  BY EconomyAssumption
<1> DEFINE i == IF n < Len(LossLadder) THEN n ELSE Len(LossLadder)
<1>2. i \in 1..Len(LossLadder)
  BY <1>1
<1>3. LossLadder[i] \in Nat
  BY <1>1, <1>2
<1>4. LossBonus(n) = LossLadder[i]
  BY DEF LossBonus
<1>5. QED
  BY <1>2, <1>3, <1>4

\* A round has one winning side, and everybody else is on the other.
LEMMA SideFacts ==
  /\ Winner \in Sides /\ Opponent(Winner) \in Sides /\ Opponent(Winner) # Winner
  /\ \A p : SideOf(p) \in Sides
  /\ \A p : SideOf(p) # Winner => SideOf(p) = Opponent(Winner)
BY DEF Winner, Opponent, SideOf, Sides

-----------------------------------------------------------------------------
(***************************************************************************)
(* Every player's money stays within what an event may carry, and what is  *)
(* owned and carried has its type, in every state of every match.          *)
(***************************************************************************)
THEOREM EconTypeCorrect == EconSpec => []EconTypeOK
<1>1. EconInit => EconTypeOK
  BY EconomyAssumption DEF EconInit, EconTypeOK, Gear, Empty
<1>2. ASSUME EconTypeOK, [EconNext]_econVars
      PROVE  EconTypeOK'
  <2>1. CASE Buy
    <3>1. \A p \in Players : /\ Loadout(SideOf(p), money[p]).gear \in Gear
                             /\ Loadout(SideOf(p), money[p]).cost \in 0..money[p]
      <4> TAKE p \in Players
      <4>1. money[p] \in Nat /\ SideOf(p) \in Sides
        BY <1>2, SideFacts, EconomyAssumption DEF EconTypeOK
      <4>2. QED
        BY <4>1, LoadoutSound
    <3>2. gear' \in [Players -> Gear]
      BY <2>1, <3>1 DEF Buy
    <3>3. money' \in [Players -> 0..MaxMoney]
      <4>1. \A p \in Players : money[p] - Loadout(SideOf(p), money[p]).cost \in 0..MaxMoney
        <5> TAKE p \in Players
        <5>1. money[p] \in 0..MaxMoney /\ MaxMoney \in Nat
          BY <1>2, EconomyAssumption DEF EconTypeOK
        <5>2. QED
          BY <3>1, <5>1
      <4>2. QED
        BY <2>1, <4>1 DEF Buy
    <3>4. QED
      BY <1>2, <2>1, <3>2, <3>3 DEF Buy, EconTypeOK
  <2>2. CASE Kill
    <3>1. PICK killer \in living, victim \in living :
            /\ living' = living \ {victim}
            /\ gear' = [gear EXCEPT ![victim] = Empty]
            /\ money' = Paid([p \in Players |-> IF p = killer THEN KillReward ELSE 0])
      BY <2>2 DEF Kill
    <3>2. [p \in Players |-> IF p = killer THEN KillReward ELSE 0] \in [Players -> Nat]
      BY EconomyAssumption
    <3>3. money' \in [Players -> 0..MaxMoney]
      BY <1>2, <3>1, <3>2, PaidType DEF EconTypeOK
    <3>4. Empty \in Gear
      BY DEF Empty, Gear
    <3>5. QED
      BY <1>2, <2>2, <3>1, <3>3, <3>4 DEF Kill, EconTypeOK
  <2>3. CASE PlantBomb
    <3>1. PICK planter \in living \intersect Ts :
            money' = Paid([p \in Players |-> (IF p = planter THEN PlantReward ELSE 0)
                                             + (IF p \in Ts THEN TeamPlantReward ELSE 0)])
      BY <2>3 DEF PlantBomb
    <3>2. [p \in Players |-> (IF p = planter THEN PlantReward ELSE 0)
                             + (IF p \in Ts THEN TeamPlantReward ELSE 0)] \in [Players -> Nat]
      BY EconomyAssumption
    <3>3. money' \in [Players -> 0..MaxMoney]
      BY <1>2, <3>1, <3>2, PaidType DEF EconTypeOK
    <3>4. QED
      BY <1>2, <2>3, <3>3 DEF PlantBomb, EconTypeOK
  <2>4. CASE DefuseBomb
    <3>1. PICK defuser \in living \intersect CTs :
            money' = Paid([p \in Players |-> IF p = defuser THEN DefuseReward ELSE 0])
      BY <2>4 DEF DefuseBomb
    <3>2. [p \in Players |-> IF p = defuser THEN DefuseReward ELSE 0] \in [Players -> Nat]
      BY EconomyAssumption
    <3>3. money' \in [Players -> 0..MaxMoney]
      BY <1>2, <3>1, <3>2, PaidType DEF EconTypeOK
    <3>4. QED
      BY <1>2, <2>4, <3>3 DEF DefuseBomb, EconTypeOK
  <2>5. CASE EndRound
    <3>1. losses' \in [Sides -> Nat] /\ losses'[Opponent(Winner)] \in Nat \ {0}
      BY <1>2, <2>5, SideFacts DEF EndRound, RecordResult, EconTypeOK
    <3>2. LossBonus(losses'[Opponent(Winner)]) \in Nat
      BY <3>1, LossBonusRung
    <3>3. [p \in Players |->
             IF SideOf(p) # Winner THEN LossBonus(losses'[Opponent(Winner)])
             ELSE IF Exploded THEN BombWinReward ELSE WinReward] \in [Players -> Nat]
      BY <3>2, EconomyAssumption
    <3>4. money' \in [Players -> 0..MaxMoney]
      BY <1>2, <2>5, <3>3, PaidType DEF EndRound, PayRoundEnd, EconTypeOK
    <3>5. QED
      BY <1>2, <2>5, <3>1, <3>4 DEF EndRound, EconTypeOK
  <2>6. CASE UNCHANGED econVars
    BY <1>2, <2>6 DEF econVars, EconTypeOK
  <2>7. QED
    BY <1>2, <2>1, <2>2, <2>3, <2>4, <2>5, <2>6 DEF EconNext
<1>3. QED
  BY <1>1, <1>2, PTL DEF EconSpec

(***************************************************************************)
(* PlayerState accepts every gear a match produces, and no rifle is bought *)
(* without a helmet: by the loadout of a buy, and because a death empties  *)
(* the hands of its victim.                                                *)
(***************************************************************************)
THEOREM GearAlwaysValid == EconSpec => []GearValid
<1>1. EconInit => GearValid
  BY DEF EconInit, GearValid, GearAccepted, NoBareRifle, Empty
<1>2. ASSUME EconTypeOK, GearValid, [EconNext]_econVars
      PROVE  GearValid'
  <2> USE DEF GearValid, GearAccepted, NoBareRifle
  <2>1. CASE Buy
    <3>1. SUFFICES ASSUME NEW p \in Players
                   PROVE  /\ p \in living'
                          /\ gear'[p].helmet => gear'[p].armour
                          /\ gear'[p].kit => p \in CTs
                          /\ gear'[p].price > 0 => gear'[p].helmet
      OBVIOUS
    <3>2. gear'[p] = Loadout(SideOf(p), money[p]).gear
      BY <2>1 DEF Buy
    <3>3. SideOf(p) = "CT" => p \in CTs
      BY DEF SideOf
    <3>4. money[p] \in Nat
      BY <1>2, EconomyAssumption DEF EconTypeOK
    <3>5. QED
      BY <2>1, <3>2, <3>3, <3>4, LoadoutSound, SideFacts DEF Buy
  <2>2. CASE Kill
    <3>1. PICK killer \in living, victim \in living :
            /\ living' = living \ {victim}
            /\ gear' = [gear EXCEPT ![victim] = Empty]
      BY <2>2 DEF Kill
    <3>2. \A p \in Players : gear'[p] = IF p = victim THEN Empty ELSE gear[p]
      BY <1>2, <3>1 DEF EconTypeOK
    <3>3. ~Empty.helmet /\ ~Empty.kit /\ Empty.price = 0
      BY DEF Empty
    <3>4. QED
      BY <1>2, <2>2, <3>1, <3>2, <3>3 DEF Kill
  <2>3. CASE PlantBomb \/ DefuseBomb \/ UNCHANGED econVars
    BY <1>2, <2>3 DEF PlantBomb, DefuseBomb, econVars
  <2>4. CASE EndRound
    BY <1>2, <2>4 DEF EndRound
  <2>5. QED
    BY <1>2, <2>1, <2>2, <2>3, <2>4 DEF EconNext
<1>3. QED
  BY <1>1, <1>2, EconTypeCorrect, PTL DEF EconSpec

(***************************************************************************)
(* No buy creates or destroys value: what leaves the purse is what the     *)
(* equipment is worth, whatever is bought and whatever it costs.           *)
(***************************************************************************)
THEOREM BuysConserveValue == EconSpec => BuyConserves
<1>1. ASSUME EconTypeOK, [EconNext]_econVars
      PROVE  [phase = "buy" => \A p \in Players :
                money'[p] + EquipmentValue(gear'[p]) = money[p]]_econVars
  <2>1. CASE Buy
    <3>1. SUFFICES ASSUME NEW p \in Players
                   PROVE  money'[p] + EquipmentValue(gear'[p]) = money[p]
      OBVIOUS
    <3> DEFINE bought == Loadout(SideOf(p), money[p])
    <3>2. gear'[p] = bought.gear /\ money'[p] = money[p] - bought.cost
      BY <2>1 DEF Buy
    <3>3. money[p] \in Nat
      BY <1>1, EconomyAssumption DEF EconTypeOK
    <3>4. bought.cost \in Nat /\ bought.cost = EquipmentValue(bought.gear)
      BY <3>3, LoadoutSound, SideFacts
    <3>5. QED
      BY <3>2, <3>3, <3>4
  <2>2. CASE Kill \/ PlantBomb \/ DefuseBomb \/ EndRound
    BY <2>2 DEF Kill, PlantBomb, DefuseBomb, EndRound
  <2>3. QED
    BY <1>1, <2>1, <2>2 DEF EconNext
<1>2. QED
  BY <1>1, EconTypeCorrect, PTL DEF EconSpec, BuyConserves

(***************************************************************************)
(* A lost round pays every loser a rung of the ladder, or up to the cap:   *)
(* the streak is recorded before the bonus is looked up, so it is never    *)
(* looked up for a streak of zero.                                         *)
(***************************************************************************)
THEOREM LosersAlwaysPaid == EconSpec => LosersArePaid
<1>1. ASSUME EconTypeOK, [EconNext]_econVars
      PROVE  [phase = "live" /\ phase' = "buy" =>
                \A p \in Team(Opponent(Winner)) :
                  \/ money'[p] = MaxMoney
                  \/ \E i \in 1..Len(LossLadder) :
                       money'[p] = money[p] + LossLadder[i]]_econVars
  <2>1. CASE EndRound
    <3>1. SUFFICES ASSUME NEW p \in Team(Opponent(Winner))
                   PROVE  \/ money'[p] = MaxMoney
                          \/ \E i \in 1..Len(LossLadder) :
                               money'[p] = money[p] + LossLadder[i]
      OBVIOUS
    <3> DEFINE bonus == LossBonus(losses'[Opponent(Winner)])
    <3>2. p \in Players /\ SideOf(p) # Winner
      BY EconomyAssumption, SideFacts DEF Team, SideOf, Players, Opponent, Sides
    <3>3. losses'[Opponent(Winner)] \in Nat \ {0}
      BY <1>1, <2>1, SideFacts DEF EndRound, RecordResult, EconTypeOK
    <3>4. money'[p] = Capped(money[p] + bonus)
      BY <2>1, <3>2 DEF EndRound, PayRoundEnd, Paid
    <3>5. PICK i \in 1..Len(LossLadder) : bonus = LossLadder[i]
      BY <3>3, LossBonusRung
    <3>6. QED
      BY <3>4, <3>5 DEF Capped
  <2>2. CASE Buy \/ Kill \/ PlantBomb \/ DefuseBomb
    BY <2>2 DEF Buy, Kill, PlantBomb, DefuseBomb
  <2>3. QED
    BY <1>1, <2>1, <2>2 DEF EconNext
<1>2. QED
  BY <1>1, EconTypeCorrect, PTL DEF EconSpec, LosersArePaid

-----------------------------------------------------------------------------
InRound == stage = "freeze" \/ InLivePhase

Sum == score["CT"] + score["T"]

\* How the score stands, in a round and between two.
ScoreInv ==
  /\ score \in [Sides -> 0..RoundsToWin]
  /\ stage # "over" => Sum = IF InRound THEN round - 1 ELSE round
  /\ stage = "match_start" => Sum = 0
  /\ InRound => ~IsDecided
  /\ stage = "between" =>
       Sum <= MaxRegulation /\ (score["CT"] < RoundsToWin \/ score["T"] < RoundsToWin)

\* Until a round is resolved both sides are there, and the plant and the end
\* of the clock are still to come.
RoundInv ==
  /\ stage = "freeze" => alive = CTs \union Ts
  /\ stage \in {"clock", "engage", "resolve"} => outcome = Undecided
  /\ stage \in {"tick", "clock", "engage"} /\ outcome = Undecided => BothAlive
  /\ stage = "resolve" => Alive("T") # {} \/ Alive("CT") # {}
  /\ stage \in {"tick", "clock"} /\ outcome = Undecided /\ ~Planted =>
       remaining > plantAt /\ remaining > 0
  /\ stage \in {"engage", "resolve"} /\ ~Planted => remaining >= plantAt /\ remaining >= 0

\* A decision describes the round: what ReasonFits and the schema ask of the
\* event that is made of it.
Stands(winner, reason) ==
  \/ winner = "CT" /\ reason = "t_eliminated" /\ Alive("T") = {} /\ Alive("CT") # {}
  \/ winner = "T" /\ reason = "ct_eliminated" /\ Alive("CT") = {} /\ Alive("T") # {} /\ ~Planted
  \/ winner = "CT" /\ reason = "bomb_defused" /\ BothAlive /\ bomb = 0
  \/ /\ winner = "T" /\ reason = "bomb_exploded" /\ Planted /\ Alive("T") # {}
     /\ bomb = 0 \/ Alive("CT") = {}
  \/ winner = "CT" /\ reason = "time_expired" /\ BothAlive /\ ~Planted /\ remaining <= 0

DecisionInv ==
  /\ stage = "tick" /\ outcome # Undecided => Stands(outcome.winner, outcome.reason)
  /\ event.type = "round_end" => stage = "between" /\ Stands(event.winner, event.reason)
  /\ event.type = "match_end" => stage = "over"

SimInv ==
  /\ SimTypeOK /\ ScoreInv /\ RoundInv /\ BombFollowsPlant /\ DecisionInv
  /\ SchemaAccepts /\ ScoresAddUp /\ FinalScore

-----------------------------------------------------------------------------
LEMMA SimInitInv == ASSUME SimInit PROVE SimInv
<1> USE SimulatorAssumption DEF SimInit
<1>1. SimTypeOK
  BY DEF SimTypeOK, Undecided, Sides
<1>2. ScoreInv
  BY DEF ScoreInv, InRound, InLivePhase, Sum, Sides
<1>3. RoundInv /\ BombFollowsPlant
  BY DEF RoundInv, BombFollowsPlant, InLivePhase
<1> QED
  BY <1>1, <1>2, <1>3
  DEF SimInv, DecisionInv, SchemaAccepts, ScoresAddUp, FinalScore

\* What does not touch the score, the round or the event keeps what is said of
\* them.
LEMMA SameEvent ==
  ASSUME SimInv, UNCHANGED <<event, score, round>>
  PROVE  SchemaAccepts' /\ ScoresAddUp' /\ FinalScore'
BY DEF SimInv, SchemaAccepts, ScoresAddUp, FinalScore

\* An event that carries no score says nothing about it.
LEMMA NoScoreInEvent ==
  ASSUME event'.type \notin {"round_start", "round_end", "match_end"}
  PROVE  ScoresAddUp' /\ FinalScore'
BY DEF ScoresAddUp, FinalScore

\* A step within a round leaves the score alone.
LEMMA SameScore ==
  ASSUME SimInv, UNCHANGED <<score, round>>, InRound, InRound'
  PROVE  ScoreInv'
<1>1. stage \notin {"over", "match_start", "between"} /\ stage' \notin {"over", "match_start", "between"}
  BY DEF InRound, InLivePhase
<1> QED
  BY <1>1 DEF SimInv, ScoreInv, Sum, IsDecided

-----------------------------------------------------------------------------
\* The events before the first live tick.
LEMMA OpeningKeeps ==
  ASSUME SimInv, MatchStart \/ RoundStart \/ FreezeTick
  PROVE  SimInv'
<1> USE SimulatorAssumption DEF SimInv
<1>1. CASE MatchStart
  <2>1. /\ stage = "match_start" /\ stage' = "between" /\ event' = [type |-> "match_start"]
        /\ UNCHANGED <<round, score, alive, frozen, remaining, bomb, plantAt, outcome>>
    BY <1>1 DEF MatchStart
  <2>2. SimTypeOK'
    BY <2>1 DEF SimTypeOK
  <2>3. ScoreInv'
    BY <2>1 DEF ScoreInv, Sum, InRound, InLivePhase, Sides
  <2> QED
    BY <2>1, <2>2, <2>3, NoScoreInEvent
    DEF RoundInv, BombFollowsPlant, InLivePhase, DecisionInv, SchemaAccepts
<1>2. CASE RoundStart
  <2>1. /\ stage = "between" /\ ~IsDecided /\ stage' = "freeze"
        /\ round' = round + 1 /\ alive' = CTs \union Ts /\ frozen' = FreezeTicks
        /\ event' = [type |-> "round_start", round |-> round', score |-> score]
        /\ UNCHANGED <<score, remaining, bomb, plantAt, outcome>>
    BY <1>2 DEF RoundStart
  <2>2. Sum = round /\ Sum < MaxRegulation /\ round \in Nat
    BY <2>1 DEF ScoreInv, IsDecided, InRound, InLivePhase, Sum, Sides, SimTypeOK
  <2>3. SimTypeOK'
    BY <2>1, <2>2 DEF SimTypeOK
  <2>4. ScoreInv'
    BY <2>1, <2>2 DEF ScoreInv, InRound, InLivePhase, IsDecided, Sum
  <2>5. ScoresAddUp'
    BY <2>1, <2>2 DEF ScoresAddUp, Sum
  <2> QED
    BY <2>1, <2>3, <2>4, <2>5
    DEF RoundInv, BombFollowsPlant, InLivePhase, DecisionInv, SchemaAccepts, FinalScore
<1>3. CASE FreezeTick
  <2>1. /\ stage = "freeze" /\ stage' = "freeze" /\ frozen > 0 /\ frozen' = frozen - 1
        /\ event' = [type |-> "tick", round |-> round, phase |-> "freezetime",
                     clock |-> RoundTicks, planted |-> FALSE, bomb |-> NoBomb, alive |-> alive]
        /\ UNCHANGED <<round, score, alive, remaining, bomb, plantAt, outcome>>
    BY <1>3 DEF FreezeTick
  <2>2. SimTypeOK'
    BY <2>1 DEF SimTypeOK
  <2>3. ScoreInv'
    BY <2>1, SameScore DEF InRound
  <2>4. SchemaAccepts'
    <3>1. /\ event'.type = "tick" /\ event'.clock = RoundTicks /\ event'.phase = "freezetime"
          /\ event'.planted = FALSE /\ event'.bomb = NoBomb
      BY <2>1
    <3>2. event'.clock \in 0..RoundTicks
      BY <3>1
    <3> QED
      BY <3>1, <3>2 DEF SchemaAccepts
  <2> QED
    BY <2>1, <2>2, <2>3, <2>4, NoScoreInEvent
    DEF RoundInv, BombFollowsPlant, InLivePhase, DecisionInv
<1> QED
  BY <1>1, <1>2, <1>3

\* The locals of a live round; its ticks; its clocks.
LEMMA TickingKeeps ==
  ASSUME SimInv, GoLive \/ LiveTick \/ Clock
  PROVE  SimInv'
<1> USE SimulatorAssumption DEF SimInv
<1>1. CASE GoLive
  <2>1. /\ stage = "freeze" /\ stage' = "tick" /\ remaining' = RoundTicks /\ bomb' = NoBomb
        /\ outcome' = Undecided /\ plantAt' \in PlantMoments \union {-1}
        /\ UNCHANGED <<round, score, alive, frozen, event>>
    BY <1>1 DEF GoLive
  <2>2. SimTypeOK'
    BY <2>1 DEF SimTypeOK, Undecided
  <2>3. ScoreInv'
    BY <2>1, SameScore DEF InRound, InLivePhase
  <2>4. plantAt' < RoundTicks /\ plantAt' \in Int /\ RoundTicks > 0
    BY <2>1
  <2>5. BothAlive'
    BY <2>1 DEF RoundInv, BothAlive, Alive, Team
  <2>6. RoundInv'
    BY <2>1, <2>4, <2>5 DEF RoundInv
  <2>7. BombFollowsPlant' /\ DecisionInv'
    BY <2>1 DEF BombFollowsPlant, Planted, DecisionInv
  <2> QED
    BY <2>1, <2>2, <2>3, <2>6, <2>7, SameEvent
<1>2. CASE LiveTick
  <2>1. /\ stage = "tick" /\ outcome = Undecided /\ stage' = "clock"
        /\ event' = TickEvent(IF Planted THEN "bomb_planted" ELSE "live",
                              IF remaining < 0 THEN 0 ELSE remaining)
        /\ UNCHANGED <<round, score, alive, frozen, remaining, bomb, plantAt, outcome>>
    BY <1>2 DEF LiveTick
  <2>2. SimTypeOK'
    BY <2>1 DEF SimTypeOK
  <2>3. ScoreInv'
    BY <2>1, SameScore DEF InRound, InLivePhase
  <2>4. RoundInv'
    BY <2>1 DEF RoundInv, BothAlive, Alive, Planted
  <2>5. BombFollowsPlant'
    BY <2>1 DEF BombFollowsPlant, InLivePhase, Planted
  <2>6. event'.type = "tick"
    BY <2>1 DEF TickEvent
  <2>7. SchemaAccepts'
    <3>1. /\ event'.planted = Planted /\ event'.bomb = bomb
          /\ event'.phase = (IF Planted THEN "bomb_planted" ELSE "live")
          /\ event'.clock = (IF remaining < 0 THEN 0 ELSE remaining)
      BY <2>1 DEF TickEvent
    <3>2. event'.clock \in 0..RoundTicks
      BY <3>1 DEF SimTypeOK
    <3>3. Planted => bomb \in 0..BombTicks
      BY DEF Planted, SimTypeOK
    <3> QED
      BY <2>6, <3>1, <3>2, <3>3 DEF SchemaAccepts, Planted
  <2> QED
    BY <2>1, <2>2, <2>3, <2>4, <2>5, <2>6, <2>7, NoScoreInEvent DEF DecisionInv
<1>3. CASE Clock
  <2>1. /\ stage = "clock" /\ stage' = "engage" /\ remaining' = remaining - 1
        /\ bomb' = IF Planted THEN (IF bomb > 0 THEN bomb - 1 ELSE 0) ELSE bomb
        /\ UNCHANGED <<round, score, alive, frozen, plantAt, outcome, event>>
    BY <1>3 DEF Clock
  <2>2. Planted' <=> Planted
    BY <2>1 DEF Planted, SimTypeOK
  <2>3. SimTypeOK'
    BY <2>1 DEF SimTypeOK, Planted
  <2>4. ScoreInv'
    BY <2>1, SameScore DEF InRound, InLivePhase
  <2>5. plantAt \in Int /\ remaining \in Int /\ BombTicks \in Nat
    BY DEF SimTypeOK
  <2>6. RoundInv'
    BY <2>1, <2>2, <2>5 DEF RoundInv, BothAlive, Alive
  <2>7. BombFollowsPlant'
    BY <2>1, <2>2, <2>5 DEF BombFollowsPlant, InLivePhase
  <2>8. DecisionInv'
    BY <2>1 DEF DecisionInv
  <2> QED
    BY <2>1, <2>3, <2>4, <2>6, <2>7, <2>8, SameEvent
<1> QED
  BY <1>1, <1>2, <1>3

-----------------------------------------------------------------------------
\* A duel takes one player, and leaves the other.
LEMMA EngageKeeps ==
  ASSUME SimInv, Engage
  PROVE  SimInv'
<1> USE SimulatorAssumption DEF SimInv
<1>1. /\ stage = "engage" /\ stage' = "resolve" /\ outcome = Undecided
      /\ UNCHANGED <<round, score, frozen, remaining, bomb, plantAt, outcome>>
  BY DEF Engage, RoundInv
<1>2. /\ alive' \subseteq alive
      /\ Alive("T")' # {} \/ Alive("CT")' # {}
      /\ event' = event \/ event'.type = "kill"
  <2>1. CASE UNCHANGED <<alive, event>>
    BY <1>1, <2>1 DEF RoundInv, BothAlive, Alive
  <2>2. CASE \E side \in Sides : \E killer \in Alive(side), victim \in Alive(Opponent(side)) :
               /\ alive' = alive \ {victim}
               /\ event' = [type |-> "kill", round |-> round, killer |-> killer,
                            victim |-> victim, victim_team |-> Opponent(side)]
    <3>1. PICK side \in Sides : \E killer \in Alive(side), victim \in Alive(Opponent(side)) :
               /\ alive' = alive \ {victim}
               /\ event' = [type |-> "kill", round |-> round, killer |-> killer,
                            victim |-> victim, victim_team |-> Opponent(side)]
      BY <2>2
    <3>2. PICK killer \in Alive(side), victim \in Alive(Opponent(side)) :
               /\ alive' = alive \ {victim}
               /\ event'.type = "kill"
      BY <3>1
    <3>3. killer # victim
      BY <3>1, <3>2 DEF Alive, Team, Opponent, Sides
    <3>4. killer \in Alive(side)'
      BY <3>2, <3>3 DEF Alive
    <3>5. side = "T" \/ side = "CT"
      BY <3>1 DEF Sides
    <3> QED
      BY <3>2, <3>4, <3>5
  <2> QED
    BY <2>1, <2>2 DEF Engage
<1>3. SimTypeOK'
  BY <1>1, <1>2 DEF SimTypeOK
<1>4. ScoreInv'
  BY <1>1, SameScore DEF InRound, InLivePhase
<1>5. RoundInv'
  BY <1>1, <1>2 DEF RoundInv, Planted
<1>6. BombFollowsPlant'
  BY <1>1 DEF BombFollowsPlant, InLivePhase, Planted
<1>7. DecisionInv'
  BY <1>1, <1>2 DEF DecisionInv
<1>8. SchemaAccepts' /\ ScoresAddUp' /\ FinalScore'
  <2>1. CASE event' = event
    BY <1>1, <2>1, SameEvent
  <2>2. CASE event'.type = "kill"
    BY <2>2, NoScoreInEvent DEF SchemaAccepts
  <2> QED
    BY <1>2, <2>1, <2>2
<1> QED
  BY <1>3, <1>4, <1>5, <1>6, <1>7, <1>8

\* What every way to resolve a tick has in common.
LEMMA ResolvedKeeps ==
  ASSUME SimInv, stage = "resolve", stage' = "tick",
         UNCHANGED <<round, score, alive, frozen, remaining, plantAt>>,
         outcome' # Undecided => Stands(outcome'.winner, outcome'.reason) /\ bomb' = bomb,
         outcome' \in {Undecided} \union [winner : Sides, reason : {"t_eliminated",
           "ct_eliminated", "bomb_exploded", "bomb_defused", "time_expired"}],
         outcome' = Undecided => BothAlive /\ (bomb' = NoBomb => remaining > plantAt /\ remaining > 0),
         bomb' \in 0..BombTicks \union {NoBomb},
         BombFollowsPlant',
         event' = event \/ event'.type \in {"bomb_planted", "bomb_defused"}
  PROVE  SimInv'
<1> USE SimulatorAssumption DEF SimInv
<1>1. SimTypeOK'
  BY DEF SimTypeOK, Undecided
<1>2. ScoreInv'
  BY SameScore DEF InRound, InLivePhase
<1>3. RoundInv'
  BY DEF RoundInv, BothAlive, Alive, Planted
<1>4. event'.type \notin {"round_end", "match_end"}
  BY DEF DecisionInv
<1>5. DecisionInv'
  BY <1>4 DEF DecisionInv, Stands, BothAlive, Alive, Planted
<1>6. SchemaAccepts' /\ ScoresAddUp' /\ FinalScore'
  <2>1. CASE event' = event
    BY <2>1, SameEvent
  <2>2. CASE event'.type \in {"bomb_planted", "bomb_defused"}
    BY <2>2, NoScoreInEvent DEF SchemaAccepts
  <2> QED
    BY <2>1, <2>2
<1> QED
  BY <1>1, <1>2, <1>3, <1>5, <1>6

LEMMA ResolveKeeps ==
  ASSUME SimInv, Resolve
  PROVE  SimInv'
<1> USE SimulatorAssumption DEF SimInv
<1> DEFINE Reasons == {"t_eliminated", "ct_eliminated", "bomb_exploded", "bomb_defused",
                       "time_expired"}
<1>1. stage = "resolve" /\ stage' = "tick" /\ outcome = Undecided
  BY DEF Resolve, RoundInv
<1>2. /\ bomb \in 0..BombTicks \union {NoBomb} /\ NoBomb \notin Nat
      /\ remaining \in Int /\ plantAt \in Int
      /\ ~Planted => remaining >= plantAt /\ remaining >= 0
  BY <1>1 DEF SimTypeOK, RoundInv
<1>3. ASSUME NEW winner \in Sides, NEW reason \in Reasons, Decide(winner, reason),
             Stands(winner, reason), event' = event \/ event'.type = "bomb_defused"
      PROVE  SimInv'
  <2>1. /\ outcome' = [winner |-> winner, reason |-> reason]
        /\ UNCHANGED <<round, score, alive, frozen, remaining, bomb, plantAt>>
    BY <1>3 DEF Decide, Decision
  <2>2. /\ outcome' # Undecided
        /\ outcome'.winner = winner /\ outcome'.reason = reason
        /\ outcome' \in [winner : Sides, reason : Reasons]
    BY <2>1 DEF Undecided, Sides
  <2>3. BombFollowsPlant'
    BY <1>1, <2>1 DEF BombFollowsPlant, InLivePhase, Planted
  <2> QED
    BY <1>1, <1>2, <1>3, <2>1, <2>2, <2>3, ResolvedKeeps
<1>4. CASE Eliminated
  <2>1. Alive("T") # {} \/ Alive("CT") # {}
    BY <1>1 DEF RoundInv
  <2>2. CASE Alive("T") = {}
    <3>1. Decide("CT", "t_eliminated") /\ event' = event /\ Stands("CT", "t_eliminated")
      BY <1>4, <2>1, <2>2 DEF Eliminated, Stands
    <3> QED
      BY <1>3, <3>1 DEF Sides
  <2>3. CASE Alive("T") # {} /\ Planted
    <3>1. Decide("T", "bomb_exploded") /\ event' = event /\ Stands("T", "bomb_exploded")
      BY <1>4, <2>3 DEF Eliminated, Stands
    <3> QED
      BY <1>3, <3>1 DEF Sides
  <2>4. CASE Alive("T") # {} /\ ~Planted
    <3>1. Decide("T", "ct_eliminated") /\ event' = event /\ Stands("T", "ct_eliminated")
      BY <1>4, <2>4 DEF Eliminated, Stands
    <3> QED
      BY <1>3, <3>1 DEF Sides
  <2> QED
    BY <2>2, <2>3, <2>4
<1>5. CASE BothAlive /\ Plant
  <2>1. /\ remaining = plantAt /\ bomb' = BombTicks /\ event'.type = "bomb_planted"
        /\ UNCHANGED <<round, score, alive, frozen, remaining, plantAt, outcome>>
    BY <1>2, <1>5 DEF Plant, PlantDue
  <2>2. BombFollowsPlant'
    BY <1>2, <2>1 DEF BombFollowsPlant
  <2>3. bomb' # NoBomb /\ bomb' \in 0..BombTicks
    BY <1>2, <2>1
  <2> QED
    BY <1>1, <1>5, <2>1, <2>2, <2>3, ResolvedKeeps
<1>6. CASE BothAlive /\ ~PlantDue /\ Detonate
  <2>1. Planted /\ bomb = 0
    BY <1>2, <1>6 DEF Detonate, Planted
  <2>2. CASE Decide("CT", "bomb_defused") /\ event'.type = "bomb_defused"
    BY <1>3, <1>6, <2>1, <2>2 DEF Stands, Sides
  <2>3. CASE Decide("T", "bomb_exploded") /\ event' = event
    BY <1>3, <1>6, <2>1, <2>3 DEF Stands, Sides, BothAlive
  <2> QED
    BY <1>6, <2>2, <2>3 DEF Detonate
<1>7. CASE BothAlive /\ ~PlantDue /\ bomb # 0 /\ ClockRunsOut
             /\ Decide("CT", "time_expired") /\ UNCHANGED event
  BY <1>3, <1>7 DEF Stands, Sides, ClockRunsOut
<1>8. CASE BothAlive /\ ~PlantDue /\ bomb # 0 /\ ~ClockRunsOut
             /\ UNCHANGED <<round, score, alive, frozen, remaining, bomb, plantAt, outcome, event>>
  <2>1. bomb = NoBomb => remaining > plantAt /\ remaining > 0
    BY <1>2, <1>8 DEF PlantDue, ClockRunsOut, Planted
  <2>2. BombFollowsPlant'
    BY <1>1, <1>8 DEF BombFollowsPlant, InLivePhase, Planted
  <2> QED
    BY <1>1, <1>2, <1>8, <2>1, <2>2, ResolvedKeeps
<1> QED
  BY <1>4, <1>5, <1>6, <1>7, <1>8 DEF Resolve

-----------------------------------------------------------------------------
\* The round counts for its winner.
LEMMA RoundEndKeeps ==
  ASSUME SimInv, RoundEnd
  PROVE  SimInv'
<1> USE SimulatorAssumption DEF SimInv
<1>1. /\ stage = "tick" /\ outcome # Undecided /\ stage' = "between"
      /\ score' = [score EXCEPT ![outcome.winner] = @ + 1]
      /\ event' = [type |-> "round_end", round |-> round, winner |-> outcome.winner,
                   reason |-> outcome.reason, score |-> score']
      /\ UNCHANGED <<round, alive, frozen, remaining, bomb, plantAt, outcome>>
  BY DEF RoundEnd
<1>2. Stands(outcome.winner, outcome.reason) /\ outcome.winner \in Sides
  BY <1>1 DEF DecisionInv, Stands, Sides
<1>3. /\ score["CT"] \in 0..(RoundsToWin - 1) /\ score["T"] \in 0..(RoundsToWin - 1)
      /\ Sum < MaxRegulation /\ Sum = round - 1
  BY <1>1 DEF ScoreInv, InRound, InLivePhase, IsDecided, Sum, Sides
<1>4. /\ score' \in [Sides -> 0..RoundsToWin]
      /\ score'["CT"] + score'["T"] = round
      /\ score'["CT"] + score'["T"] <= MaxRegulation
      /\ score'["CT"] < RoundsToWin \/ score'["T"] < RoundsToWin
  <2>1. RoundsToWin \in Nat /\ MaxRegulation \in Nat /\ round \in Nat
    BY DEF SimTypeOK
  <2>2. score \in [Sides -> 0..RoundsToWin] /\ score["CT"] + score["T"] = round - 1
    BY <1>3 DEF ScoreInv, Sum
  <2>3. CASE outcome.winner = "CT"
    <3>1. score'["CT"] = score["CT"] + 1 /\ score'["T"] = score["T"]
      BY <1>1, <2>2, <2>3 DEF Sides
    <3>2. score' \in [Sides -> 0..RoundsToWin]
      BY <1>1, <1>3, <2>1, <2>2, <2>3 DEF Sides
    <3> QED
      BY <1>3, <2>1, <2>2, <3>1, <3>2 DEF Sum
  <2>4. CASE outcome.winner = "T"
    <3>1. score'["T"] = score["T"] + 1 /\ score'["CT"] = score["CT"]
      BY <1>1, <2>2, <2>4 DEF Sides
    <3>2. score' \in [Sides -> 0..RoundsToWin]
      BY <1>1, <1>3, <2>1, <2>2, <2>4 DEF Sides
    <3> QED
      BY <1>3, <2>1, <2>2, <3>1, <3>2 DEF Sum
  <2> QED
    BY <1>2, <2>3, <2>4 DEF Sides
<1>5. SimTypeOK'
  BY <1>1, <1>4 DEF SimTypeOK
<1>6. ScoreInv'
  BY <1>1, <1>4 DEF ScoreInv, InRound, InLivePhase, Sum
<1>7. RoundInv' /\ BombFollowsPlant'
  BY <1>1 DEF RoundInv, BombFollowsPlant, InLivePhase
<1>8. Stands(event.winner, event.reason)'
  BY <1>1, <1>2 DEF Stands, BothAlive, Alive, Planted
<1>9. DecisionInv'
  BY <1>1, <1>8 DEF DecisionInv
<1>10. SchemaAccepts'
  BY <1>1, <1>8 DEF SchemaAccepts, Stands
<1>11. ScoresAddUp' /\ FinalScore'
  BY <1>1, <1>4 DEF ScoresAddUp, FinalScore
<1> QED
  BY <1>5, <1>6, <1>7, <1>9, <1>10, <1>11

\* The match is decided, or tied and given to the CTs.
LEMMA MatchEndKeeps ==
  ASSUME SimInv, MatchEnd
  PROVE  SimInv'
<1> USE SimulatorAssumption DEF SimInv
<1>1. /\ stage = "between" /\ IsDecided /\ stage' = "over"
      /\ score' = IF score["CT"] = score["T"] THEN [score EXCEPT !["CT"] = @ + 1] ELSE score
      /\ event' = [type |-> "match_end", score |-> score',
                   winner |-> IF score["CT"] >= score["T"] THEN "CT" ELSE "T"]
      /\ UNCHANGED <<round, alive, frozen, remaining, bomb, plantAt, outcome>>
  BY DEF MatchEnd
<1> DEFINE ct == score["CT"]
           t == score["T"]
<1>2. /\ ct \in 0..RoundsToWin /\ t \in 0..RoundsToWin
      /\ ct + t <= MaxRegulation /\ ct + t = round
      /\ ct < RoundsToWin \/ t < RoundsToWin
      /\ ct = RoundsToWin \/ t = RoundsToWin \/ ct + t = MaxRegulation
  BY <1>1 DEF ScoreInv, InRound, InLivePhase, IsDecided, Sum, Sides
<1>3. \/ ct = t /\ ct = RoundsToWin - 1 /\ round = MaxRegulation
      \/ ct = RoundsToWin /\ t < RoundsToWin - 1
      \/ t = RoundsToWin /\ ct < RoundsToWin - 1
  BY <1>2
<1>4. /\ score' \in [Sides -> 0..RoundsToWin]
      /\ score'["CT"] = (IF ct = t THEN ct + 1 ELSE ct) /\ score'["T"] = t
  BY <1>1, <1>2, <1>3 DEF ScoreInv, Sides
<1>5. SimTypeOK'
  BY <1>1, <1>4 DEF SimTypeOK
<1>6. ScoreInv'
  BY <1>1, <1>4 DEF ScoreInv, InRound, InLivePhase
<1>7. RoundInv' /\ BombFollowsPlant' /\ DecisionInv'
  BY <1>1 DEF RoundInv, BombFollowsPlant, InLivePhase, DecisionInv
<1>8. /\ event'.type = "match_end" /\ event'.score = score'
      /\ event'.winner = (IF score'["CT"] > score'["T"] THEN "CT" ELSE "T")
  BY <1>1, <1>2, <1>3, <1>4
<1>9. SchemaAccepts' /\ ScoresAddUp' /\ FinalScore'
  BY <1>1, <1>2, <1>3, <1>4, <1>8 DEF SchemaAccepts, ScoresAddUp, FinalScore, Opponent
<1> QED
  BY <1>5, <1>6, <1>7, <1>9

LEMMA StutterKeeps ==
  ASSUME SimInv, UNCHANGED simVars PROVE SimInv'
BY DEF simVars, SimInv, SimTypeOK, ScoreInv, RoundInv, BombFollowsPlant, DecisionInv,
       SchemaAccepts, ScoresAddUp, FinalScore, InRound, InLivePhase, Sum, IsDecided, Stands,
       BothAlive, Alive, Planted

-----------------------------------------------------------------------------
(***************************************************************************)
(* The inductive invariant: until a tick is resolved both sides are alive  *)
(* and the plant and the end of the clock lie ahead, so a plant lands at   *)
(* exactly its moment; a decision describes the round it ends; and no      *)
(* round begins once the match is decided.                                 *)
(***************************************************************************)
THEOREM SimInvariant == SimSpec => []SimInv
<1>1. SimInit => SimInv
  BY SimInitInv
<1>2. SimInv /\ [SimNext]_simVars => SimInv'
  BY OpeningKeeps, TickingKeeps, EngageKeeps, ResolveKeeps, RoundEndKeeps, MatchEndKeeps,
     StutterKeeps DEF SimNext
<1> QED
  BY <1>1, <1>2, PTL DEF SimSpec

(***************************************************************************)
(* No path of any match makes an event that its own schema rejects, bomb   *)
(* and clock stay in step, and the reason of a round end is true.          *)
(***************************************************************************)
THEOREM EventsAlwaysValid == SimSpec => []EventsValid
<1>1. SimInv => EventsValid
  <2> SUFFICES ASSUME SimInv PROVE EventsValid
    OBVIOUS
  <2>1. ReasonFits
    BY DEF SimInv, DecisionInv, Stands, ReasonFits
  <2> QED
    BY <2>1 DEF SimInv, EventsValid
<1> QED
  BY <1>1, SimInvariant, PTL

(***************************************************************************)
(* Scores in events count the rounds decided, and a match is won with      *)
(* exactly RoundsToWin, a tie by the CTs.                                  *)
(***************************************************************************)
THEOREM ScoresAlwaysRight == SimSpec => []ScoresRight
<1>1. SimInv => ScoresRight
  BY DEF SimInv, ScoresRight
<1> QED
  BY <1>1, SimInvariant, PTL
=============================================================================
