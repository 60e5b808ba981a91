------------------------------ MODULE Economy ------------------------------
(***************************************************************************)
(* The money of producer/simulator.py: what players own and carry, the buy *)
(* phase, the rewards, the loss bonus.  The course of a round is reduced   *)
(* to what pays or costs: kills, the plant, the defusal, the result.       *)
(***************************************************************************)
EXTENDS Roster, Integers, Sequences, FiniteSets

CONSTANTS
  Prices,         \* side -> positive costs of the weapons it can buy
  StartingMoney, MaxMoney,
  KevlarCost, HelmetCost, KitCost, \* HelmetCost is KEVLAR_HELMET_COST, for both
  ArmourReserve,  \* ARMOUR_BUY_THRESHOLD
  KitThreshold,   \* KIT_BUY_THRESHOLD
  KillReward, PlantReward, TeamPlantReward, DefuseReward,
  WinReward, BombWinReward,
  LossLadder,     \* LOSS_BONUS_LADDER
  MaxRounds       \* bound on the rounds played

Players == CTs \union Ts

ASSUME EconomyAssumption ==
  /\ CTs \intersect Ts = {}
  /\ Prices \in [Sides -> SUBSET (Nat \ {0})]
  /\ \A side \in Sides : IsFiniteSet(Prices[side])
  /\ MaxMoney \in Nat
  /\ StartingMoney \in 0..MaxMoney
  /\ {KevlarCost, HelmetCost, KitCost, ArmourReserve, KitThreshold} \subseteq Nat
  /\ {KillReward, PlantReward, TeamPlantReward, DefuseReward,
      WinReward, BombWinReward} \subseteq Nat
  /\ LossLadder \in Seq(Nat) /\ LossLadder # <<>>
  /\ MaxRounds \in Nat
  /\ HelmetCost <= ArmourReserve

VARIABLES
  phase,   \* "buy" before a buy phase, "live" from there to the payout
  rounds,  \* rounds started
  money,   \* per player
  gear,    \* per player: price of the weapon, armour, has_helmet, has_defuse_kit
  living,  \* the players with health
  device,  \* "none", "planted" or "defused"
  losses   \* consecutive_losses of the two ledgers

econVars == <<phase, rounds, money, gear, living, device, losses>>

SideOf(p) == IF p \in CTs THEN "CT" ELSE "T"

Empty == [price |-> 0, armour |-> FALSE, helmet |-> FALSE, kit |-> FALSE]

EconInit ==
  /\ phase = "buy" /\ rounds = 0
  /\ money = [p \in Players |-> StartingMoney]
  /\ gear = [p \in Players |-> Empty]
  /\ living = {} /\ device = "none"
  /\ losses = [side \in Sides |-> 0]

-----------------------------------------------------------------------------
Capped(amount) == IF amount < MaxMoney THEN amount ELSE MaxMoney

LossBonus(n) ==
  IF n <= 0 THEN 0
  ELSE LossLadder[IF n < Len(LossLadder) THEN n ELSE Len(LossLadder)]

\* The dearest weapon that leaves the reserve, or 0: the free sidearm.
WeaponFor(side, cash) ==
  LET affordable == {c \in Prices[side] : c <= cash - ArmourReserve}
  IN IF affordable = {} THEN 0
     ELSE CHOOSE c \in affordable : \A d \in affordable : d <= c

\* Mutant: kits are sold to both sides.
LoadoutWithKit(side, cash) ==
  LET price == WeaponFor(side, cash)
      budget == cash - price
      helmet == budget >= HelmetCost
      armour == helmet \/ budget >= KevlarCost
      rest == budget - (IF helmet THEN HelmetCost ELSE IF armour THEN KevlarCost ELSE 0)
      kit == rest >= KitCost /\ cash >= KitThreshold
  IN [gear |-> [price |-> price, armour |-> armour, helmet |-> helmet, kit |-> kit],
      cost |-> (cash - rest) + (IF kit THEN KitCost ELSE 0)]

\* Mutant: a helmet costs what kevlar costs.
LoadoutHelmetCheap(side, cash) ==
  LET price == WeaponFor(side, cash)
      budget == cash - price
      helmet == budget >= HelmetCost
      armour == helmet \/ budget >= KevlarCost
      rest == budget - (IF armour THEN KevlarCost ELSE 0)
      kit == side = "CT" /\ rest >= KitCost /\ cash >= KitThreshold
  IN [gear |-> [price |-> price, armour |-> armour, helmet |-> helmet, kit |-> kit],
      cost |-> (cash - rest) + (IF kit THEN KitCost ELSE 0)]

\* _buy_phase for one player: what is carried, and what it cost.
Loadout(side, cash) ==
  LET price == WeaponFor(side, cash)
      budget == cash - price
      helmet == budget >= HelmetCost
      armour == helmet \/ budget >= KevlarCost
      rest == budget - (IF helmet THEN HelmetCost ELSE IF armour THEN KevlarCost ELSE 0)
      kit == side = "CT" /\ rest >= KitCost /\ cash >= KitThreshold
  IN [gear |-> [price |-> price, armour |-> armour, helmet |-> helmet, kit |-> kit],
      cost |-> (cash - rest) + (IF kit THEN KitCost ELSE 0)]

\* equipment_value
EquipmentValue(g) ==
  g.price + (IF ~g.armour THEN 0 ELSE IF g.helmet THEN HelmetCost ELSE KevlarCost)
    + (IF g.kit THEN KitCost ELSE 0)

\* _award, for every player at once.
Paid(reward) == [p \in Players |-> Capped(money[p] + reward[p])]

-----------------------------------------------------------------------------
\* reset_for_round, and the buy phases of both sides.
Buy ==
  /\ phase = "buy" /\ rounds < MaxRounds
  /\ phase' = "live" /\ rounds' = rounds + 1
  /\ gear' = [p \in Players |-> Loadout(SideOf(p), money[p]).gear]
  /\ money' = [p \in Players |-> money[p] - Loadout(SideOf(p), money[p]).cost]
  /\ living' = Players /\ device' = "none"
  /\ UNCHANGED losses

\* _resolve_duel
Kill ==
  /\ phase = "live" /\ device # "defused"
  /\ \E killer, victim \in living :
       /\ SideOf(killer) # SideOf(victim)
       /\ living' = living \ {victim}
       /\ gear' = [gear EXCEPT ![victim] = Empty]
       /\ money' = Paid([p \in Players |-> IF p = killer THEN KillReward ELSE 0])
  /\ UNCHANGED <<phase, rounds, device, losses>>

PlantBomb ==
  /\ phase = "live" /\ device = "none"
  /\ living \intersect CTs # {}
  /\ \E planter \in living \intersect Ts :
       money' = Paid([p \in Players |-> (IF p = planter THEN PlantReward ELSE 0)
                                        + (IF p \in Ts THEN TeamPlantReward ELSE 0)])
  /\ device' = "planted"
  /\ UNCHANGED <<phase, rounds, gear, living, losses>>

DefuseBomb ==
  /\ phase = "live" /\ device = "planted"
  /\ living \intersect Ts # {}
  /\ \E defuser \in living \intersect CTs :
       money' = Paid([p \in Players |-> IF p = defuser THEN DefuseReward ELSE 0])
  /\ device' = "defused"
  /\ UNCHANGED <<phase, rounds, gear, living, losses>>

\* How a round that ends now ends: the winner, and whether by explosion.
Winner ==
  IF living \intersect Ts = {} \/ (living \intersect CTs # {} /\ device # "planted")
    THEN "CT" ELSE "T"

Exploded == Winner = "T" /\ device = "planted"

\* _pay_round_end, with the streak the loser's bonus is looked up for.
PayRoundEnd(streak) ==
  money' = Paid([p \in Players |->
             IF SideOf(p) # Winner THEN LossBonus(streak)
             ELSE IF Exploded THEN BombWinReward ELSE WinReward])

\* record_win and record_loss
RecordResult ==
  losses' = [losses EXCEPT ![Winner] = 0, ![Opponent(Winner)] = @ + 1]

\* Mutant: the bonus is looked up before the loss is recorded.
EndRoundPayingFirst ==
  /\ phase = "live" /\ phase' = "buy"
  /\ RecordResult
  /\ PayRoundEnd(losses[Opponent(Winner)])
  /\ UNCHANGED <<rounds, gear, living, device>>

EndRound ==
  /\ phase = "live" /\ phase' = "buy"
  /\ RecordResult
  /\ PayRoundEnd(losses'[Opponent(Winner)])
  /\ UNCHANGED <<rounds, gear, living, device>>

EconNext == Buy \/ Kill \/ PlantBomb \/ DefuseBomb \/ EndRound

EconSpec == EconInit /\ [][EconNext]_econVars

-----------------------------------------------------------------------------
Gear == [price : Nat, armour : BOOLEAN, helmet : BOOLEAN, kit : BOOLEAN]

(***************************************************************************)
(* Types, and the bounds the wire model puts on a player's money (an event *)
(* outside them cannot be made): buys never overspend, rewards are capped. *)
(***************************************************************************)
EconTypeOK ==
  /\ phase \in {"buy", "live"}
  /\ rounds \in Nat
  /\ money \in [Players -> 0..MaxMoney]
  /\ gear \in [Players -> Gear]
  /\ living \subseteq Players
  /\ device \in {"none", "planted", "defused"}
  /\ losses \in [Sides -> Nat]

(***************************************************************************)
(* What PlayerState accepts: the dead carry nothing, a helmet comes with   *)
(* armour, only CTs carry kits.  And a bought weapon leaves enough for a   *)
(* helmet ("a rifle with no kevlar is a bad buy").                         *)
(***************************************************************************)
GearAccepted ==
  \A p \in Players :
    /\ phase = "live" /\ p \notin living => gear[p] = Empty
    /\ gear[p].helmet => gear[p].armour
    /\ gear[p].kit => p \in CTs

NoBareRifle == \A p \in Players : gear[p].price > 0 => gear[p].helmet

GearValid == GearAccepted /\ NoBareRifle

(***************************************************************************)
(* A buy turns money into equipment of the same value: the loadout and its *)
(* valuation, computed apart, agree to the last dollar.                    *)
(***************************************************************************)
BuyConserves ==
  [][phase = "buy" => \A p \in Players :
       money'[p] + EquipmentValue(gear'[p]) = money[p]]_econVars

(***************************************************************************)
(* A lost round always pays: every loser gets a rung of the ladder, or     *)
(* what fits under the cap.                                                *)
(***************************************************************************)
LosersArePaid ==
  [][phase = "live" /\ phase' = "buy" =>
       \A p \in Team(Opponent(Winner)) :
         \/ money'[p] = MaxMoney
         \/ \E i \in 1..Len(LossLadder) : money'[p] = money[p] + LossLadder[i]]_econVars
=============================================================================
