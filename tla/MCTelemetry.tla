----------------------------- MODULE MCTelemetry -----------------------------
(***************************************************************************)
(* Where telemetry comes from and where it goes, one part per behaviour.   *)
(* "economy": the money of one CT and two Ts over four rounds, in          *)
(* dollars, with the prices and rewards of schemas/constants.py and        *)
(* schemas/enums.py.  "rounds": a match of the same teams, first to three  *)
(* with a tie after four, with a bomb that outlives the round clock.       *)
(* "drivers": the consumer, under each driver of MCConsumer.               *)
(***************************************************************************)
EXTENDS Economy, MatchSimulator, MCConsumer

CONSTANTS c1, t1, t2

VARIABLES part

MCPrices == [side \in Sides |->
  IF side = "CT" THEN {300, 700, 1200, 1250, 2050, 2900, 3100, 3300, 4750}
                 ELSE {300, 700, 1050, 1800, 2700, 3000, 4750}]

MCLadder == <<1400, 1900, 2400, 2900, 3400>>

producerVars == <<part, econVars, simVars>>
mcVars == <<producerVars, driverVars>>

\* What is not looked at stays in its initial state.
MCInit ==
  /\ part \in {"economy", "rounds", "drivers"}
  /\ EconInit /\ SimInit
  /\ DriverInit /\ (part # "drivers" => driver = "any")

RoundsNext == part = "rounds" /\ SimNext /\ UNCHANGED <<part, econVars, driverVars>>

MCNext ==
  \/ part = "economy" /\ EconNext /\ UNCHANGED <<part, simVars, driverVars>>
  \/ RoundsNext
  \/ part = "drivers" /\ DriverNext /\ UNCHANGED producerVars

DriversOnly == part = "drivers" /\ UNCHANGED producerVars

\* The consumer of the simulator's generator asks for the next event; the
\* rest is the fairness of DriverSpec.
MCSpec ==
  /\ MCInit /\ [][MCNext]_mcVars
  /\ WF_mcVars(RoundsNext)
  /\ WF_mcVars(DriversOnly /\ AnyNext /\ Receive)
  /\ WF_mcVars(DriversOnly /\ AnyNext /\ Handle)
  /\ WF_mcVars(DriversOnly /\ AnyNext /\ Leave)
  /\ WF_mcVars(DriversOnly /\ AnyNext /\ Progress)
  /\ WF_mcVars(DriversOnly /\ LiveOnly(MainTask))
  /\ WF_mcVars(DriversOnly /\ LiveOnly(ConsumerTask))

\* A match ends, whatever the dice: MatchSimulator.
MatchOver == part = "rounds" => MatchEnds
=============================================================================
