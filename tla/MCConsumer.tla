----------------------------- MODULE MCConsumer -----------------------------
(***************************************************************************)
(* The consumer under two drivers, one per behaviour, over a topic that    *)
(* carries two event types and a corrupt payload, with a typed and a       *)
(* wildcard handler.  "any": whoever starts, stops and cancels it, from    *)
(* offset AnyFrom on.  "live": the command, with limits that are reached   *)
(* and limits that are not: zero, one beyond the corrupt payload, and one  *)
(* larger than the match.                                                  *)
(***************************************************************************)
EXTENDS LivePipeline, TLC

CONSTANTS
  g1, kill, tick, onKill, onAny,
  Drivers,   \* the drivers to look at
  AnyFrom,   \* what is published before any consumer runs
  AnyLimits, \* values of max_events of a consumer
  LiveLimits \* values of --max-events

VARIABLE driver

driverVars == <<driver, liveVars>>

MCSubs == {1, 2}
MCGroupOf == [s \in MCSubs |-> g1]
MCWants == onKill :> kill @@ onAny :> Every
MCContent ==
  0 :> kill @@ 1 :> tick @@ 2 :> kill @@ 3 :> tick @@ 4 :> Malformed @@ 5 :> kill
MCLimits == AnyLimits \union LiveLimits

DriverInit ==
  /\ driver \in Drivers
  /\ LiveInit

AnyNext ==
  /\ driver = "any" /\ ConsumerNext
  /\ run' > 0 => offset' >= AnyFrom /\ limit' \in AnyLimits
  /\ UNCHANGED <<driver, mainVars>>

LiveOnly(action) ==
  /\ driver = "live" /\ action
  /\ run' > 0 => limit' \in LiveLimits
  /\ UNCHANGED driver

DriverNext == AnyNext \/ LiveOnly(LiveNext)

\* The fairness of ConsumerFairSpec and that of LiveSpec.
DriverSpec ==
  /\ DriverInit /\ [][DriverNext]_driverVars
  /\ WF_driverVars(AnyNext /\ Receive)
  /\ WF_driverVars(AnyNext /\ Handle)
  /\ WF_driverVars(AnyNext /\ Leave)
  /\ WF_driverVars(AnyNext /\ Progress)
  /\ WF_driverVars(LiveOnly(MainTask))
  /\ WF_driverVars(LiveOnly(ConsumerTask))

\* When the command ends, under the driver that runs it: LivePipeline.
CommandEnds == driver = "live" => LiveEndsOrStarves
=============================================================================
