SPECIFICATION MCSpec
CONSTANTS
  c1 = c1
  NoBomb = NoBomb
  t1 = t1
  t2 = t2
  CTs = {c1}
  Ts = {t1, t2}
  Prices <- MCPrices
  StartingMoney = 800
  MaxMoney = 6000
  KevlarCost = 650
  HelmetCost = 1000
  KitCost = 400
  ArmourReserve = 1000
  KitThreshold = 3000
  KillReward = 300
  PlantReward = 300
  TeamPlantReward = 800
  DefuseReward = 300
  WinReward = 3250
  BombWinReward = 3500
  LossLadder <- MCLadder
  MaxRounds = 4
  FreezeTicks = 1
  RoundTicks = 4
  BombTicks = 3
  PlantMoments = {1, 2, 3}
  RoundsToWin = 3
  MaxRegulation = 4
  g1 = g1
  kill = kill
  tick = tick
  onKill = onKill
  onAny = onAny
  Sentinel = Sentinel
  None = None
  Every = Every
  Malformed = Malformed
  Groups = {g1}
  Subs <- MCSubs
  GroupOf <- MCGroupOf
  MaxSize = 3
  MaxPublish = 6
  MaxStarts = 1
  Handlers = {onKill, onAny}
  Wants <- MCWants
  Content <- MCContent
  Limits <- MCLimits
  Ticks = {1, 3}
  AnyFrom = 3
  AnyLimits = {0, 1}
  Drivers = {"any", "live"}
  LiveLimits = {0, 2, 3, 5, 7}
INVARIANTS
  DispatchExact
  DrainedMeansHandled
  EventsValid
  ScoresRight
  GearValid
PROPERTIES
  QueuedEventIsDispatched
  CommandEnds
  MatchOver
  BuyConserves
  LosersArePaid
CHECK_DEADLOCK FALSE
