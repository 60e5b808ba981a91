SPECIFICATION DriverSpec
CONSTANTS
  g1 = g1
  kill = kill
  tick = tick
  onKill = onKill
  onAny = onAny
  Sentinel = Sentinel
  None = None
  Every = Every
  Malformed = Malformed
  Groups = {g1}
  Subs <- MCSubs
  GroupOf <- MCGroupOf
  MaxSize = 6
  MaxPublish = 6
  MaxStarts = 1
  Handlers = {onKill, onAny}
  Wants <- MCWants
  Content <- MCContent
  Limits <- MCLimits
  Ticks = {1, 3}
  AnyFrom = 3
  AnyLimits = {0, 1}
  Drivers = {"live"}
  LiveLimits = {0}
PROPERTIES
  LiveTerminates
CHECK_DEADLOCK FALSE
