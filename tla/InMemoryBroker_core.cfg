SPECIFICATION FairSpec
CONSTANTS
  g1 = g1
  g2 = g2
  s1 = s1
  s2 = s2
  s3 = s3
  Groups = {g1, g2}
  Subs = {s1, s2, s3}
  GroupOf <- MCGroupOf
  MaxSize = 2
  MaxPublish = 3
  MaxStarts = 2
  Sentinel = Sentinel
  None = None
INVARIANTS
  QueueDiscipline
  StreamInOrder
  AtMostOncePerGroup
  EveryOffsetAccounted
PROPERTIES
  FanoutSpec
  StopEndsIteration
CHECK_DEADLOCK FALSE
