SPECIFICATION MCSpec
CONSTANTS
  c1 = c1
  c2 = c2
  Clients = {c1, c2}
  Audiences <- MCAudiences
  AllMatches = AllMatches
  Match = "apex-demo"
  Topic <- MCTopic
  MaxFailures = 1
INVARIANTS
  StreamKept
  ReleasedUnderNobody
PROPERTIES
  DemoPlaysOn
  SignalEndsProcess
CHECK_DEADLOCK FALSE
