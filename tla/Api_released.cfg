SPECIFICATION MCSpec
CONSTANTS
  c1 = c1
  c2 = c2
  Clients = {c1, c2}
  Audiences <- MCAudiences
  AllMatches = AllMatches
  Match = "apex-demo"
  Topic <- MCTopic
  MaxFailures = 1
INVARIANTS
  ReleasedAtTheEnd
CHECK_DEADLOCK FALSE
