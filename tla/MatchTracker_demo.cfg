SPECIFICATION TrackerSpec
CONSTANTS
  m1 = m1
  m2 = m2
  Matches = {m1}
  Topics <- DemoLoop
  WindowSpan = 3
  MaxTracked = 3
  MaxFailures = 0
  MaxExpiries = 0
  MaxRestarts = 0
  MaxShed = 0
  Absent = Absent
INVARIANTS
  HistoryOfOnePlay
CHECK_DEADLOCK FALSE
