CONSTANTS
  Requests = {r1}
  Limit = 2
  MaxInFlight = 1
  Faults = {}
  AdminOps = {}
  Begins = {"adapter", "post", "nil"}
SPECIFICATION Spec
INVARIANTS AnsweredIsSaved
CHECK_DEADLOCK FALSE
