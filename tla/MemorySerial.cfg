CONSTANTS
  Requests = {r1, r2, r3, r4}
  Limit = 3
  MaxInFlight = 1
  Faults = {"redis", "expire", "llm", "redeploy"}
  AdminOps = {"archive"}
  Begins = {"post", "nil"}
SPECIFICATION Spec
PROPERTIES ImplementsLog
CHECK_DEADLOCK FALSE
