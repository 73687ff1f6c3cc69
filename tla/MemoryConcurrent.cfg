CONSTANTS
  Requests = {r1, r2}
  Limit = 2
  MaxInFlight = 2
  Faults = {"redis", "del", "expire", "db", "llm", "restart"}
  AdminOps = {"clear", "archive", "delete"}
  Begins = {"post", "nil"}
SPECIFICATION Spec
SYMMETRY RequestSymmetry
INVARIANTS RedisIsCommitted TurnsInOrder
  MemoryIsCommittedOrPending AnsweredIsSaved
CHECK_DEADLOCK FALSE
