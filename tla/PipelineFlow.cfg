CONSTANTS
  crawl1 = crawl1
  crawl2 = crawl2
  process1 = process1
  process2 = process2
  index1 = index1
  Workers = {crawl1, process1, index1}
  Late = {index1}
  StageOf <- MCStageOf
  Docs = {d1}
  Found <- AllFound
  MaxChanges = 1
  MaxDeliver = 2
  Faults = {"subscribe", "process", "ack", "slow", "crash"}
  MaxFaults = 1
SPECIFICATION FairSpec
INVARIANTS TypeOK AckedIsIndexed GivenUpOnlyAtLimit OnceWithoutFaults
PROPERTIES EventuallyIndexed
CHECK_DEADLOCK FALSE
