CONSTANTS
  docTopic = docTopic
  docPlain = docPlain
  cacheEvent = cacheEvent
  Clients = {c1}
  Msgs = {docPlain, cacheEvent}
  Topics = {}
  TopicsOf <- MCTopicsOf
  KindOf <- MCKindOf
  Pong = pong
  NoMsg = nomsg
  NoClient = noclient
  SendCap = 1
  BroadcastCap = 1
  MaxPerSecond = 1
  MaxReads = 1
SPECIFICATION FairSpec
INVARIANTS BroadcastsInOrder NoSilentLoss
PROPERTIES DeadClientLeaves CallbackReturns
CHECK_DEADLOCK FALSE
