CONSTANTS
  docTopic = docTopic
  docPlain = docPlain
  cacheEvent = cacheEvent
  Clients = {c1, c2}
  Msgs = {docTopic}
  Topics = {t1}
  TopicsOf <- MCTopicsOf
  KindOf <- MCKindOf
  Pong = pong
  NoMsg = nomsg
  NoClient = noclient
  SendCap = 1
  BroadcastCap = 1
  MaxPerSecond = 1
  MaxReads = 1
SPECIFICATION Spec
SYMMETRY ClientSymmetry
INVARIANTS TypeOK MembersOpen GaugeExact
PROPERTIES OnlyPongPanics
CHECK_DEADLOCK FALSE
