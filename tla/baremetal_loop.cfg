\* Two events of one type sent by the loop, one by an interrupt, all kept, fair
SPECIFICATION FairSpec
CONSTANTS
  ER_EVENT_TYPE__OFFSET = 0
  ER_EVENT_TYPE__COUNT = 9
  Module <- LoopModule
  Event <- LoopEvent
  m_module_idx <- LoopIdx
  m_type <- LoopType
  m_sending_module <- LoopOwner
  MaySend = {"sample", "alarm"}
  InterruptSends = {"key"}
  MaskedWhileSending = TRUE
  SendsReturnedOnly = TRUE
  MaySubscribe <- LoopSubscribe
  MayKeep = {"logger", "display"}
  NULL = NULL
INVARIANTS
  CountsAccountForAll
  ListsAreDisjoint
  KeptListTells
  NoAssertionFails
  SentEventsAreFound
  SubscriptionsStayInArray
PROPERTIES
  DeliveredInOrder
  LifecycleSpec
  EveryEventReturns
