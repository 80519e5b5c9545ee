\* Types that do not start at 0: a bit behind the array
SPECIFICATION Spec
CONSTANTS
  ER_EVENT_TYPE__OFFSET = 1
  ER_EVENT_TYPE__COUNT = 8
  Module <- LoopModule
  Event <- LoopEvent
  m_module_idx <- LoopIdx
  m_type <- LoopType
  m_sending_module <- LoopOwner
  MaySend = {"sample"}
  InterruptSends = {"key"}
  MaskedWhileSending = TRUE
  SendsReturnedOnly = TRUE
  MaySubscribe <- LoopSubscribe
  MayKeep = {}
  NULL = NULL
INVARIANT SubscriptionsStayInArray
