\* An interrupt sends while the loop does
SPECIFICATION Spec
CONSTANTS
  ER_EVENT_TYPE__OFFSET = 0
  ER_EVENT_TYPE__COUNT = 9
  Module <- LoopModule
  Event <- LoopEvent
  m_module_idx <- LoopIdx
  m_type <- LoopType
  m_sending_module <- LoopOwner
  MaySend = {"sample"}
  InterruptSends = {"key"}
  MaskedWhileSending = FALSE
  SendsReturnedOnly = TRUE
  MaySubscribe <- LoopSubscribe
  MayKeep = {}
  NULL = NULL
INVARIANT SentEventsAreFound
