\* An interrupt sends what the check allows, while the loop returns a kept event
SPECIFICATION Spec
CONSTANTS
  ER_EVENT_TYPE__OFFSET = 0
  ER_EVENT_TYPE__COUNT = 9
  Module <- LoopModule
  Event <- LoopEvent
  m_module_idx <- LoopIdx
  m_type <- LoopType
  m_sending_module <- LoopOwner
  MaySend = {"sample"}
  InterruptSends = {"alarm"}
  MaskedWhileSending = TRUE
  SendsReturnedOnly = FALSE
  MaySubscribe <- LoopSubscribe
  MayKeep = {"logger"}
  NULL = NULL
INVARIANT NoAssertionFails
