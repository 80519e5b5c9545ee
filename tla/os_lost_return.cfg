\* A thread outside the router sends: an event that was not handed back is sent
SPECIFICATION Spec
CONSTANTS
  NumTasks = 2
  Module <- PairModule
  Type <- FanEvent
  Event <- FanEvent
  m_task_idx <- PairTask
  m_module_idx <- PairIdx
  m_type <- OwnType
  m_sending_module <- FanOwner
  External = {main}
  Isr = {}
  MaySend <- ThreadsSend
  MayResend <- Nobody
  MaySubscribe <- PairSubscribe
  MayKeep = {}
  Capacity = 1
  Blocking = TRUE
  MaxReferences = 0
PROPERTIES
  SentOnlyWhenReturned
