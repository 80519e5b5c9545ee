\* Subscribers in three tasks: an event is handed back twice
SPECIFICATION Spec
CONSTANTS
  NumTasks = 3
  Module <- FanModule
  Type <- FanEvent
  Event <- FanEvent
  m_task_idx <- FanTask
  m_module_idx <- FanIdx
  m_type <- OwnType
  m_sending_module <- FanOwner
  External = {}
  Isr = {}
  MaySend <- OwnersSend
  MayResend <- Nobody
  MaySubscribe <- FanSubscribe
  MayKeep = {}
  Capacity = 1
  Blocking = FALSE
  MaxReferences = 0
INVARIANTS
  ReturnedExactlyOnce
