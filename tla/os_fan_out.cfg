\* Subscribers in three tasks, one of them the owner's, and re-sending
SPECIFICATION Spec
CONSTANTS
  NumTasks = 3
  Module <- FanModule
  Type <- FanEvent
  Event <- FanEvent
  m_task_idx <- FanTask
  m_module_idx <- FanIdx
  m_type <- OwnType
  m_sending_module <- FanOwner
  External = {}
  Isr = {}
  MaySend <- OwnersSend
  MayResend <- OwnersSend
  MaySubscribe <- FanSubscribe
  MayKeep = {"higher"}
  Capacity = 4
  Blocking = FALSE
  MaxReferences = 2
INVARIANTS
  RefCountMatches
  NoSubscriberMissed
  NoAssertionFails
