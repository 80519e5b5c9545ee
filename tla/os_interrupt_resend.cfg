\* An interrupt re-sends: the reference count goes negative
SPECIFICATION Spec
CONSTANTS
  NumTasks = 2
  Module <- PairModule
  Type <- FanEvent
  Event <- FanEvent
  m_task_idx <- PairTask
  m_module_idx <- PairIdx
  m_type <- OwnType
  m_sending_module <- FanOwner
  External = {}
  Isr = {timer}
  MaySend <- Nobody
  MayResend <- OwnersAndInterruptsSend
  MaySubscribe <- PairSubscribe
  MayKeep = {}
  Capacity = 5
  Blocking = FALSE
  MaxReferences = 3
INVARIANTS
  CountNeverNegative
CHECK_DEADLOCK FALSE
