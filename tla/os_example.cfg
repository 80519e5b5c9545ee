\* A publisher, two subscribers in another task, two events, fair
SPECIFICATION FairSpec
CONSTANTS
  NumTasks = 2
  Module <- ExampleModule
  Type <- ExampleEvent
  Event <- ExampleEvent
  m_task_idx <- ExampleTask
  m_module_idx <- ExampleIdx
  m_type <- OwnType
  m_sending_module <- ExampleOwner
  External = {}
  Isr = {}
  MaySend <- OwnersSend
  MayResend <- Nobody
  MaySubscribe <- ExampleSubscribe
  MayKeep = {"uploader"}
  Capacity = 2
  Blocking = TRUE
  MaxReferences = 0
INVARIANTS
  TypeOK
  SubscriptionsCovered
  OwnerHasExclusiveUse
  ReturnedExactlyOnce
  NoSubscriberMissed
  SendNeverFindsQueueFull
PROPERTIES
  LifecycleSpec
  SentOnlyWhenReturned
  EveryEventReturns
