\* Three tasks wait for two initializations
SPECIFICATION FairSpec
CONSTANTS
  Task = {t1, t2, t3}
  NumInits = 2
  StoresOrdered = TRUE
INVARIANTS
  NoTaskPassesEarly
  NoWakeupLost
PROPERTY GateWakesSomebody
