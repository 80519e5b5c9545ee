\* Two tasks wait for an initialization: one is left behind
SPECIFICATION FairSpec
CONSTANTS
  Task = {t1, t2}
  NumInits = 1
  StoresOrdered = TRUE
PROPERTY GateWakesEverybody
