\* A reader and two writers, one with a deadline, a queue for two, fair
SPECIFICATION FairSpec
CONSTANTS
  Reader = {r}
  Writer = {w1, w2}
  Timed = {r, w2}
  ErEvent = {e1, e2}
  Capacity = 2
  NoAnswer = NoAnswer
  Written = Written
  Nobody = Nobody
INVARIANTS
  TypeOK
  NobodySleepsInVain
  GivesUpOnlyAtDeadline
PROPERTIES
  FifoSpec
  WritersMakeProgress
