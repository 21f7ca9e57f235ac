SPECIFICATION FairSpec
CONSTANTS
  NB_SEGMENTS = 2
  Threads = {t1,t2}
  Objects = {a}
  Values = {v1}
  NULL = NULL
  MAX_VERSION = 1
  SPURIOUS = FALSE
  Requests = {"safe_point", "commit", "inevitable"}
PROPERTIES SignalledAborts SynchronizerProceeds SleepersWakeUp InevitableCommits
