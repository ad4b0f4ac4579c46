SPECIFICATION FairSpec
CONSTANTS
  SCH_TASK_MAX = 4
  Registrations <- MCRegistrations
  SelfDeleting <- MCSelfDeleting
  WORD = 8
  MaxBacklog = 2
INVARIANTS
  TypeOK
  NoInventedRun
  OneShotOnce
  NotEarly
PROPERTY
  NoStarvation
