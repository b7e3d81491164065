SPECIFICATION FairSpec
CONSTANTS
  p1 = p1
  p2 = p2
  t1 = t1
  t2 = t2
  t3 = t3
  Producers <- MCProducers
  Tasks <- MCTasks
  Allowances <- MCAllowances
  Dummy = Dummy
  NULL = NULL
INVARIANTS
  NoUseAfterFree
  NothingLeaks
PROPERTIES
  SyncHonoured
  ImplementsExecutor
  EveryTaskRuns
  CallsReturn
