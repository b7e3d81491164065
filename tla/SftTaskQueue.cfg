SPECIFICATION FairQueueSpec
CONSTANTS
  c1 = c1
  c2 = c2
  t1 = t1
  t2 = t2
  t3 = t3
  Clients <- MCClients
  Tasks <- MCTasks
  Garbage <- ZeroMemory
  MaxSpurious = 1
  NULL = NULL
INVARIANTS
  QueueTypeOK
PROPERTIES
  ImplementsExecutor
  EveryTaskRuns
  QueueCallsReturn
