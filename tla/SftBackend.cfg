SPECIFICATION FairSpec
CONSTANTS
  MaxThreads = 3
  Builds <- MCBuilds
  JobSizes <- MCJobSizes
  MaxJobs = 2
INVARIANTS
  RangesArmed
PROPERTIES
  ImplementsForkJoin
  CallsReturn
