SPECIFICATION FairSpec
CONSTANTS
  Workers = 3
  JobSizes <- MCJobSizes
  MaxJobs = 2
INVARIANTS
  NoStraggler
PROPERTIES
  ImplementsForkJoin
  CallsReturn
