SPECIFICATION Spec
CONSTANTS
  Tasks = {"build"}
  Deps = {}
  Released = {"build"}
  Required = {}
  Optional = {"build"}
  Code = {}
  Mine = {}
  None = "none"
  Cap = 2
  MaxRework = 2
  MaxRuns = 3
  MaxReviews = 2
  MaxOwnerOps = 1
  MaxCrashes = 1
  MaxFaults = 1
INVARIANTS
  TypeOK
  RunningTaskWatched
  ReviewRunUnique
  SingleWorker
PROPERTIES
  RunFinality
  
CONSTRAINT TwoIncidents
