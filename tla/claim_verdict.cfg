SPECIFICATION Spec
CONSTANTS
  Tasks = {"build"}
  Deps = {}
  Released = {"build"}
  Required = {"build"}
  Optional = {}
  Code = {}
  Mine = {}
  None = "none"
  Cap = 1
  MaxRework = 2
  MaxRuns = 2
  MaxReviews = 1
  MaxOwnerOps = 0
  MaxCrashes = 0
  MaxFaults = 0
PROPERTIES
  VerdictKept
