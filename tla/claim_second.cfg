SPECIFICATION Spec
CONSTANTS
  Tasks = {"build"}
  Deps = {}
  Released = {"build"}
  Required = {}
  Optional = {}
  Code = {}
  Mine = {}
  None = "none"
  Cap = 2
  MaxRework = 2
  MaxRuns = 3
  MaxReviews = 0
  MaxOwnerOps = 2
  MaxCrashes = 0
  MaxFaults = 0
PROPERTIES
  NoSecondClaim
