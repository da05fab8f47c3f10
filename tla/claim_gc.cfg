SPECIFICATION MCSpec
CONSTANTS
  Tasks = {"build", "push"}
  Deps <- PushAfterBuild
  Released = {"build", "push"}
  Required = {}
  Optional = {"build"}
  Code = {"build", "push"}
  Mine = {}
  None = "none"
  Cap = 1
  MaxRework = 2
  MaxRuns = 3
  MaxReviews = 1
  MaxOwnerOps = 1
  MaxCrashes = 1
  MaxFaults = 1
PROPERTIES
  ParachutedFirst
CONSTRAINT Bounded
CHECK_DEADLOCK FALSE
