SPECIFICATION FairSpec
CONSTANTS
  Tasks = {"build", "push"}
  Deps <- PushAfterBuild
  Released = {"build", "push"}
  Required = {"build"}
  Optional = {}
  Code = {}
  Mine = {"push"}
  None = "none"
  Cap = 1
  MaxRework = 2
  MaxRuns = 5
  MaxReviews = 3
  MaxOwnerOps = 0
  MaxCrashes = 1
  MaxFaults = 0
INVARIANTS
  RunBudget
  DependencyOrder
PROPERTIES
  
  Settles
  DeadRunNoticed
  PromotionHeals
