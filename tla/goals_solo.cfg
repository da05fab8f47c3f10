SPECIFICATION Spec
CONSTANTS
  Clients = {owner}
  Goals = {ship}
  ship = ship
  owner = owner
  MaxTasks = 2
  MaxRequests = 6
  MaxClaims = 1
  MaxCrashes = 1
INVARIANTS
  TypeOK
  OneParkedPlan
  NothingStranded
  PlanStaysParked
PROPERTIES
  KeepsLifecycle
