SPECIFICATION Spec
CONSTANTS
  Clients = {owner, agent}
  Goals = {ship}
  ship = ship
  owner = owner
  agent = agent
  MaxTasks = 2
  MaxRequests = 5
  MaxClaims = 0
  MaxCrashes = 0
SYMMETRY Callers
INVARIANTS
  OnlyApprovedRuns
  NoOrphanTask
