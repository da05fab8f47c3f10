SPECIFICATION MCSpec
CONSTANTS
    None = None
    reminder = reminder
    triage = triage
    Syncers = {"tick", "poll"}
    weekly = weekly
    Names = {reminder, triage, weekly}
    FirstNames = {reminder, triage}
    OneShot = {reminder}
    Heartbeat = {triage}
    Overlapping = {}
    ForOwner = {reminder}
    Period = 2
    Nudge = 1
    LateAfter = 0
    MaxClock = 2
    MaxMoves = 2
    MaxOwnerOps = 1
    MaxCrashes = 1
INVARIANTS BellComplete OwnerBuzzed NotSwallowed 
CHECK_DEADLOCK FALSE
