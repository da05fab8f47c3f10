SPECIFICATION Spec
CONSTANTS
    work = work
    gym = gym
    green = green
    blue = blue
    draft1 = draft1
    draft2 = draft2
    None = None
    Areas = {work, gym}
    Tags = {green, blue}
    Texts = {draft1, draft2}
    Tabs = {desk, phone}
    Edits <- MCEdits
    Captures <- MCCaptures
    Payloads <- MCPayloads
    Routinely <- MCRoutine
    FirstNotes <- MCFirstNotes
    FirstAreas <- MCFirstAreas
    FirstTags = {green}
    MaxRequests = 2
    MaxProposals = 2
    MaxCrashes = 1
INVARIANTS FtsFresh TidyAlone Landed PagesAgree
SYMMETRY AnyTab
PROPERTY CaptureKept
CHECK_DEADLOCK FALSE
