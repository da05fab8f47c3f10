SPECIFICATION Spec
CONSTANTS
 Dumps <- MCDumps
 Idents <- MCIdents
 Areas <- MCAreas
 Secrets <- MCSecrets
 Fragments <- MCFragments
 Nameless <- MCNameless
 FirstNotes <- MCFirst
 Marked = {"v2"}
 Cut = "v"
 NoZip = NoZip
 Slices = {1}
 MaxRuns = 2
 MaxCrashes = 1
 MaxOwnerOps = 1
 MaxRestores = 2
 MaxFails = 1
 MaxCaptures = 1
INVARIANTS Accounted  ImportOnce 
CHECK_DEADLOCK FALSE
