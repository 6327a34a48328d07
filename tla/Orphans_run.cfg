SPECIFICATION UpkeepSpec
CONSTANTS
    Machines = {"graph"}
    MessageIds <- Ids2
    Mails <- MCMails
    Shareds <- MCShareds
    Strays <- MCStrays
    Lost <- MCLost
    MaxRows = 3
    Tools = {"restore", "adjudicate"}
    MaxWrites = 2
    MaxMeddling = 2
    MaxFaults = 1
    Names = {n, m}
    MaxText = 2
    MaxMemories = 2
    MaxTrash = 1
    MaxJobs = 2
    MaxSlips = 1
    Scanned <- MCScanned
    Folders = {"deep"}
    MaxSnapshots = 2
    MaxCuts = 2
    MaxMoves = 2
    Lanes <- MCLanes
    Starts <- MCStarts
    Claims = {"ann"}
    Bases <- MCBases
    Grants <- MCGrants
    Modes = {"observe", "mixed", "required"}
    MaxIds = 2
    MaxNow = 1
    MaxAge = 0
SYMMETRY NameSymmetry
PROPERTY OnlyOrphansGo
CHECK_DEADLOCK FALSE
