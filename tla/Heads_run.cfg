SPECIFICATION Spec
CONSTANTS
    Facts = {}
    Loops = {}
    Values = {}
    Agents = {ann}
    Fields = {}
    Contents = {}
    ResultVersions = {"legacy", "v3"}
    Operations = {"write", "reconcile"}
    Strictness = {TRUE}
    Acknowledge = {TRUE}
    PreLedger = {}
    MaxChanges = 0
    MaxRevision = 6
    MaxRollbacks = 0
INVARIANTS
    TypeOK
    PointerIsLive
    HistoryHasAHead
    OneSnapshotPerKey
    RetryReplays
PROPERTIES
    PointerMovesForward
    ReconcileConverges
    ExpectationsNeverReturn
CHECK_DEADLOCK FALSE
