SPECIFICATION Spec
CONSTANTS
    Facts = {}
    Loops = {}
    Values = {}
    Agents = {ann}
    Fields = {f1, f2}
    Contents = {c1, c2}
    ResultVersions = {"legacy"}
    Operations = {"write", "record", "patch", "reconcile"}
    Strictness = {TRUE}
    Acknowledge = {FALSE}
    PreLedger = {}
    MaxChanges = 0
    MaxRevision = 4
    MaxRollbacks = 1
SYMMETRY Symmetry
INVARIANTS
    StatesStayValid
    RepairStaysOpen
PROPERTIES
    DerivedStateKeepsTheRest
    DesignationOnlyByReconcile
    FrontierIsImplemented
CHECK_DEADLOCK FALSE
