SPECIFICATION Spec
CONSTANTS
    Facts = {x}
    Loops = {}
    Values = {u}
    Agents = {ann}
    Fields = {}
    Contents = {}
    ResultVersions = {"v3"}
    Operations = {"write", "reconcile"}
    Strictness = {TRUE, FALSE}
    Acknowledge = {TRUE}
    PreLedger = {}
    MaxChanges = 1
    MaxRevision = 5
    MaxRollbacks = 0
INVARIANTS
    StrictLeavesNothingOwed
    EveryStoredValueIsShown
PROPERTIES
    OwedUntilAnswered
SYMMETRY Symmetry
CHECK_DEADLOCK FALSE
