SPECIFICATION Spec
CONSTANTS
    Facts = {}
    Loops = {x}
    Values = {u}
    Agents = {ann, bob}
    Fields = {}
    Contents = {}
    ResultVersions = {"legacy"}
    Operations = {"write", "reconcile"}
    Strictness = {TRUE}
    Acknowledge = {FALSE}
    PreLedger = {}
    MaxChanges = 1
    MaxRevision = 4
    MaxRollbacks = 0
INVARIANTS
    AcceptedOwnerIsAccepted
CHECK_DEADLOCK FALSE
