SPECIFICATION Spec
CONSTANTS
    Facts = {}
    Loops = {x}
    Values = {u}
    Agents = {ann, bob}
    Fields = {}
    Contents = {}
    ResultVersions = {"legacy"}
    Operations = {"write", "reconcile"}
    Strictness = {TRUE}
    Acknowledge = {FALSE}
    PreLedger = {x}
    MaxChanges = 1
    MaxRevision = 3
    MaxRollbacks = 0
SYMMETRY Symmetry
INVARIANTS
    EvidenceStands
    ViewsAgreeOnALine
    AdmittedReconcilesCommit
CHECK_DEADLOCK FALSE
