SPECIFICATION FairServicesSpec
CONSTANTS
    Machines = {"hub", "server", "resume", "registry", "gate"}
    MaxFaults = 1
    MaxChanges = 3
    Conns <- MCConns
    Owners <- MCOwners
    HubModes = {"mixed"}
    Patience = 1
    Calls = {"c1", "c2"}
    MaxHandles = 3
    MaxTasks = 2
    MaxTroubles = 1
    Items <- MCItems
    Cost <- MCCost
    Came <- MCCame
    Directory <- MCDirectory
    Scopes <- MCScopes
    Callers <- MCCallers
    Includes <- MCIncludes
    Budgets = {2, 3}
    Hidden = {0, 1}
    Ids = {"ann", "e1"}
    Ephemeral = {"e1"}
    Base <- MCBase
    Displays = {"Ann", "Eve"}
    Caps = {{}, {"build"}}
    Ttls = {1, 99}
    Retain = 1
    GcLimit = 1
    MaxNow = 3
    MaxSends = 1
    Confs <- MCConfs
    Requests <- MCRequests
    Tenants = {"default", "acme"}
    KeyTenant <- MCKeyTenant
    Limits = {1, 2}
    DayLimit = 1
    Points = 1
    MaxTries = 1
    MaxAdministered = 1
    MaxRequests = 3
INVARIANTS
    HubIsSafe
    ServerIsSafe
    ResumeIsSound
    RegistryIsSound
    GateIsSafe
PROPERTIES
    CloseEnds
    StepsAreSafe
CHECK_DEADLOCK FALSE
