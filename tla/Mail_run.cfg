SPECIFICATION FairSpec
CONSTANTS
    Senders = {ann}
    Readers = {bob}
    Ids = {1, 2}
    None = None
    TicksPerDay = 1
    Moments = {2}
    PageSize = 1
    Corrections = {TRUE}
    Extras = {TRUE}
    Sinces = {None}
    Ages = {0}
    Tools = {"page", "detail", "mark", "archive"}
    Sessions = {"drain"}
INVARIANTS
    TypeOK
    WalkIsComplete
PROPERTIES
    DrainAdvances
    DrainEnds
    InboxIsImplemented
