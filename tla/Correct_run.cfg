SPECIFICATION Spec
CONSTANTS
    Senders = {ann, cho}
    Readers = {bob, dan}
    Ids = {1, 2, 3}
    None = None
    TicksPerDay = 1
    Moments = {}
    PageSize = 1
    Corrections = {TRUE}
    Extras = {FALSE}
    Sinces = {None}
    Ages = {}
    Tools = {}
    Sessions = {}
SYMMETRY Symmetry
INVARIANTS
    CorrectionsAreSound
PROPERTIES
    FirstCorrectionStands
