SPECIFICATION WorkerSpec
CONSTANTS
    x1 = x1
    x2 = x2
    y1 = y1
    y2 = y2
    here = here
    e1 = e1
    e2 = e2
    e3 = e3
    junk = junk
    nothing = nothing
    Never = Never
    NoRun = NoRun
    Runs <- MCRuns
    Keys <- MCKeys
    Terms <- Y
    Owners <- MCOwners
    MaxStored = 2
    MaxTerms = 1
    NoSnapshot <- MCNoSnapshot
    Ops <- MCOps
    Raw <- MCRaw
    Values <- MCValues
    Guard <- MCGuard
    Edit <- MCEdit
    Briefs <- X
    Passages <- Y
    Pages <- MCPages
    PageOf <- MCPageOf
    MaxSources = 1
    MaxBriefs = 1
    MaxAtOnce = 1
    Repos <- X
    Services <- Y
    NoService = "none"
    MaxEvents = 3
    Views <- MCViews
    Items <- X
    Builds <- MCBuilds
    Floor <- MCFloor
    Term = "term"
    None = "none"
    MaxRuns = 1
    Origins <- MCOrigins
    Readers <- X
    TTL = 2
    Timeout = 1
    MaxTime = 4
    MaxChanges = 1
    MaxFaults = 1
SYMMETRY MCSymmetry
INVARIANTS
    SingleWriter
    UnloggedWasCutShort
    SavedIsNoted
    PassagesLeaveOnlySent
    ForeignRunNeedsRace
    TableIsCurrent
    LastWordStands
    ArmIsServed
    AnswerIsOfTheShownItem
    HealthIsRecent
    RepliesAreUnderstood
    NothingIsMadeUp
PROPERTIES
    ImplementsAtomicStore
    RunsEvictInOrder
CHECK_DEADLOCK FALSE
