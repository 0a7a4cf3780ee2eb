SPECIFICATION StoresSpec
CONSTANTS
    t1 = t1
    t2 = t2
    r1 = r1
    r2 = r2
    e1 = e1
    e2 = e2
    e3 = e3
    junk = junk
    nothing = nothing
    NoToken = NoToken
    Tokens <- MCTokens
    Requests <- MCRequests
    MaxChain = 2
    Clippers = {clip}
    Poppers = {popup}
    MaxLength = 1
    MaxFaults = 1
    NoSnapshot <- MCNoSnapshot
    Ops <- MCOps
    Raw <- MCRaw
    Values <- MCValues
    Guard <- MCGuard
    Edit <- MCEdit
INVARIANTS
    LastGestureWins
    WakeupLostOnlyToRace
PROPERTIES
    NoMarkLost
    RejectionShows
    EveryCallSettles
    WorkIsFound
    IdleWakeupsStop
