\* Three clips: two of one page, one of another, with room for both pages or
\* for one; a drain and a retry at once.
SPECIFICATION MCSpec
CONSTANTS
    c1 = c1
    c2 = c2
    c3 = c3
    u1 = u1
    u2 = u2
    alarm = alarm
    retry = retry
    AnyUrl = AnyUrl
    Clips <- MCClips
    Urls <- MCUrls
    Url <- MCUrl
    MaxQueue = 2
    Drains <- MCDrains
    Retries <- MCRetries
SYMMETRY Symmetric
INVARIANTS
    QueueShapeAtCap
    LossNeedsRace
PROPERTIES
    NeverResurrected
