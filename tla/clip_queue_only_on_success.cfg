\* Two clips of one page, a drain, no retries: what "only on success" misses.
SPECIFICATION MCSpec
CONSTANTS
    c1 = c1
    c2 = c2
    c3 = c3
    u1 = u1
    u2 = u2
    alarm = alarm
    retry = retry
    AnyUrl = AnyUrl
    Clips <- MCClips
    Urls <- MCUrls
    Url <- MCUrl
    MaxQueue = 2
    Drains <- MCDrains
    Retries = {}
INVARIANTS
    LeavesOnlyOnSuccess
