\* Three clips of three pages with room for two, both triggers of the drain, no
\* retries: the cap is met, and a round has several entries to get through.
SPECIFICATION LiveSpec
CONSTANTS
    c1 = c1
    c2 = c2
    c3 = c3
    u1 = u1
    u2 = u2
    u3 = u3
    alarm = alarm
    start = start
    AnyUrl = AnyUrl
    Clips <- MCClips
    Urls <- MCUrls
    Url <- MCUrl
    MaxQueue = 2
    Drains <- MCDrains
    Retries = {}
INVARIANTS
    NoDoubleDrain
PROPERTIES
    EventuallyDrained
