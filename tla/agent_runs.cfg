SPECIFICATION FairSpec
CONSTANTS
    r1 = r1
    r2 = r2
    item = item
    NoRun = NoRun
    Runs <- MCRuns
    Keys <- MCKeys
    Terms = {}
    MaxStored = 2
    MaxTerms = 1
    MaxChanges = 1
    MaxChain = 1
    MaxFaults = 1
INVARIANTS
    BriefIsOurs
    LinksAreItsOwn
PROPERTIES
    NoSilentSpinner
CHECK_DEADLOCK FALSE
