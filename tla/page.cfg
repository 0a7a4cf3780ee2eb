SPECIFICATION Spec
CONSTANTS
    a = "a"
    b = "b"
    c = "c"
    d = "d"
    t1 = t1
    t2 = t2
    x1 = x1
    x2 = x2
    y = y
    i1 = i1
    i2 = i2
    Urls <- MCUrls
    ItemOf <- MCItemOf
    Terms <- MCTerms
    MaxGestures = 2
    MaxOut = 3
    Addresses <- MCAddresses
    SurfaceOf <- MCSurfaceOf
    NoItem = "none"
    CueIntents <- MCIntents
    BuiltIn <- MCBuiltIn
    Own <- MCOwn
    PatternOf <- MCPatternOf
    Tabs <- MCTabs
    Pages <- MCPages
    ClosedTab = "none"
    Passages <- MCTerms
    PageOf <- MCPageOf
    MaxSources = 2
    MaxMoves <- MCMaxMoves
    MaxClicks <- MCMaxClicks
    MaxFaults <- MCMaxFaults
SYMMETRY MCSymmetry
INVARIANTS
    AnswersThisPage
    NoStrayWork
    LastIntentWins
    OneFetchAtATime
    ClipIsOfThePage
    RefusalLeavesOffer
    CueIsOfThePage
    StaysQuiet
    IntentReachesPanel
    AmbientNeedsGrant
    WhatLeavesWasShown
CHECK_DEADLOCK FALSE
