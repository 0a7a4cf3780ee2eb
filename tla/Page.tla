-------------------------------- MODULE Page --------------------------------
(***************************************************************************)
(* What the user sees: the panel's lanes, its header, what the worker puts *)
(* into a page, the Options page's surfaces and the brief's composer, each *)
(* on its own: a behaviour is one of the five, by which.  The variables of *)
(* the others stand idle in it.                                            *)
(***************************************************************************)
EXTENDS Naturals

CONSTANTS
    Urls, ItemOf,                                \* PanelLanes, Surfaces
    Terms, MaxGestures, MaxOut,                  \* PanelLanes
    Addresses, SurfaceOf,                        \* PanelHeader
    NoItem, CueIntents,                          \* Surfaces
    BuiltIn, Own, PatternOf,                     \* SurfaceList
    Tabs, Pages, ClosedTab, Passages, PageOf, MaxSources,   \* Composer
    MaxMoves, MaxClicks, MaxFaults               \* of each of them, by its which

\* An address is recognised as one of these.
ASSUME PageAssumption == SurfaceOf \in [Addresses -> {"item", "file", "home", "none"}]

VARIABLES
    which,                               \* the module at work
    tab, panel, moves, clicks, faults,   \* those of more than one module
    gestures, applied,                   \* PanelLanes
    screen, provider,                    \* PanelHeader
    nav, runs, lastCued, cue, open, opening, intent, quiet, crowded,  \* Surfaces
    granted, origins, ambient, chains, tasks, excused,                 \* SurfaceList
    at, passage, loads, list, whole, selected, asked, preview, starts  \* Composer

Idle == "idle"
ofLanes == <<gestures, applied>>
ofHeader == <<screen, provider>>
ofSurfaces == <<nav, runs, lastCued, cue, open, opening, intent, quiet, crowded>>
ofOptions == <<granted, origins, ambient, chains, tasks, excused>>
ofComposer == <<at, passage, loads, list, whole, selected, asked, preview, starts>>
vars == <<which, tab, panel, moves, clicks, faults,
          ofLanes, ofHeader, ofSurfaces, ofOptions, ofComposer>>

L == INSTANCE PanelLanes WITH
        MaxMoves <- MaxMoves["lanes"], MaxFaults <- MaxFaults["lanes"]
H == INSTANCE PanelHeader WITH
        Urls <- Addresses, MaxMoves <- MaxMoves["header"], MaxClicks <- MaxClicks["header"],
        MaxFaults <- MaxFaults["header"]
S == INSTANCE Surfaces WITH
        Intents <- CueIntents,
        MaxMoves <- MaxMoves["surfaces"], MaxClicks <- MaxClicks["surfaces"],
        MaxFaults <- MaxFaults["surfaces"]
O == INSTANCE SurfaceList WITH
        MaxClicks <- MaxClicks["options"], MaxFaults <- MaxFaults["options"]
C == INSTANCE Composer WITH
        NoPage <- ClosedTab,
        MaxMoves <- MaxMoves["composer"], MaxClicks <- MaxClicks["composer"],
        MaxFaults <- MaxFaults["composer"]

lanesIdle == gestures = Idle /\ applied = Idle
headerIdle == provider = Idle
surfacesIdle ==
    /\ nav = Idle /\ runs = Idle /\ lastCued = Idle /\ cue = Idle /\ open = Idle
    /\ opening = Idle /\ intent = Idle /\ quiet = Idle /\ crowded = Idle
optionsIdle ==
    /\ granted = Idle /\ origins = Idle /\ ambient = Idle /\ chains = Idle
    /\ tasks = Idle /\ excused = Idle
composerIdle ==
    /\ at = Idle /\ passage = Idle /\ loads = Idle /\ list = Idle /\ whole = Idle
    /\ selected = Idle /\ asked = Idle /\ preview = Idle /\ starts = Idle
noPage == tab = Idle /\ panel = Idle /\ lanesIdle /\ headerIdle /\ surfacesIdle
noTabOfOurs == optionsIdle /\ composerIdle

Init ==
    \/ which = "lanes" /\ L!Init /\ clicks = Idle /\ screen = Idle /\ headerIdle
       /\ surfacesIdle /\ noTabOfOurs
    \/ which = "header" /\ H!Init /\ lanesIdle /\ surfacesIdle /\ noTabOfOurs
    \/ which = "surfaces" /\ S!Init /\ panel = Idle /\ screen = Idle /\ lanesIdle
       /\ headerIdle /\ noTabOfOurs
    \/ which = "options" /\ O!Init /\ moves = Idle /\ noPage /\ composerIdle
    \/ which = "composer" /\ C!Init /\ screen = Idle /\ noPage /\ optionsIdle

Next ==
    /\ UNCHANGED which
    /\ \/ /\ which = "lanes" /\ L!Next
          /\ UNCHANGED <<clicks, ofHeader, ofSurfaces, ofOptions, ofComposer>>
       \/ /\ which = "header" /\ H!Next
          /\ UNCHANGED <<ofLanes, ofSurfaces, ofOptions, ofComposer>>
       \/ /\ which = "surfaces" /\ S!Next
          /\ UNCHANGED <<panel, ofLanes, ofHeader, ofOptions, ofComposer>>
       \/ /\ which = "options" /\ O!Next
          /\ UNCHANGED <<tab, panel, moves, provider, ofLanes, ofSurfaces, ofComposer>>
       \/ /\ which = "composer" /\ C!Next
          /\ UNCHANGED <<tab, panel, ofLanes, ofHeader, ofSurfaces, ofOptions>>

Spec == Init /\ [][Next]_vars

-----------------------------------------------------------------------------
\* No lane shows the answer about a page the panel has stopped describing.
AnswersThisPage == which = "lanes" => L!AnswersThisPage

\* A lane never has two runs in flight for the page shown, a closed panel no timer.
NoStrayWork == which = "lanes" => L!NoStrayWork

\* An intent is carried out once at most, and never after a later one.
LastIntentWins == which = "lanes" => L!LastIntentWins

\* One fetch of the page described is at work at a time.
OneFetchAtATime == which = "header" => H!OneFetchAtATime

\* A clip of the panel is of the page it describes.
ClipIsOfThePage == which = "header" => H!ClipIsOfThePage

\* A refused capture can be tried again.
RefusalLeavesOffer == which = "header" => H!RefusalLeavesOffer

\* A cue names the item of the page it is on, unless the tab slipped away.
CueIsOfThePage == which = "surfaces" => S!CueIsOfThePage

\* A cue that was sent away stays away, unless two decisions overlapped.
StaysQuiet == which = "surfaces" => S!StaysQuiet

\* A tab that was closed is forgotten.
ClosedTabIsForgotten == which = "surfaces" => S!ClosedTabIsForgotten

\* An intent reaches the panel, unless it was not alone.
IntentReachesPanel == which = "surfaces" => S!IntentReachesPanel

\* A cue is on only where there is page access, or is about to go off.
AmbientNeedsGrant == which = "options" => O!AmbientNeedsGrant

\* A brief is made of what its preview showed.
WhatLeavesWasShown == which = "composer" => C!WhatLeavesWasShown
=============================================================================
