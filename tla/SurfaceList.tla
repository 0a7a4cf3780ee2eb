---------------------------- MODULE SurfaceList ----------------------------
(***************************************************************************)
(* The Options page's list of surfaces: which hosts the user has added,    *)
(* which of them the browser lets the extension read, and on which the     *)
(* ambient cue is switched on.  Each is kept somewhere else, the origins   *)
(* and the cue in a storage key of their own, page access in the browser,  *)
(* and every gesture on a row is a handler that awaits one or two of them  *)
(* and then paints the list from what it has read of all three.            *)
(*                                                                         *)
(* Page access and the cue are a host's; two rows may be of one host.  A   *)
(* link of either chain is one step, which is what KeyedStore shows of     *)
(* such a chain.                                                           *)
(***************************************************************************)
EXTENDS Naturals, Sequences, FiniteSets

CONSTANTS
    BuiltIn,    \* the rows that are always there
    Own,        \* the rows the user may add
    PatternOf,  \* the host permission pattern of each row
    MaxClicks,  \* bound: gestures on the list
    MaxFaults   \* bound: reads and writes that reject, access withdrawn elsewhere, pages closed

VARIABLES
    granted,   \* the patterns the browser has granted page access to
    origins,   \* the rows stored under "origins"
    ambient,   \* the patterns stored under "ambient-hosts"
    chains,    \* originWrites and ambientWrites: the links on each
    tasks,     \* the handlers at work
    screen,    \* what the list shows: of each of its rows, is there access, is it ticked?
    clicks, faults,  \* what has been used of the bounds
    excused    \* history: the patterns whose cue is on without access, and may be

stores == <<granted, origins, ambient>>
vars == <<stores, chains, tasks, screen, clicks, faults, excused>>

Rows == BuiltIn \union Own
Patterns == {PatternOf[row] : row \in Rows}

Unread == [ambient |-> {}, access |-> {}]
Task(kind, row, pc) == [n |-> clicks, kind |-> kind, row |-> row, pc |-> pc, seen |-> Unread]
Loading == Task("load", "none", "refresh")

Init ==
    /\ clicks = 0 /\ faults = 0 /\ excused = {}
    /\ granted \in SUBSET Patterns /\ ambient \in SUBSET granted /\ origins = Own
    /\ chains = [origins |-> <<>>, ambient |-> <<>>]
    /\ tasks = {Loading} /\ screen = <<>>

Click == clicks < MaxClicks /\ clicks' = clicks + 1
Fault == faults < MaxFaults /\ faults' = faults + 1

----------------------------------------------------------------------------
\* What the user does, to the rows as they are painted.

addSurface(row) ==
    /\ Click
    /\ tasks' = tasks \union {Task("add", row, "linked")}
    /\ chains' = [chains EXCEPT !.origins = Append(@, [n |-> clicks, row |-> row, on |-> TRUE])]
    /\ UNCHANGED <<stores, screen, faults, excused>>

Remove(row) ==
    /\ Click /\ row \in DOMAIN screen \ BuiltIn
    /\ tasks' = tasks \union {Task("remove", row, "linked")}
    /\ chains' = [chains EXCEPT !.origins = Append(@, [n |-> clicks, row |-> row, on |-> FALSE])]
    /\ UNCHANGED <<stores, screen, faults, excused>>

\* The button of a row is Revoke where it was painted with access, and else Grant.
AskBrowser(row) ==
    /\ Click /\ row \in DOMAIN screen
    /\ tasks' = tasks \union {Task(IF screen[row].access THEN "revoke" ELSE "grant", row, "asked")}
    /\ UNCHANGED <<stores, chains, screen, faults, excused>>

\* A link of the ambient chain; late: made when the access was gone already.
AmbientLink(n, pattern, on) ==
    [n |-> n, pattern |-> pattern, on |-> on, late |-> pattern \notin granted]

\* Bug: a link is put before those that wait.
MutantMutateAmbient(link) == [chains EXCEPT !.ambient = <<link>> \o @]

mutateAmbient(link) == [chains EXCEPT !.ambient = Append(@, link)]

\* The checkbox of a row painted with access; the list is not painted again.
onAmbientChange(row) ==
    /\ Click /\ row \in DOMAIN screen /\ screen[row].access
    /\ screen' = [screen EXCEPT ![row].on = ~@]
    /\ chains' = mutateAmbient(AmbientLink(clicks, PatternOf[row], ~screen[row].on))
    /\ UNCHANGED <<stores, tasks, faults, excused>>

----------------------------------------------------------------------------
\* The browser answers, the handler goes on.

Becomes(t, pc) == tasks' = (tasks \ {t}) \union {[t EXCEPT !.pc = pc]}

\* Whatever the user says to the browser, the list is painted again.
GrantAnswered(t) ==
    /\ t.kind = "grant" /\ t.pc = "asked"
    /\ granted' \in {granted, granted \union {PatternOf[t.row]}}
    /\ Becomes(t, "refresh")
    /\ UNCHANGED <<origins, ambient, chains, screen, clicks, faults, excused>>

RevokeAnswered(t) ==
    /\ t.kind = "revoke" /\ t.pc = "asked"
    /\ \/ granted' = granted \ {PatternOf[t.row]} /\ Becomes(t, "removed")
       \/ UNCHANGED granted /\ Becomes(t, "refresh")
    /\ UNCHANGED <<origins, ambient, chains, screen, clicks, faults, excused>>

\* Page access is what the cue runs on, so the cue goes with it.
SwitchOff(t) ==
    /\ t.pc = "removed"
    /\ chains' = mutateAmbient(AmbientLink(t.n, PatternOf[t.row], FALSE))
    /\ Becomes(t, "linked")
    /\ UNCHANGED <<stores, screen, clicks, faults, excused>>

----------------------------------------------------------------------------
\* The chains.

\* The handler that waits for a link, if one does: a toggle's does not.
Waits(link) == {t \in tasks : t.n = link.n /\ t.pc = "linked"}
Released(link) ==
    (tasks \ Waits(link)) \union {[t EXCEPT !.pc = "refresh"] : t \in Waits(link)}

\* upsertOrigin, removeConfiguredOrigin.
setOrigins(link) ==
    origins' = IF link.on THEN origins \union {link.row} ELSE origins \ {link.row}

OriginLands ==
    /\ chains.origins # <<>>
    /\ setOrigins(Head(chains.origins))
    /\ tasks' = Released(Head(chains.origins))
    /\ chains' = [chains EXCEPT !.origins = Tail(@)]
    /\ UNCHANGED <<granted, ambient, screen, clicks, faults, excused>>

setAmbientHost(link) ==
    ambient' = IF link.on THEN ambient \union {link.pattern} ELSE ambient \ {link.pattern}

Excuses(link) ==
    excused' = IF ~link.on THEN excused \ {link.pattern}
               ELSE IF link.late THEN excused \union {link.pattern} ELSE excused

AmbientLands ==
    /\ chains.ambient # <<>>
    /\ setAmbientHost(Head(chains.ambient)) /\ Excuses(Head(chains.ambient))
    /\ tasks' = Released(Head(chains.ambient))
    /\ chains' = [chains EXCEPT !.ambient = Tail(@)]
    /\ UNCHANGED <<granted, origins, screen, clicks, faults>>

\* A write rejects: the next link runs all the same, the handler ends there and
\* nothing is painted.
LinkFails(chain) ==
    /\ Fault /\ chains[chain] # <<>>
    /\ LET link == Head(chains[chain])
       IN /\ tasks' = tasks \ Waits(link)
          /\ excused' = IF chain = "ambient" /\ ~link.on
                        THEN excused \union {link.pattern} ELSE excused
    /\ chains' = [chains EXCEPT ![chain] = Tail(@)]
    /\ UNCHANGED <<stores, screen, clicks>>

----------------------------------------------------------------------------
\* surfaceRows and refreshSurfaces: the cue is read first, then the access of the
\* built-in rows, then the origins with theirs; then the list is painted.

Reads(t, seen, pc) == tasks' = (tasks \ {t}) \union {[t EXCEPT !.pc = pc, !.seen = seen]}

ReadAmbient(t) ==
    /\ t.pc = "refresh"
    /\ Reads(t, [t.seen EXCEPT !.ambient = ambient], "built-in")
    /\ UNCHANGED <<stores, chains, screen, clicks, faults, excused>>

ReadBuiltIn(t) ==
    /\ t.pc = "built-in"
    /\ Reads(t, [t.seen EXCEPT !.access = {row \in BuiltIn : PatternOf[row] \in granted}], "own")
    /\ UNCHANGED <<stores, chains, screen, clicks, faults, excused>>

\* Ticked means "this is happening", never "this is stored".
Paint(t) ==
    /\ t.pc = "own"
    /\ LET Access == t.seen.access \union {row \in origins : PatternOf[row] \in granted}
       IN screen' = [row \in BuiltIn \union origins |->
                        [access |-> row \in Access,
                         on |-> row \in Access /\ PatternOf[row] \in t.seen.ambient]]
    /\ tasks' = tasks \ {t}
    /\ UNCHANGED <<stores, chains, clicks, faults, excused>>

\* A read rejects: nothing is painted.
RefreshFails(t) ==
    /\ Fault /\ t.pc \in {"refresh", "built-in", "own"}
    /\ tasks' = tasks \ {t}
    /\ UNCHANGED <<stores, chains, screen, clicks, excused>>

----------------------------------------------------------------------------
\* What happens around the page.

\* A link that waits is late when the access it was made with goes.
LateAfter(link, pattern) == [link EXCEPT !.late = @ \/ link.pattern = pattern]

\* Access is withdrawn in the browser's own settings, which tell the page nothing.
WithdrawnInSettings(pattern) ==
    /\ Fault /\ pattern \in granted
    /\ granted' = granted \ {pattern}
    /\ excused' = excused \union {pattern}
    /\ chains' = [chains EXCEPT !.ambient = [i \in DOMAIN @ |-> LateAfter(@[i], pattern)]]
    /\ UNCHANGED <<origins, ambient, tasks, screen, clicks>>

\* The page is closed and opened again: the chains and the handlers are gone, a
\* call on its way to the browser or to storage may still be served.
Reopen ==
    /\ Fault
    /\ LET Asked == {PatternOf[t.row] : t \in {u \in tasks : u.kind = "revoke" /\ u.pc = "asked"}}
       IN \E Gone \in SUBSET Asked : granted' = granted \ Gone
    /\ UNCHANGED ambient \/ (chains.ambient # <<>> /\ setAmbientHost(Head(chains.ambient)))
    /\ UNCHANGED origins \/ (chains.origins # <<>> /\ setOrigins(Head(chains.origins)))
    /\ excused' = excused \union (ambient' \ granted')
    /\ chains' = [origins |-> <<>>, ambient |-> <<>>]
    /\ tasks' = {Loading} /\ screen' = <<>>
    /\ UNCHANGED clicks

Next ==
    \/ \E row \in Own : addSurface(row) \/ Remove(row)
    \/ \E row \in Rows : AskBrowser(row) \/ onAmbientChange(row)
    \/ \E t \in tasks : \/ GrantAnswered(t) \/ RevokeAnswered(t) \/ SwitchOff(t)
                        \/ ReadAmbient(t) \/ ReadBuiltIn(t) \/ Paint(t) \/ RefreshFails(t)
    \/ OriginLands \/ AmbientLands
    \/ \E chain \in DOMAIN chains : LinkFails(chain)
    \/ \E pattern \in Patterns : WithdrawnInSettings(pattern)
    \/ Reopen

Spec == Init /\ [][Next]_vars
----------------------------------------------------------------------------
\* A cue is stored as on only where there is page access (options.ts:466-474, "a
\* stored "on" that cannot happen"), or a Revoke is about to switch it off.  Excused
\* is one ticked in a row not painted since its access went, one whose access was
\* withdrawn in the browser's settings, and one whose switching off was lost.
AmbientNeedsGrant ==
    \A pattern \in ambient \ granted :
        \/ pattern \in excused
        \/ \E t \in tasks : /\ t.kind = "revoke" /\ PatternOf[t.row] = pattern
                            /\ t.pc \in {"removed", "linked"}
=============================================================================
