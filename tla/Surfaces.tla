------------------------------ MODULE Surfaces ------------------------------
(***************************************************************************)
(* What the worker puts into a page, for one tab: the ambient cue, which   *)
(* appears by itself when Nimbus knows the item the tab shows, and the     *)
(* panel, which the hotkey, the cue or an intent of a menu or the palette  *)
(* brings up.  The scripts are injected one call at a time, and the tab    *)
(* may move, within its document or to a new one, or be closed, between    *)
(* any two of them.                                                        *)
(* panel.js toggles: injected where a panel is open it closes it.          *)
(***************************************************************************)
EXTENDS Naturals, FiniteSets

CONSTANTS
    Urls,       \* the addresses the tab may show
    ItemOf,     \* the item each is recognised as
    NoItem,     \* what an address is recognised as that shows none
    Intents,    \* the intents the user may hand to the panel
    MaxMoves,   \* bound: navigations of the tab
    MaxClicks,  \* bound: clicks on the cue and presses of the hotkey
    MaxFaults   \* bound: evictions of the worker and injections that are refused

VARIABLES
    tab,       \* the address shown, the number of the document, and whether it is gone
    nav,       \* ambientGeneration, 0 if there is none, and ambientTimers: is one awaited?
    runs,      \* the runs of the ambient decision under way
    lastCued,  \* lastCuedByTab
    cue,       \* the cue in the page
    open,      \* is the panel open?
    opening,   \* the injections of the panel asked for by the hotkey or the cue
    intent,    \* how far each intent has got
    moves, clicks, faults,  \* what has been used of the bounds
    quiet,     \* history: the item the user has sent the cue away for
    crowded    \* history: the intents that were not alone

page == <<tab, cue, open>>
worker == <<nav, runs, lastCued, opening, intent>>
bounds == <<moves, clicks, faults>>
history == <<quiet, crowded>>
vars == <<page, worker, bounds, history>>

NoCue == [item |-> NoItem, at |-> tab.url, late |-> FALSE, again |-> FALSE,
          ours |-> TRUE]

\* late: the tab has moved since the generation was looked at; again: two runs for
\* the item overlapped, the later one asking what was cued last when the earlier
\* was on its way to cue it.  A cue is "ours" until the worker that put it there is
\* evicted or has cued another item, which leaves this one up where a panel is open.
Run(url, gen) ==
    [url |-> url, item |-> ItemOf[url], gen |-> gen, pc |-> "asking",
     seen |-> 0, late |-> FALSE, again |-> FALSE]

Init ==
    /\ \E u \in Urls : tab = [url |-> u, doc |-> 0, gone |-> FALSE]
    /\ nav = [gen |-> 0, due |-> FALSE]
    /\ runs = {} /\ lastCued = NoItem
    /\ cue = NoCue /\ open = FALSE /\ opening = 0
    /\ intent = [i \in Intents |-> "none"]
    /\ moves = 0 /\ clicks = 0 /\ faults = 0
    /\ quiet = NoItem /\ crowded = {}

----------------------------------------------------------------------------
\* The tab.

\* The document stays, or a new one takes its place, with neither cue nor panel.
\* The debounce starts again; a run under way is told apart by its generation.
Navigate(u) ==
    /\ moves < MaxMoves /\ moves' = moves + 1
    /\ ~tab.gone /\ u # tab.url
    /\ nav' = [gen |-> nav.gen + 1, due |-> TRUE]
    /\ runs' = {[r EXCEPT !.late = @ \/ r.pc \in {"injecting", "calling"}] : r \in runs}
    /\ \/ tab' = [tab EXCEPT !.url = u] /\ UNCHANGED <<cue, open, crowded>>
       \/ /\ tab' = [tab EXCEPT !.url = u, !.doc = @ + 1]
          /\ cue' = [NoCue EXCEPT !.at = u] /\ open' = FALSE
          /\ crowded' = crowded \union {i \in Intents : intent[i] # "none"}
    /\ UNCHANGED <<lastCued, opening, intent, clicks, faults, quiet>>

\* The tab is closed, and what the worker kept for it is dropped; a run under way goes
\* on, and every script that is yet to go in is refused.
TabClosed ==
    /\ ~tab.gone /\ tab' = [tab EXCEPT !.gone = TRUE]
    /\ nav' = [gen |-> 0, due |-> FALSE] /\ lastCued' = NoItem
    /\ cue' = NoCue /\ open' = FALSE /\ opening' = 0
    /\ intent' = [i \in Intents |-> IF intent[i] \in {"missed", "injected"}
                                    THEN "dropped" ELSE intent[i]]
    /\ quiet' = NoItem
    /\ UNCHANGED <<runs, bounds, crowded>>

----------------------------------------------------------------------------
\* The ambient decision, one step for each answer it waits for.

Becomes(r, pc) == runs' = (runs \ {r}) \union {[r EXCEPT !.pc = pc]}
Ends(r) == runs' = runs \ {r}
Idle == UNCHANGED <<page, nav, lastCued, opening, intent, bounds, history>>

\* The debounce is over.  The tab may have moved on in the page, unannounced yet.
runAmbient ==
    /\ nav.due
    /\ nav' = [nav EXCEPT !.due = FALSE]
    /\ runs' = runs \union {Run(tab.url, nav.gen)}
    /\ UNCHANGED <<page, lastCued, opening, intent, bounds, history>>

\* A background tab, a host that is not enabled, a page that is not recognised, or
\* the item cued last: no cue.
Ask(r) ==
    /\ r.pc = "asking"
    /\ \/ Ends(r)
       \/ /\ r.item \notin {NoItem, lastCued}
          /\ LET Rivals == {o \in runs : o.item = r.item
                                         /\ o.pc \in {"injecting", "calling", "noting"}}
                 Asked == [r EXCEPT !.pc = "resolving", !.again = Rivals # {}]
             IN runs' = (runs \ ({r} \union Rivals))
                        \union {Asked} \union {[o EXCEPT !.again = TRUE] : o \in Rivals}
    /\ Idle

\* The gateway has the item, and the tab is still on it; or else no cue.
Resolve(r) ==
    /\ r.pc = "resolving"
    /\ (~tab.gone /\ ItemOf[tab.url] = r.item /\ Becomes(r, "deciding")) \/ Ends(r)
    /\ Idle

\* Bug: a run goes on when a newer navigation has taken its place.
MutantSuperseded(r) == FALSE

Superseded(r) == r.gen # nav.gen

Decide(r) ==
    /\ r.pc = "deciding"
    /\ IF Superseded(r) THEN Ends(r) ELSE Becomes(r, "injecting")
    /\ Idle

\* cue.js goes into the document that is there now.
InjectCue(r) ==
    /\ r.pc = "injecting"
    /\ \/ /\ ~tab.gone
          /\ runs' = (runs \ {r}) \union {[r EXCEPT !.pc = "calling", !.seen = tab.doc]}
          /\ UNCHANGED faults
       \/ tab.gone /\ Ends(r) /\ UNCHANGED faults
       \/ faults < MaxFaults /\ faults' = faults + 1 /\ Ends(r)
    /\ UNCHANGED <<page, nav, lastCued, opening, intent, moves, clicks, history>>

\* The cue is mounted where the panel is not open; it watches the address it was
\* mounted at.  In a new document, or a tab that is gone, there is nothing to call.
showCue(r) ==
    /\ r.pc = "calling"
    /\ \/ /\ ~tab.gone /\ r.seen = tab.doc
          /\ cue' = IF open THEN cue
                    ELSE [item |-> r.item, at |-> tab.url, late |-> r.late, again |-> r.again,
                          ours |-> TRUE]
          /\ Becomes(r, "noting")
       \/ /\ tab.gone \/ r.seen # tab.doc
          /\ UNCHANGED cue /\ (Ends(r) \/ Becomes(r, "noting"))
    /\ UNCHANGED <<tab, open, nav, lastCued, opening, intent, bounds, history>>

\* Bug: what was cued is not noted when the tab has moved on since.
MutantNoted(r) == IF r.gen = nav.gen THEN r.item ELSE lastCued

\* What was cued was cued, wherever the tab is by now; only if it is gone, and its
\* generation with it, is there nothing to note it for.
Noted(r) == IF nav.gen # 0 THEN r.item ELSE lastCued

Note(r) ==
    /\ r.pc = "noting"
    /\ lastCued' = Noted(r)
    /\ quiet' = IF quiet = r.item THEN quiet ELSE NoItem
    /\ cue' = [cue EXCEPT !.ours = @ /\ cue.item = r.item]
    /\ Ends(r)
    /\ UNCHANGED <<tab, open, nav, opening, intent, bounds, crowded>>

----------------------------------------------------------------------------
\* The cue in the page.

\* Twice a second: the page has moved on, or the panel is open.
CueTick ==
    /\ cue.item # NoItem
    /\ tab.url # cue.at \/ open
    /\ cue' = NoCue
    /\ UNCHANGED <<tab, open, worker, bounds, history>>

Click == clicks < MaxClicks /\ clicks' = clicks + 1

\* Both actions send the cue away, one asks for the panel.
CueClick ==
    /\ Click
    /\ cue.item # NoItem
    /\ cue' = NoCue
    /\ quiet' = IF cue.ours THEN cue.item ELSE quiet
    /\ opening' \in {opening, opening + 1}
    /\ UNCHANGED <<tab, open, nav, runs, lastCued, intent, moves, faults, crowded>>

----------------------------------------------------------------------------
\* The panel.

\* The others that are about to open or close the panel, or just did.
Underway(i) == {j \in Intents \ {i} : intent[j] \in {"missed", "injected"}}

showRelated ==
    /\ Click /\ ~tab.gone
    /\ opening' = opening + 1
    /\ UNCHANGED <<page, nav, runs, lastCued, intent, moves, faults, history>>

Escape ==
    /\ Click /\ open
    /\ open' = FALSE
    /\ crowded' = crowded \union {i \in Intents : intent[i] # "none"}
    /\ UNCHANGED <<tab, cue, worker, moves, faults, quiet>>

injectPanel ==
    /\ opening > 0 /\ opening' = opening - 1
    /\ open' = ~open
    /\ crowded' = crowded \union {i \in Intents : intent[i] \in {"missed", "injected"}}
    /\ UNCHANGED <<tab, cue, nav, runs, lastCued, intent, bounds, quiet>>

\* Bug: an intent is delivered by injecting the panel.
MutantHook(i) == IF intent[i] = "none" THEN FALSE ELSE open

\* callIntentHook: only a panel has the hook.
Hook(i) == open

deliverIntent(i) ==
    \/ /\ intent[i] = "none" /\ ~tab.gone
       /\ intent' = [intent EXCEPT ![i] = IF Hook(i) THEN "delivered" ELSE "missed"]
       /\ UNCHANGED <<page, nav, runs, lastCued, opening, bounds, history>>
    \/ /\ intent[i] = "missed"
       /\ open' = ~open
       /\ intent' = [intent EXCEPT ![i] = "injected"]
       /\ crowded' = crowded \union
                     (IF Underway(i) = {} THEN {} ELSE {i} \union Underway(i))
       /\ UNCHANGED <<tab, cue, nav, runs, lastCued, opening, bounds, quiet>>
    \/ /\ intent[i] = "injected"
       /\ intent' = [intent EXCEPT ![i] = IF Hook(i) THEN "delivered" ELSE "lost"]
       /\ UNCHANGED <<page, nav, runs, lastCued, opening, bounds, history>>

----------------------------------------------------------------------------

\* The worker's memory of the tab goes with it, on purpose; the page stays.
Evict ==
    /\ faults < MaxFaults /\ faults' = faults + 1
    /\ nav' = [gen |-> 0, due |-> FALSE] /\ runs' = {} /\ lastCued' = NoItem
    /\ opening' = 0
    /\ intent' = [i \in Intents |-> IF intent[i] \in {"missed", "injected"}
                                    THEN "dropped" ELSE intent[i]]
    /\ cue' = [cue EXCEPT !.ours = FALSE]
    /\ quiet' = NoItem
    /\ UNCHANGED <<tab, open, moves, clicks, crowded>>

Next ==
    \/ \E u \in Urls : Navigate(u)
    \/ TabClosed
    \/ runAmbient
    \/ \E r \in runs : \/ Ask(r) \/ Resolve(r) \/ Decide(r)
                       \/ InjectCue(r) \/ showCue(r) \/ Note(r)
    \/ CueTick \/ CueClick
    \/ showRelated \/ Escape \/ injectPanel
    \/ \E i \in Intents : deliverIntent(i)
    \/ Evict

Spec == Init /\ [][Next]_vars
----------------------------------------------------------------------------
\* The cue names the item of the page it is on.  Only while the scripts go in can
\* the tab slip away: the cue then watches the wrong address, and stays
\* (ambient.ts:87-95, service-worker.ts:1661-1677).
CueIsOfThePage ==
    cue.item # NoItem /\ cue.at = tab.url => cue.item = ItemOf[tab.url] \/ cue.late

\* The cue stays away for an item it was sent away for, until another was cued or
\* the worker was evicted, unless two runs for the item overlapped
\* (service-worker.ts:1651-1657, 1716-1724).
StaysQuiet == cue.item # NoItem /\ cue.item = quiet => cue.again

\* A tab that was closed leaves nothing behind in the worker, whichever run was on its
\* way to cue it (service-worker.ts:1716-1724, 1745-1753).
ClosedTabIsForgotten ==
    tab.gone => lastCued = NoItem /\ nav = [gen |-> 0, due |-> FALSE]

\* An intent brings the panel up and reaches it, open or not before, unless
\* another hand is on the panel at the time (scripting.ts:85-102).
IntentReachesPanel == \A i \in Intents : intent[i] = "lost" => i \in crowded
=============================================================================
