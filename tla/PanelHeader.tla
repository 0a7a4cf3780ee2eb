---------------------------- MODULE PanelHeader ----------------------------
(***************************************************************************)
(* The header of the in-page panel: what the gateway knows of the pinned   *)
(* page, the one fetch it may be asked for, and the capture of the page as *)
(* a last resort.  A fetch and a clip leave the machine, so each is shown  *)
(* to the user first (the clip unless the user switched that off).         *)
(*                                                                         *)
(* The user clicks what is on the screen, which is what was painted last   *)
(* and not always what the state has become.  As in PanelLanes a turn of   *)
(* the event loop is a function from panels to panels, and out holds the   *)
(* messages under way; the lanes, the notice and the intents are there.    *)
(***************************************************************************)
EXTENDS Naturals, FiniteSets

CONSTANTS
    Urls,       \* the addresses the tab may show
    SurfaceOf,  \* what each is recognised as: an item, a file, a home page, or nothing
    MaxMoves,   \* bound: navigations of the tab
    MaxClicks,  \* bound: clicks of the user
    MaxFaults   \* bound: messages that were not answered, or not readably

VARIABLES
    tab,        \* the address the tab shows
    panel,      \* the state in createPanel's closure, and its messages under way
    screen,     \* the controls that were painted last
    moves, clicks, faults,  \* what has been used of the bounds
    provider    \* history: the fetches a provider was asked for, and may still be

vars == <<tab, panel, screen, moves, clicks, faults, provider>>

NoPage == "no page"

\* fetchable matters for not-indexed, why for a fetch that did not work.
Header(kind) == [kind |-> kind, fetchable |-> FALSE, why |-> "none"]
NotIndexed(fetchable) == [Header("not-indexed") EXCEPT !.fetchable = fetchable]
NoState == Header("null")

\* id tells apart the messages of a kind that are under way.
Message(kind, p) ==
    [kind |-> kind, gen |-> p.generation, url |-> p.pinnedUrl,
     id |-> CHOOSE n \in 0 .. Cardinality(p.out) :
                ~ \E m \in p.out : m.kind = kind /\ m.gen = p.generation /\ m.id = n]

Fresh(url) ==
    [pinnedUrl |-> url, pinned |-> FALSE, header |-> Header("loading"), chosen |-> FALSE,
     generation |-> 0, navAway |-> FALSE, fetchSent |-> FALSE, fetchState |-> NoState, fetchPreview |-> FALSE,
     captureState |-> NoState, captureRefusal |-> FALSE, pendingCapture |-> NoPage,
     capturePreview |-> FALSE, capturing |-> FALSE, out |-> {}]

----------------------------------------------------------------------------
\* What is shown, and which controls it has.

shownHeader(p) ==
    IF p.captureState # NoState THEN p.captureState
    ELSE IF p.fetchState # NoState THEN p.fetchState
    ELSE IF p.chosen /\ p.header.kind = "ambiguous" THEN Header("chosen")
    ELSE p.header

\* The gateway has nothing left to try.
offersCapture(h) ==
    h.kind \in {"unrecognised", "fetch-blocked"} \/ (h.kind = "not-indexed" /\ ~h.fetchable)

renderHeader(h) ==
    {c \in {"fetch", "try again", "check again", "choose", "save a copy", "update this copy"} :
        CASE c = "fetch"            -> h.kind = "not-indexed" /\ h.fetchable
          [] c = "try again"        -> h.kind = "fetch-retry" /\ h.why = "rate-limited"
          [] c = "check again"      -> h.kind = "fetch-retry" /\ h.why = "still-working"
          [] c = "choose"           -> h.kind = "ambiguous"
          [] c = "save a copy"      -> offersCapture(h)
          [] c = "update this copy" -> h.kind = "captured"}

\* A preview stands in the header's place, the fetch's before the capture's.
paint(p) ==
    (IF p.fetchPreview THEN {"send fetch", "cancel fetch"}
     ELSE IF p.capturePreview /\ p.pendingCapture # NoPage
          THEN {"send capture", "cancel capture"}
     ELSE renderHeader(shownHeader(p)))
    \union (IF p.navAway THEN {"re-read"} ELSE {})

----------------------------------------------------------------------------
\* The answers the worker gives, as far as they tell headers apart.

\* A page that is not recognised is never asked about; a dashboard and a file
\* have no item, so a fetch of theirs is not offered.
handleResolve(url) ==
    CASE SurfaceOf[url] = "none" -> {"unrecognised"}
      [] SurfaceOf[url] = "home" -> {"error", "service"}
      [] SurfaceOf[url] = "file" -> {"error", "needs-scope", "file"}
      [] SurfaceOf[url] = "item" -> {"error", "needs-scope", "resolved", "captured",
                                     "ambiguous", "not-indexed", "fetchable"}

headerFrom(answer, fetchSent) ==
    IF answer \in {"not-indexed", "fetchable"} THEN NotIndexed(answer = "fetchable" /\ ~fetchSent)
    ELSE Header(answer)

FetchAnswers == {"indexed", "rate-limited", "not-configured", "unfetchable", "timeout",
                 "insufficient_scope", "unreachable"}

\* A fetch that was not answered in time may still be at work: it is not asked
\* for again but looked for.
fetchOutcomeHeader(answer) ==
    CASE answer = "timeout"      -> [Header("fetch-retry") EXCEPT !.why = "still-working"]
      [] answer = "rate-limited" -> [Header("fetch-retry") EXCEPT !.why = "rate-limited"]
      [] answer = "unreachable"  -> Header("error")
      [] answer \in {"not-configured", "unfetchable", "insufficient_scope"} -> Header("fetch-blocked")

----------------------------------------------------------------------------
\* Turns of the event loop.

Send(p, m) == [p EXCEPT !.out = @ \union {m}]
loadHeader(p) == Send(p, Message("resolve", p))

\* Everything of the page before goes, but not what is under way for it.
reread(p) ==
    loadHeader([Fresh(tab) EXCEPT !.generation = p.generation + 1, !.out = p.out])

\* A settled answer other than a miss ends what the fetch showed; one the user
\* can act on ends the line of a saved copy.
Settled(p, h) ==
    [p EXCEPT !.header = h, !.pinned = TRUE,
              !.fetchState = IF h.kind = "not-indexed" THEN @ ELSE NoState,
              !.captureState = IF h.kind \in {"captured", "resolved", "ambiguous", "needs-scope"}
                               THEN NoState ELSE @]

sendFetch(p) ==
    IF p.fetchSent \/ p.header.kind # "not-indexed" THEN p
    ELSE Send([p EXCEPT !.fetchSent = TRUE, !.fetchState = Header("fetching")],
              Message("fetch", p))

\* A new attempt drops the refusal of the one before.
sendCapture(p) ==
    IF p.capturing THEN p
    ELSE Send([p EXCEPT !.capturing = TRUE, !.captureRefusal = FALSE,
                        !.captureState = Header("error")],
              Message("capture", p))

sendCapturedClip(p) ==
    IF p.pendingCapture = NoPage THEN p
    ELSE Send([p EXCEPT !.captureState = Header("error")],
              [Message("clip", p) EXCEPT !.url = p.pendingCapture])

\* Bug: a refusal is shown as the states of a capture under way are.
MutantRefused(p) ==
    [p EXCEPT !.captureState = Header("error"), !.captureRefusal = TRUE, !.capturing = FALSE]

\* A refusal is a line below the header, which stays.
Refused(p) ==
    [p EXCEPT !.captureState = NoState, !.captureRefusal = TRUE, !.capturing = FALSE]

----------------------------------------------------------------------------

Init ==
    /\ tab \in Urls
    /\ panel = loadHeader(Fresh(tab))
    /\ screen = paint(panel)
    /\ moves = 0 /\ clicks = 0 /\ faults = 0
    /\ provider = {}

Navigate(u) ==
    /\ moves < MaxMoves /\ moves' = moves + 1
    /\ u # tab /\ tab' = u
    /\ UNCHANGED <<panel, screen, clicks, faults, provider>>

\* The watcher finds the tab on another page, or back, once there is an answer to
\* compare with.
checkNavigation ==
    /\ panel.pinned
    /\ panel.navAway # (tab # panel.pinnedUrl)
    /\ panel' = [panel EXCEPT !.navAway = ~@]
    /\ screen' = paint(panel')
    /\ UNCHANGED <<tab, moves, clicks, faults, provider>>

\* A turn of the lanes or of Related repaints.
Repaint ==
    /\ screen' = paint(panel)
    /\ UNCHANGED <<tab, panel, moves, clicks, faults, provider>>

----------------------------------------------------------------------------
\* Answers.

Take(m) == [panel EXCEPT !.out = @ \ {m}]
Outdated(m) == m.gen # panel.generation
Fault == faults < MaxFaults /\ faults' = faults + 1

Becomes(p) == panel' = p /\ screen' = paint(p)
Unseen(p) == panel' = p /\ UNCHANGED screen

Dropped(m) == Outdated(m) /\ Unseen(Take(m)) /\ UNCHANGED faults

\* An answer, a refusal to be read, or none.
Resolved(m) ==
    /\ m.kind = "resolve"
    /\ \/ Dropped(m)
       \/ /\ ~Outdated(m)
          /\ \/ /\ \E answer \in handleResolve(m.url) :
                      Becomes(Settled(Take(m), headerFrom(answer, panel.fetchSent)))
                /\ UNCHANGED faults
             \/ Fault /\ Becomes([Take(m) EXCEPT !.header = Header("error"),
                                                 !.fetchState = NoState])
    /\ UNCHANGED <<tab, moves, clicks, provider>>

\* Bug: a fetch that was not answered in time may be sent again as well.
MutantMayFetchAgain(answer) == answer \in {"rate-limited", "timeout"}

\* Nothing has left: the provider was not asked.
MayFetchAgain(answer) == answer = "rate-limited"

\* The provider may still be at work for the fetch that it was asked for.
Fetched(m) ==
    /\ m.kind = "fetch"
    /\ \E answer \in FetchAnswers, lost \in BOOLEAN :
          /\ IF lost THEN answer = "unreachable" /\ Fault ELSE UNCHANGED faults
          /\ IF Outdated(m) THEN Unseen(Take(m))
             ELSE IF answer = "indexed"
                  THEN Unseen(loadHeader([Take(m) EXCEPT !.fetchState = NoState]))
                  ELSE Becomes([Take(m) EXCEPT
                           !.fetchState = fetchOutcomeHeader(answer),
                           !.fetchSent = IF MayFetchAgain(answer) THEN FALSE ELSE @])
          /\ provider' = IF answer \in {"timeout", "unreachable"}
                         THEN provider \union {m} ELSE provider
    /\ UNCHANGED <<tab, moves, clicks>>

\* The worker injects only while the tab is on the page.
CaptureBegins(m) ==
    /\ m.kind = "capture"
    /\ \/ Dropped(m)
       \/ /\ tab = m.url
          /\ Unseen(Send(Take(m), [m EXCEPT !.kind = "capturing"])) /\ UNCHANGED faults
       \/ ~Outdated(m) /\ Becomes(Refused(Take(m))) /\ UNCHANGED faults
       \/ ~Outdated(m) /\ Fault /\ Becomes(Refused(Take(m)))
    /\ UNCHANGED <<tab, moves, clicks, provider>>

\* Bug: the address is looked at before the capture only.
MutantUrlChanged(expected, captured) == FALSE

\* The capture tells the address it was taken at.
UrlChanged(expected, captured) == captured # expected

\* The page is read as it is by then.  With previews on it is shown, with
\* previews off the clip is sent at once.
CaptureEnds(m) ==
    /\ m.kind = "capturing"
    /\ \/ Dropped(m)
       \/ /\ ~Outdated(m)
          /\ \/ /\ ~UrlChanged(m.url, tab)
                /\ LET p == [Take(m) EXCEPT !.pendingCapture = tab, !.captureState = NoState]
                   IN  \/ Becomes([p EXCEPT !.capturePreview = TRUE])
                      \/ Becomes(sendCapturedClip(p))
                /\ UNCHANGED faults
             \/ Becomes(Refused(Take(m))) /\ UNCHANGED faults
             \/ Fault /\ Becomes(Refused(Take(m)))
    /\ UNCHANGED <<tab, moves, clicks, provider>>

\* Saved: the line that says so, and the header is asked for again.  Queued: the
\* clip was not dropped, so this is no refusal.
Clipped(m) ==
    /\ m.kind = "clip"
    /\ \/ Dropped(m)
       \/ /\ ~Outdated(m)
          /\ \/ /\ Becomes(loadHeader([Take(m) EXCEPT
                       !.captureState = Header("error"), !.pendingCapture = NoPage,
                       !.capturePreview = FALSE, !.capturing = FALSE]))
                /\ UNCHANGED faults
             \/ /\ Becomes([Take(m) EXCEPT !.captureState = Header("error"),
                                           !.capturing = FALSE])
                /\ UNCHANGED faults
             \/ Becomes(Refused(Take(m))) /\ UNCHANGED faults
             \/ Fault /\ Becomes(Refused(Take(m)))
    /\ UNCHANGED <<tab, moves, clicks, provider>>

----------------------------------------------------------------------------
\* Clicks.

Click(control) ==
    /\ control \in screen
    /\ clicks < MaxClicks /\ clicks' = clicks + 1
    /\ UNCHANGED <<tab, moves, faults, provider>>

\* The initial fetch and the retry of one that was rate-limited open the preview.
handleFetchAction ==
    \/ /\ Click("fetch") \/ Click("try again")
       /\ IF panel.header.kind = "not-indexed" THEN Becomes([panel EXCEPT !.fetchPreview = TRUE])
          ELSE Unseen(panel)
    \/ Click("check again") /\ Unseen(loadHeader(panel))

\* What sendFetch turns away is not painted either.
confirmFetch ==
    /\ Click("send fetch")
    /\ LET p == [panel EXCEPT !.fetchPreview = FALSE]
       IN  IF sendFetch(p) = p THEN Unseen(p) ELSE Becomes(sendFetch(p))

cancelFetchPreview == Click("cancel fetch") /\ Becomes([panel EXCEPT !.fetchPreview = FALSE])

runCapture ==
    /\ Click("save a copy") \/ Click("update this copy")
    /\ IF panel.capturing THEN Unseen(panel) ELSE Becomes(sendCapture(panel))

confirmCapture ==
    Click("send capture") /\ Becomes(sendCapturedClip([panel EXCEPT !.capturePreview = FALSE]))

cancelCapturePreview ==
    /\ Click("cancel capture")
    /\ Becomes([panel EXCEPT !.pendingCapture = NoPage, !.capturePreview = FALSE,
                             !.capturing = FALSE])

Choose == Click("choose") /\ Becomes([panel EXCEPT !.chosen = TRUE])
Reread == Click("re-read") /\ Becomes(reread(panel))

Next ==
    \/ \E u \in Urls : Navigate(u)
    \/ checkNavigation \/ Repaint
    \/ \E m \in panel.out : Resolved(m) \/ Fetched(m) \/ Clipped(m)
                             \/ CaptureBegins(m) \/ CaptureEnds(m)
    \/ handleFetchAction \/ confirmFetch \/ cancelFetchPreview
    \/ runCapture \/ confirmCapture \/ cancelCapturePreview
    \/ Choose \/ Reread

Spec == Init /\ [][Next]_vars
----------------------------------------------------------------------------
Now(m) == m.gen = panel.generation

\* One provider request at a time for the page described: none is sent while an
\* earlier one may still be at work (panel-in-page.ts:559-578).
OneFetchAtATime ==
    Cardinality({m \in panel.out : m.kind = "fetch" /\ Now(m)})
        + Cardinality({m \in provider : Now(m)}) <= 1

\* A clip of the panel is a copy of the page it describes, also when the tab moves
\* on while it is captured, shown or sent (capture-tab.ts:48-61).
ClipIsOfThePage ==
    \A m \in panel.out : m.kind = "clip" /\ Now(m) => m.url = panel.pinnedUrl

\* A refused capture can be tried again: while the page is one to be captured,
\* nothing takes the offer off the screen (panel-in-page.ts:630-651).
RefusalLeavesOffer ==
    /\ panel.captureRefusal
    /\ offersCapture(panel.header) \/ offersCapture(panel.fetchState)
       \/ panel.header.kind = "captured"
    => screen \intersect {"save a copy", "update this copy"} # {}

\* The button is there only if it works: a fetch was not sent (panel-in-page.ts:568-578).
FetchButtonWorks == screen \intersect {"fetch", "try again"} # {} => ~panel.fetchSent
=============================================================================
