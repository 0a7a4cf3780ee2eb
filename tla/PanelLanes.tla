----------------------------- MODULE PanelLanes -----------------------------
(***************************************************************************)
(* The in-page panel: which page it is pinned to, its lanes and their      *)
(* polls, the Related list, the notice that the tab has moved on, and the  *)
(* intents the worker hands it.  The panel runs in the page; it knows the  *)
(* world by the answers to its messages, which come in any order, or never.*)
(*                                                                         *)
(* What one turn of the page's event loop does to the panel is a function  *)
(* from panels to panels; a turn that sends a message leaves it in out,    *)
(* and the turn its answer causes takes it from there.  The worker's side  *)
(* of a run is AgentRuns; here it may give any answer about what it was    *)
(* asked.  The header's fetch and capture flows are PanelHeader.           *)
(***************************************************************************)
EXTENDS Naturals, FiniteSets, Sequences

CONSTANTS
    Urls,         \* the addresses the tab may show
    ItemOf,       \* the item each address is recognised as
    Terms,        \* the terms a selection may normalise to
    MaxMoves,     \* bound: navigations of the tab
    MaxGestures,  \* bound: clicks and intents of the user
    MaxOut,       \* bound: messages under way
    MaxFaults     \* bound: messages that fail or come back unreadable

VARIABLES
    tab,       \* the address the tab shows
    panel,     \* the state in createPanel's closure, and its messages under way
    moves,     \* the navigations so far
    gestures,  \* the gestures so far; a gesture's number is its name
    faults,    \* the faults so far
    applied    \* history: the intents that were carried out, one after the other

vars == <<tab, panel, moves, gestures, faults, applied>>

\* A page lane asks about the page; the glossary lane asks about a term.
Lanes == {"impact", "glossary"}
LaneRule(lane) == IF lane = "glossary" THEN "term" ELSE "page"

Unknown == "unknown"
Items == {ItemOf[u] : u \in Urls}
TermStates == Terms \union {"none", "refused"}

\* What an answer is about: a page, and for a term lane a term.
Subjects == [page : Urls, term : TermStates]
NoSubject == [page |-> Unknown, term |-> "none"]

\* A selection intent carries its term, refused when it is empty or too long; a lane
\* intent goes by the name of its lane; a focus intent only moves the focus (deploy,
\* related, candidates).
Intents == [kind : {"define", "related"}, term : TermStates \ {"none"}, id : 1 .. MaxGestures]
           \union [kind : Lanes \union {"focus"}, term : {"none"}, id : 1 .. MaxGestures]
NoIntent == [kind |-> "none", term |-> "none", id |-> 0]

Message(kind, p) == [kind |-> kind, gen |-> p.generation, seq |-> 0, lane |-> "impact",
                     subject |-> [NoSubject EXCEPT !.page = p.pinnedUrl], intent |-> NoIntent,
                     then |-> FALSE, previous |-> p.lastCheckedUrl]

Fresh(url) ==
    [pinnedUrl |-> url, pinnedItem |-> Unknown, header |-> "loading", chosen |-> FALSE,
     offered |-> Lanes, lastCheckedUrl |-> url, navAway |-> FALSE, recogniseSeq |-> 0,
     generation |-> 0, term |-> "none", relatedSelection |-> "none",
     relatedShown |-> "nothing", laneState |-> [l \in Lanes |-> "collapsed"],
     answer |-> [l \in Lanes |-> NoSubject], laneOpen |-> [l \in Lanes |-> FALSE],
     laneInFlight |-> {}, lanePollTimers |-> {}, pendingIntent |-> NoIntent,
     intentSeq |-> 0, closed |-> FALSE, out |-> {}]

----------------------------------------------------------------------------
\* Which lanes show, and what they ask.

\* A resolved item, a dashboard's service, a file the probe found, or a
\* candidate the user has picked; not an ambiguous answer as such.
PageSubject(p) == p.header = "subject" \/ (p.header = "ambiguous" /\ p.chosen)

\* A dashboard whose connector cannot serve lanes offers none.
visibleLanes(p) ==
    {l \in p.offered : IF LaneRule(l) = "term" THEN p.term # "none" ELSE PageSubject(p)}

laneCanRun(l, p) == LaneRule(l) = "term" => p.term \in Terms

laneRequestInput(l, p) ==
    [page |-> p.pinnedUrl, term |-> IF LaneRule(l) = "term" THEN p.term ELSE "none"]

----------------------------------------------------------------------------
\* Turns of the event loop, from panel to panel.

Send(p, m) == [p EXCEPT !.out = @ \union {m}]

loadHeader(p, thenRelated) == Send(p, [Message("resolve", p) EXCEPT !.then = thenRelated])

\* The request is about the item of the header as it is now; only the latest
\* selection it was asked about is kept.
loadRelated(p) ==
    Send(p, [Message("related", p) EXCEPT !.subject.term = p.relatedSelection])

\* Bug: whether the panel has moved on is not asked.
MutantIsStale(p, m) == p.closed /\ m.kind \in {"run", "state", "check", "intent"}

\* An answer to a panel that was closed, or has moved on, changes nothing.
IsStale(p, m) == m.gen # p.generation \/ (p.closed /\ m.kind \in {"run", "state", "check", "intent"})

\* Bug: a lane in flight is asked again.
MutantSendAgentRun(p, l) ==
    IF ~laneCanRun(l, p) THEN p
    ELSE Send([p EXCEPT !.laneInFlight = @ \union {l}, !.laneState[l] = "running"],
              [Message("run", p) EXCEPT !.lane = l, !.subject = laneRequestInput(l, p),
                  !.seq = Cardinality({m \in p.out : m.kind = "run" /\ m.lane = l})])

\* A lane in flight is not asked again, nor one that lacks what it needs.
sendAgentRun(p, l) ==
    IF l \in p.laneInFlight \/ ~laneCanRun(l, p) THEN p
    ELSE Send([p EXCEPT !.laneInFlight = @ \union {l}, !.laneState[l] = "running"],
              [Message("run", p) EXCEPT !.lane = l, !.subject = laneRequestInput(l, p),
                  !.seq = Cardinality({m \in p.out : m.kind = "run" /\ m.lane = l})])

\* What a lane was told, and for a running one the timer of the next poll.
Told(p, l, state, subject) ==
    [p EXCEPT !.laneState[l] = state,
              !.answer[l] = IF state = "done" THEN subject ELSE NoSubject,
              !.lanePollTimers = IF state = "running" THEN @ \union {l} ELSE @]

expandLane(p, l) == [p EXCEPT !.laneOpen[l] = TRUE]

applySelection(p, intent) ==
    LET q == [p EXCEPT !.term = intent.term]
    IN  IF intent.kind = "define" THEN sendAgentRun(expandLane(q, "glossary"), "glossary")
        ELSE loadRelated([q EXCEPT !.relatedSelection = intent.term])

\* Only a lane that shows, and only when it has nothing to show.
applyLaneIntent(p, l) ==
    IF l \notin visibleLanes(p) THEN p
    ELSE LET q == expandLane(p, l)
         IN  IF q.laneState[l] \in {"collapsed", "failed"} THEN sendAgentRun(q, l) ELSE q

applyOnPinnedItem(p, intent) ==
    IF intent.kind \in {"define", "related"}
    THEN applySelection([p EXCEPT !.pendingIntent = NoIntent], intent)
    ELSE IF p.header = "loading" THEN [p EXCEPT !.pendingIntent = intent]
    ELSE IF intent.kind \in Lanes THEN applyLaneIntent(p, intent.kind) ELSE p

\* Is the intent carried out by applyOnPinnedItem, or does it wait?
CarriesOut(p, intent) == intent.kind \in {"define", "related"} \/ p.header # "loading"

\* On the address the panel is pinned to, at once; on another one the tab's item
\* is asked for first.
applyIntent(p, intent) ==
    LET q == [p EXCEPT !.intentSeq = @ + 1]
    IN  IF tab = p.pinnedUrl THEN applyOnPinnedItem(q, intent)
        ELSE Send([q EXCEPT !.pendingIntent = NoIntent],
                  [Message("intent", q) EXCEPT !.seq = q.intentSeq, !.intent = intent,
                      !.subject.page = tab])

\* Everything that belongs to the page before goes; what waits for a header stays.
reread(p) ==
    loadHeader([Fresh(tab) EXCEPT !.generation = p.generation + 1, !.out = p.out,
                   !.recogniseSeq = p.recogniseSeq, !.intentSeq = p.intentSeq,
                   !.pendingIntent = p.pendingIntent],
               TRUE)

\* The last step of loadHeader: the intent that waited for the header.
Parked(p) == p.pendingIntent # NoIntent /\ ~p.closed

\* Bug: the intent is left where it waited.
MutantReleaseParked(p) == IF Parked(p) THEN applyIntent(p, p.pendingIntent) ELSE p

releaseParked(p) ==
    IF Parked(p) THEN applyIntent([p EXCEPT !.pendingIntent = NoIntent], p.pendingIntent) ELSE p

----------------------------------------------------------------------------

TypeOK ==
    /\ tab \in Urls /\ moves \in 0 .. MaxMoves /\ gestures \in 0 .. MaxGestures
    /\ faults \in 0 .. MaxFaults /\ applied \in Seq(1 .. MaxGestures)
    /\ DOMAIN panel = DOMAIN Fresh(tab)
    /\ panel.pinnedUrl \in Urls /\ panel.lastCheckedUrl \in Urls
    /\ panel.pinnedItem \in Items \union {Unknown}
    /\ panel.header \in {"loading", "subject", "ambiguous", "nothing"}
    /\ panel.term \in TermStates /\ panel.relatedSelection \in TermStates
    /\ panel.laneState \in [Lanes -> {"collapsed", "running", "done", "failed"}]
    /\ panel.answer \in [Lanes -> Subjects \union {NoSubject}]
    /\ panel.laneInFlight \subseteq Lanes /\ panel.lanePollTimers \subseteq Lanes
    /\ panel.pendingIntent \in Intents \union {NoIntent}

\* The panel mounts; a selection live on the page is taken in, unasked.
Init ==
    /\ tab \in Urls
    /\ \E t \in TermStates :
          panel = loadHeader([Fresh(tab) EXCEPT !.term = t], TRUE)
    /\ moves = 0 /\ gestures = 0 /\ faults = 0 /\ applied = <<>>

Navigate(u) ==
    /\ moves < MaxMoves /\ moves' = moves + 1
    /\ u # tab /\ tab' = u
    /\ UNCHANGED <<panel, gestures, faults, applied>>

----------------------------------------------------------------------------
\* Answers.  A fault is a message that was not answered, or not readably.

Take(m) == [panel EXCEPT !.out = @ \ {m}]

Fault == faults < MaxFaults /\ faults' = faults + 1

\* The header lands, then the intent that waited for it is released; on mount and
\* on a re-read, Related is loaded when loadHeader is over, be it outdated or not.
Resolved(m) ==
    LET related(p) == IF m.then THEN loadRelated(p) ELSE p
        released(p) == /\ panel' = related(releaseParked(p))
                       /\ applied' = IF Parked(p) /\ tab = p.pinnedUrl
                                     THEN Append(applied, p.pendingIntent.id) ELSE applied
    IN  /\ m.kind = "resolve"
        /\ IF IsStale(panel, m) THEN /\ panel' = related(Take(m))
                                     /\ UNCHANGED <<faults, applied>>
           ELSE \/ \E header \in {"subject", "ambiguous", "nothing"}, offered \in {Lanes, {}} :
                      /\ released([Take(m) EXCEPT
                             !.header = header, !.offered = offered,
                             !.pinnedItem = ItemOf[m.subject.page]])
                      /\ UNCHANGED faults
                \/ Fault /\ released([Take(m) EXCEPT !.header = "nothing"])
        /\ UNCHANGED <<tab, moves, gestures>>

RelatedAnswered(m) ==
    /\ m.kind = "related"
    /\ panel' = IF IsStale(panel, m) THEN Take(m)
                ELSE [Take(m) EXCEPT !.relatedShown = m.subject.term]
    /\ UNCHANGED <<tab, moves, gestures, faults, applied>>

RunAnswered(m) ==
    LET freed == [Take(m) EXCEPT !.laneInFlight = @ \ {m.lane}]
    IN  /\ m.kind = "run"
        /\ IF IsStale(panel, m) THEN panel' = Take(m) /\ UNCHANGED faults
           ELSE \/ /\ \E state \in {"running", "done", "failed"} :
                         panel' = Told(freed, m.lane, state, m.subject)
                   /\ UNCHANGED faults
                \/ Fault /\ panel' = Told(freed, m.lane, "failed", m.subject)
        /\ UNCHANGED <<tab, moves, gestures, applied>>

\* A poll's answer; an open lane whose run is gone is stale, not collapsed.  No
\* answer ends the polling.
StateAnswered(m) ==
    /\ m.kind = "state"
    /\ IF IsStale(panel, m) THEN panel' = Take(m) /\ UNCHANGED faults
       ELSE \/ /\ \E state \in {"running", "done", "failed", "collapsed"} :
                     panel' = Told(Take(m), m.lane,
                                   IF state = "collapsed" /\ panel.laneOpen[m.lane]
                                   THEN "failed" ELSE state, m.subject)
               /\ UNCHANGED faults
            \/ Fault /\ panel' = Take(m)
    /\ UNCHANGED <<tab, moves, gestures, applied>>

\* A check without a conclusion gives the address back to be checked again.
CheckAnswered(m) ==
    /\ m.kind = "check"
    /\ IF IsStale(panel, m) \/ m.seq # panel.recogniseSeq
       THEN panel' = Take(m) /\ UNCHANGED faults
       ELSE \/ /\ panel' = [Take(m) EXCEPT
                             !.navAway = ItemOf[m.subject.page] # panel.pinnedItem]
               /\ UNCHANGED faults
            \/ /\ Fault
               /\ panel' = [Take(m) EXCEPT !.lastCheckedUrl = m.previous]
    /\ UNCHANGED <<tab, moves, gestures, applied>>

\* Is the tab on the pinned item after all?  If not, or not known to be, the
\* intent waits for the header of the page the tab shows.
IntentAnswered(m) ==
    /\ m.kind = "intent"
    /\ IF IsStale(panel, m) \/ m.seq # panel.intentSeq
       THEN panel' = Take(m) /\ UNCHANGED <<faults, applied>>
       ELSE \/ /\ ItemOf[m.subject.page] = panel.pinnedItem
               /\ panel' = applyOnPinnedItem(Take(m), m.intent)
               /\ applied' = IF CarriesOut(panel, m.intent) THEN Append(applied, m.intent.id)
                             ELSE applied
               /\ UNCHANGED faults
            \/ /\ IF ItemOf[m.subject.page] = panel.pinnedItem THEN Fault ELSE UNCHANGED faults
               /\ panel' = reread([Take(m) EXCEPT !.pendingIntent = m.intent])
               /\ UNCHANGED applied
    /\ UNCHANGED <<tab, moves, gestures>>

----------------------------------------------------------------------------
\* Timers.

pollLane(l) ==
    /\ l \in panel.lanePollTimers
    /\ panel' = Send([panel EXCEPT !.lanePollTimers = @ \ {l}],
                     [Message("state", panel) EXCEPT !.lane = l,
                         !.subject = laneRequestInput(l, panel)])
    /\ UNCHANGED <<tab, moves, gestures, faults, applied>>

\* The interval, a popstate, or the tab shown again: an address not looked at is
\* looked up, once there is an item to compare it with.
checkNavigation ==
    /\ ~panel.closed
    /\ tab # panel.lastCheckedUrl /\ panel.pinnedItem # Unknown
    /\ LET q == [panel EXCEPT !.recogniseSeq = @ + 1, !.lastCheckedUrl = tab]
       IN  panel' = Send(q, [Message("check", q) EXCEPT !.seq = q.recogniseSeq,
                                !.subject.page = tab, !.previous = panel.lastCheckedUrl])
    /\ UNCHANGED <<tab, moves, gestures, faults, applied>>

----------------------------------------------------------------------------
\* The user.

Gesture == gestures < MaxGestures /\ gestures' = gestures + 1 /\ ~panel.closed

\* A lane is opened or closed; only one that was never asked is asked.
onLaneToggle(l) ==
    /\ Gesture /\ l \in visibleLanes(panel)
    /\ LET q == [panel EXCEPT !.laneOpen[l] = ~@]
       IN  panel' = IF q.laneOpen[l] /\ q.laneState[l] = "collapsed" THEN sendAgentRun(q, l)
                    ELSE q
    /\ UNCHANGED <<tab, moves, faults, applied>>

\* The button of a failed lane.
Rerun(l) ==
    /\ Gesture /\ l \in visibleLanes(panel)
    /\ panel.laneState[l] = "failed" /\ laneCanRun(l, panel)
    /\ panel' = sendAgentRun(panel, l)
    /\ UNCHANGED <<tab, moves, faults, applied>>

Pick ==
    /\ Gesture /\ panel.header = "ambiguous" /\ ~panel.chosen
    /\ panel' = loadRelated([panel EXCEPT !.chosen = TRUE])
    /\ UNCHANGED <<tab, moves, faults, applied>>

RereadClick ==
    /\ Gesture /\ panel.navAway
    /\ panel' = reread(panel)
    /\ UNCHANGED <<tab, moves, faults, applied>>

\* A menu entry or a palette row.
Intent(kind, t) ==
    /\ Gesture
    /\ LET intent == [kind |-> kind, term |-> t, id |-> gestures']
       IN  /\ intent \in Intents
           /\ panel' = applyIntent(panel, intent)
           /\ applied' = IF tab = panel.pinnedUrl /\ CarriesOut(panel, intent)
                         THEN Append(applied, intent.id) ELSE applied
    /\ UNCHANGED <<tab, moves, faults>>

stopAgentPolls ==
    /\ Gesture
    /\ panel' = [panel EXCEPT !.closed = TRUE, !.pendingIntent = NoIntent,
                              !.lanePollTimers = {}]
    /\ UNCHANGED <<tab, moves, faults, applied>>

Answer(m) ==
    \/ Resolved(m) \/ RelatedAnswered(m) \/ RunAnswered(m) \/ StateAnswered(m)
    \/ CheckAnswered(m) \/ IntentAnswered(m)

Next ==
    /\ \/ \E u \in Urls : Navigate(u)
       \/ \E m \in panel.out : Answer(m)
       \/ \E l \in Lanes : pollLane(l) \/ onLaneToggle(l) \/ Rerun(l)
       \/ checkNavigation
       \/ Pick \/ RereadClick \/ stopAgentPolls
       \/ \E kind \in {"define", "related", "focus"} \union Lanes, t \in TermStates : Intent(kind, t)
    /\ Cardinality(panel'.out) <= MaxOut

Spec == Init /\ [][Next]_vars
----------------------------------------------------------------------------
\* A lane never shows the answer about a page the panel has stopped describing,
\* however late it comes (panel-in-page.ts:548-554).
AnswersThisPage ==
    \A l \in Lanes : panel.laneState[l] = "done" => panel.answer[l].page = panel.pinnedUrl

\* A lane has one run in flight for the page shown: no toggle, button or intent
\* starts a second, which would cost a second agent run (panel-in-page.ts:732-745).
OneRunInFlight ==
    \A l \in Lanes :
        Cardinality({m \in panel.out : m.kind = "run" /\ m.lane = l
                                       /\ m.gen = panel.generation}) <= 1

\* A closed panel polls nothing: no answer that comes after starts a timer again
\* (panel-in-page.ts:754-763).
ClosedMeansQuiet == panel.closed => panel.lanePollTimers = {}

\* The lanes never ask more than they show: both of the above.
NoStrayWork == OneRunInFlight /\ ClosedMeansQuiet

\* The last gesture wins: of the intents carried out, each came later than the one
\* before it, so that none is carried out twice, after whatever re-read, nor after
\* one that came later (panel-in-page.ts:719-731, 1944-1951).
LastIntentWins ==
    \A i, j \in DOMAIN applied : i < j => applied[i] < applied[j]

=============================================================================
