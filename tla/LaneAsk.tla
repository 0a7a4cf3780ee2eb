------------------------------ MODULE LaneAsk ------------------------------
(***************************************************************************)
(* From the page on screen to the question that reaches the gateway.  A    *)
(* panel opens on a page: the worker recognises it, resolves it and reads  *)
(* the gateway's roster, and the panel offers lanes by what came back.     *)
(* Expanding one starts over: the worker resolves the page again, looks    *)
(* for a run about the same subject, reads the roster again and only then  *)
(* invokes.  Between any two of these the gateway may be replaced by a     *)
(* newer or an older build, and its index may move on.                     *)
(*                                                                         *)
(* The life of a run once it is stored is AgentRuns'.                      *)
(***************************************************************************)
EXTENDS Naturals, Sequences, FiniteSets

CONSTANTS
    Pages,      \* [kind, product, coordinate]; kind "plain" if not recognised
    Items,      \* the ids of the gateway's index
    Builds,     \* [version, lanes, itemArm, files]: what a gateway says it is and serves
    Floor,      \* ITEM_ARM_FLOOR
    Term,       \* the one term that may be selected
    None,       \* no item, no term
    MaxRuns,    \* bound: runs invoked
    MaxChanges  \* bound: changes of the gateway

VARIABLES
    gateway,  \* its build and its index of items
    store,    \* the stored runs, with what each was really asked about
    panel,    \* the page it is on, what the last resolve said, and one lane
    call,     \* the lane's request under way in the worker
    asked,    \* history: the panel's last question that reached the gateway
    changes   \* the changes of the gateway so far

vars == <<gateway, store, panel, call, asked, changes>>

AGENT_LANES == {"glossary", "impact", "expert", "why", "catchup", "decisions", "ownership"}

\* The surfaces a lane belongs on, and what it answers about there.  The lane on a
\* term is on none.
LANE_RULES ==
    [lane \in AGENT_LANES |->
        CASE lane = "impact"    -> {"pr", "file"}
          [] lane = "expert"    -> {"pr", "issue", "incident", "file"}
          [] lane = "why"       -> {"pr", "issue", "incident"}
          [] lane \in {"catchup", "decisions"} -> {"home"}
          [] lane = "ownership" -> {"home", "issue", "incident", "file"}
          [] OTHER              -> {}]

laneBelongsOnSurface(lane, kind) == kind \in LANE_RULES[lane]

itemArmPolicy(lane, kind) ==
    CASE lane \in {"why", "expert", "ownership"} /\ kind \in {"issue", "incident"} -> "item-required"
      [] lane = "expert" /\ kind = "pr" -> "item-preferred"
      [] OTHER -> "none"

\* Component by component; a development build says 0.0.0 and passes, a version
\* that is absent or does not parse, the empty one, does not.
meetsFloor(v) ==
    /\ Len(v) = 3
    /\ \/ v = <<0, 0, 0>>
       \/ v = Floor
       \/ \E i \in 1 .. 3 : v[i] > Floor[i] /\ \A j \in 1 .. i - 1 : v[j] = Floor[j]

\* What a roster read comes back with: nothing known, or the lanes published.
Rosters == {[known |-> FALSE, names |-> {}, version |-> <<>>],
            [known |-> TRUE, names |-> gateway.build.lanes, version |-> gateway.build.version]}

\* Bug: a roster that could not be read filters nothing.
MutantOfferedLanes(roster, kind) ==
    IF roster.known
    THEN {lane \in roster.names : itemArmPolicy(lane, kind) = "item-required"
                                    => meetsFloor(roster.version)}
    ELSE AGENT_LANES

\* Lanes whose arm only a new enough gateway serves are offered by one known to be;
\* the others also when the roster could not be read.
offeredLanes(roster, kind) ==
    {lane \in IF roster.known THEN roster.names ELSE AGENT_LANES :
        itemArmPolicy(lane, kind) = "item-required" => meetsFloor(roster.version)}

\* What the index may have for a page: one item, several, or none.
IndexAnswers ==
    {[kind |-> "found", ids |-> {i}] : i \in Items}
        \union {[kind |-> "ambiguous", ids |-> ids] : ids \in {s \in SUBSET Items : Cardinality(s) > 1}}
        \union {[kind |-> "miss", ids |-> {}]}

\* History: the items the index names alone, now or since the panel was opened.
Alone(index) == IF index.kind = "found" THEN index.ids ELSE {}

\* What resolving a page comes back with: an answer of the index, or a failure.
ResolvesTo == {gateway.index, [kind |-> "failed", ids |-> {}]}

itemPage(page) == page.kind \in {"pr", "issue", "incident"}

NoCall == [kind |-> "none"]
NoQuestion == [arm |-> "none"]
Collapsed == [name |-> "none", state |-> "collapsed", run |-> 0]

Init ==
    /\ gateway \in [build : Builds, index : IndexAnswers]
    /\ store = {}
    /\ panel = [page |-> CHOOSE p \in Pages : p.kind = "plain", header |-> "unrecognised",
                ids |-> {}, picked |-> None, offered |-> AGENT_LANES, term |-> None,
                lane |-> Collapsed, build |-> gateway.build, alone |-> Alone(gateway.index)]
    /\ call = NoCall /\ asked = NoQuestion /\ changes = 0

----------------------------------------------------------------------------
\* The panel.

\* The reply to a resolve, and the header and the lanes the panel makes of it.  A
\* captured copy of the page itself is shown but has no lanes.
handleResolve(page, roster, answer) ==
    [panel EXCEPT
        !.page = page, !.picked = None, !.term = None, !.lane = Collapsed,
        !.build = gateway.build, !.alone = Alone(gateway.index),
        !.header = CASE page.kind = "plain" -> "unrecognised"
                     [] page.kind = "home"  -> "service"
                     [] page.kind = "file"  -> IF gateway.build.files /\ answer.kind # "failed"
                                               THEN "file" ELSE "no file"
                     [] OTHER -> answer.kind,
        !.ids = IF itemPage(page) THEN answer.ids ELSE {},
        !.offered = IF page.kind = "plain" \/ (itemPage(page) /\ answer.kind = "failed")
                    THEN AGENT_LANES ELSE offeredLanes(roster, page.kind)]

Open(page) ==
    /\ call = NoCall
    /\ \E roster \in Rosters, answer \in ResolvesTo : panel' = handleResolve(page, roster, answer)
    /\ asked' = NoQuestion
    /\ UNCHANGED <<gateway, store, call, changes>>

withPick(id) ==
    /\ call = NoCall /\ panel.header = "ambiguous" /\ id \in panel.ids
    /\ panel' = [panel EXCEPT !.picked = id, !.lane = Collapsed]
    /\ UNCHANGED <<gateway, store, call, asked, changes>>

Select ==
    /\ call = NoCall /\ panel' = [panel EXCEPT !.term = Term]
    /\ UNCHANGED <<gateway, store, call, asked, changes>>

\* A page lane needs a surface it belongs on and a subject in the header; the term
\* lane needs a term and nothing else.
pageSubject ==
    \/ panel.header \in {"found", "service", "file"}
    \/ panel.header = "ambiguous" /\ panel.picked # None

lanesFor ==
    {lane \in panel.offered :
        IF lane = "glossary" THEN panel.term # None
        ELSE pageSubject /\ laneBelongsOnSurface(lane, panel.page.kind)}

laneRequestInput(kind, lane) ==
    [kind |-> kind, lane |-> lane, page |-> panel.page, pc |-> "resolving",
     itemId |-> IF lane = "glossary" THEN None ELSE panel.picked,
     term |-> IF lane = "glossary" THEN panel.term ELSE None,
     subject |-> [kind |-> "none", id |-> None], item |-> None,
     arm |-> "none", read |-> gateway.build]

Expand(lane) ==
    /\ call = NoCall /\ lane \in lanesFor
    /\ panel' = [panel EXCEPT !.lane = [Collapsed EXCEPT !.name = lane]]
    /\ call' = laneRequestInput("agent-run", lane)
    /\ UNCHANGED <<gateway, store, asked, changes>>

Poll ==
    /\ call = NoCall /\ panel.lane.state = "running"
    /\ call' = laneRequestInput("agent-state", panel.lane.name)
    /\ UNCHANGED <<gateway, store, panel, asked, changes>>

Replied(state, run) ==
    /\ panel' = [panel EXCEPT !.lane.state = state, !.lane.run = run]
    /\ call' = NoCall

----------------------------------------------------------------------------
\* The worker.

\* Bug: an ambiguous answer is settled by the worker, whatever was picked.
MutantSubjectItems(answer, picked) ==
    IF answer.kind \in {"found", "ambiguous"} THEN answer.ids ELSE {}

\* The item a lane is about: the one found, or the picked one of several, which the
\* gateway must have named just now.
SubjectItems(answer, picked) ==
    CASE answer.kind = "found"     -> answer.ids
      [] answer.kind = "ambiguous" -> answer.ids \intersect {picked}
      [] OTHER                     -> {}

\* What a run is stored under.
subjectFor(item) ==
    IF call.lane = "glossary" THEN [kind |-> "term", id |-> call.term]
    ELSE CASE call.page.kind = "home" -> [kind |-> "service", id |-> call.page.product]
           [] call.page.kind = "file" -> [kind |-> "file", id |-> call.page.coordinate]
           [] OTHER                   -> [kind |-> "item", id |-> item]

\* Only a lane about an item asks the gateway.  A page that has no such subject, or has
\* it no more, fails the lane, and so does a lost pairing, whatever the lane is about.
resolveForAgent(item) ==
    \/ item = None /\ (call.lane = "glossary" \/ ~itemPage(call.page))
    \/ /\ call.lane # "glossary" /\ itemPage(call.page)
       /\ item \in SubjectItems(gateway.index, call.itemId)

Cached(subject) == {r \in store : r.subject = subject /\ r.lane = call.lane}

Resolves ==
    /\ call.kind # "none" /\ call.pc = "resolving"
    /\ \/ \E item \in Items \union {None} :
             /\ resolveForAgent(item)
             /\ LET subject == subjectFor(item)
                    found == Cached(subject)
                IN  IF found # {} THEN \E r \in found : Replied(r.state, r.run)
                    ELSE IF call.kind = "agent-state" THEN Replied("collapsed", 0)
                    ELSE /\ call' = [call EXCEPT !.pc = "reading", !.subject = subject, !.item = item]
                         /\ UNCHANGED panel
       \/ Replied("failed", 0)
    /\ UNCHANGED <<gateway, store, asked, changes>>

\* Which of its arms the agent is asked by.
agentParams(roster) ==
    LET policy == itemArmPolicy(call.lane, call.page.kind)
        useItemArm == \/ policy = "item-required"
                      \/ policy = "item-preferred" /\ meetsFloor(roster.version)
    IN  IF call.lane = "glossary" THEN "term"
        ELSE IF call.page.kind = "home" THEN "service"
        ELSE IF call.page.kind = "file" THEN "file"
        ELSE IF call.lane = "ownership" \/ (call.lane # "impact" /\ useItemArm) THEN "itemUrl"
        ELSE CASE call.lane = "impact" -> "fileOrPrUrl"
               [] call.lane = "why"    -> "prUrl"
               [] OTHER                -> "topicOrFile"

\* Bug: the roster that the panel was opened with is used again.
MutantReadsRoster ==
    /\ call.kind = "agent-run" /\ call.pc = "reading"
    /\ call' = [call EXCEPT !.pc = "invoking", !.arm = agentParams([version |-> panel.build.version]),
                            !.read = gateway.build]
    /\ UNCHANGED <<gateway, store, panel, asked, changes>>

\* The roster is read anew for each question.
ReadsRoster ==
    /\ call.kind = "agent-run" /\ call.pc = "reading"
    /\ \E roster \in Rosters :
          call' = [call EXCEPT !.pc = "invoking", !.arm = agentParams(roster), !.read = gateway.build]
    /\ UNCHANGED <<gateway, store, panel, asked, changes>>

\* The build that an arm rests on: the one whose roster was read for this question if
\* the arm is only preferred, else the one the panel was opened on.
RestsOn ==
    IF itemArmPolicy(call.lane, call.page.kind) = "item-preferred" THEN call.read ELSE panel.build

\* The agent is invoked, a second time if it was busy; the run is stored and the lane
\* told that it runs.
Invokes ==
    /\ call.kind = "agent-run" /\ call.pc = "invoking"
    /\ \/ /\ asked' = [arm |-> call.arm, build |-> RestsOn]
          /\ \E run \in 1 .. MaxRuns :
                /\ run = Cardinality(store) + 1
                /\ store' = store \union {[subject |-> call.subject, lane |-> call.lane, run |-> run,
                                           state |-> "running", page |-> call.page,
                                           item |-> call.item]}
                /\ Replied("running", run)
       \/ Replied("failed", 0) /\ UNCHANGED <<store, asked>>
    /\ UNCHANGED <<gateway, changes>>

RunEnds ==
    /\ \E r \in store : r.state = "running"
                        /\ store' = (store \ {r}) \union {[r EXCEPT !.state = "done"]}
    /\ UNCHANGED <<gateway, panel, call, asked, changes>>

\* The gateway is replaced by another build, or its index moves on.
GatewayChanges ==
    /\ changes < MaxChanges /\ changes' = changes + 1
    /\ \/ \E build \in Builds : gateway' = [gateway EXCEPT !.build = build]
       \/ \E index \in IndexAnswers : gateway' = [gateway EXCEPT !.index = index]
    /\ gateway' # gateway
    /\ panel' = [panel EXCEPT !.alone = @ \union Alone(gateway'.index)]
    /\ UNCHANGED <<store, call, asked>>

Next ==
    \/ \E page \in Pages : Open(page)
    \/ \E i \in Items : withPick(i)
    \/ Select \/ Poll \/ RunEnds \/ GatewayChanges
    \/ \E lane \in AGENT_LANES : Expand(lane)
    \/ Resolves \/ ReadsRoster \/ Invokes

Spec == Init /\ [][Next]_vars
----------------------------------------------------------------------------
\* A question uses an arm that was served by the build it rests on.  An arm that is only
\* preferred rests on the roster read for the question, so a gateway replaced by an
\* older one is asked by it no more from the next expansion on; one that is required, or
\* the file's, on what the panel was opened on, whichever roster reads failed since
\* (agents-capability.ts:191-276, handlers.ts:1128-1143).
ArmIsServed ==
    asked # NoQuestion
    => /\ asked.arm = "itemUrl" => asked.build.itemArm
       /\ asked.arm = "file" => asked.build.files

shownRuns == {r \in store : r.run = panel.lane.run}

ShownItems == IF panel.picked = None THEN panel.ids ELSE {panel.picked}

aboutItem == itemPage(panel.page) /\ panel.lane.name \notin {"none", "glossary"}

\* What a lane shows is about the item in the header, the one found or the one picked of
\* several, or about one that the index has named alone since the panel was opened: no
\* answer is about an item that nobody picked out of several (handlers.ts:812-860).
AnswerIsOfTheShownItem ==
    aboutItem => \A r \in shownRuns : r.item \in ShownItems \union panel.alone

\* "Two files in one repository - and the same path in two repositories - are
\* different subjects, and a key that dropped either would serve one file's run for
\* the other" (agent-run-store.ts:78-82): what a file's lane shows was asked about
\* that file.
FileAnswersAreItsOwn ==
    panel.page.kind = "file" /\ panel.lane.name # "glossary"
    => \A r \in shownRuns : r.page = panel.page
=============================================================================
