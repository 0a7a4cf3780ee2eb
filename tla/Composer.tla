------------------------------ MODULE Composer ------------------------------
(***************************************************************************)
(* The brief page: the user picks sources from a list of open tabs and     *)
(* collected passages, reads a preview of what will leave the machine, and *)
(* clicks Run.  The list is what the worker answered some time ago; the    *)
(* picks name a tab by its id and a page's passages by the page, and the   *)
(* worker resolves them against the tabs and the collection as they are    *)
(* when the message arrives.  Tabs navigate, passages are collected and    *)
(* dropped, and answers overtake each other meanwhile.                     *)
(*                                                                         *)
(* A page is its address without the fragment (groupKey).  An edit of the  *)
(* collection is one step (KeyedStore); what becomes of a run once it has  *)
(* its sources is in BriefRuns.                                            *)
(***************************************************************************)
EXTENDS Naturals, FiniteSets

CONSTANTS
    Tabs,        \* the open tabs
    Pages,       \* the pages a tab may show
    NoPage,      \* the page of a tab that is closed
    Passages,    \* the passages that may be collected
    PageOf,      \* the page of each passage
    MaxSources,  \* BRIEF_CAPS.maxSources
    MaxMoves,    \* bound: navigations of tabs and passages collected
    MaxClicks,   \* bound: gestures on the page
    MaxFaults    \* bound: messages the worker does not answer, writes that reject

VARIABLES
    at,        \* the page each tab shows, and since when
    passage,   \* what has become of each passage, and since when
    loads,     \* the brief-tabs messages under way, with what was read for each
    list,      \* named and passages: the answer the page goes by, and when it was read
    whole,     \* wholePage: the pages switched from their passages to the whole page
    selected,  \* the picks ticked
    asked,     \* is there a question?
    preview,   \* the sources the preview shows, {} while it is hidden
    starts,    \* the brief-start messages sent
    moves, clicks, faults  \* what has been used of the bounds

world == <<at, passage>>
screen == <<list, whole, selected, asked, preview>>
vars == <<world, loads, screen, starts, moves, clicks, faults>>

Nothing == [named |-> [t \in Tabs |-> NoPage], held |-> {}, tabsAt |-> 0, heldAt |-> 0]
Load(drop) == [pc |-> IF drop = {} THEN "tabs" ELSE "drop", drop |-> drop, seen |-> Nothing]

Init ==
    /\ at \in [Tabs -> [page : Pages, since : {0}]]
    /\ passage \in [Passages -> [is : {"new", "held"}, since : {0}]]
    /\ loads = {Load({})}
    /\ list = Nothing /\ whole = {} /\ selected = {} /\ asked = FALSE /\ preview = {}
    /\ starts = {} /\ moves = 0 /\ clicks = 0 /\ faults = 0

Click == clicks < MaxClicks /\ clicks' = clicks + 1
Fault == faults < MaxFaults /\ faults' = faults + 1

----------------------------------------------------------------------------
\* The world.

Held == {p \in Passages : passage[p].is = "held"}

Move == moves < MaxMoves /\ moves' = moves + 1

Navigate(t, page) ==
    /\ Move /\ at[t].page \notin {page, NoPage}
    /\ at' = [at EXCEPT ![t] = [page |-> page, since |-> moves + 1]]
    /\ UNCHANGED <<passage, loads, screen, starts, clicks, faults>>

collectPassage(p) ==
    /\ Move /\ passage[p].is = "new"
    /\ passage' = [passage EXCEPT ![p] = [is |-> "held", since |-> moves + 1]]
    /\ UNCHANGED <<at, loads, screen, starts, clicks, faults>>

Without(ps) == [p \in Passages |-> IF p \in ps \intersect Held
                                   THEN [passage[p] EXCEPT !.is = "gone"] ELSE passage[p]]

\* The tabs that can be named now: of some the address is withheld, or the query
\* fails and names none.
listTabs == {[t \in Tabs |-> IF t \in Visible THEN at[t].page ELSE NoPage] :
                Visible \in SUBSET Tabs}

----------------------------------------------------------------------------
\* The rows: one to a page, its passages if it has any, its tab otherwise or if
\* the user has switched to the whole page.

Named(l) == {l.named[t] : t \in Tabs} \ {NoPage}
Groups(l) == {PageOf[p] : p \in l.held}
OnPage(l, page) == {p \in l.held : PageOf[p] = page}

\* The first tab at a page stands for it.
Lead(l, page) == CHOOSE t \in Tabs : l.named[t] = page

AsTab(l, w) == {page \in Named(l) : page \in Groups(l) => page \in w}

TabPick(l, page) == [kind |-> "tab", of |-> Lead(l, page)]
PassagesPick(page) == [kind |-> "passages", of |-> page]

composerRows(l, w) ==
    {TabPick(l, page) : page \in AsTab(l, w)}
    \union {PassagesPick(page) : page \in Groups(l) \ AsTab(l, w)}

\* What a pick stands for, by the tabs and passages that l knows of.
sourceFor(pick, l) ==
    IF pick.kind = "tab" THEN [kind |-> "tab", of |-> pick.of, page |-> l.named[pick.of], texts |-> {}]
    ELSE [kind |-> "passages", of |-> pick.of, page |-> pick.of, texts |-> OnPage(l, pick.of)]

pickedRows == composerRows(list, whole) \intersect selected

\* Hidden while there is no question.
showPreview(l, picks, question) == IF question THEN {sourceFor(k, l) : k \in picks} ELSE {}

\* Bug: the list is drawn again and the preview is not.
MutantDrawn(l, picks) == preview

Drawn(l, picks) == showPreview(l, picks, asked)

\* A switch without a tab is released, a tick without a row is dropped.
paint(l, w, ticks) ==
    /\ list' = l
    /\ whole' = w \intersect Named(l)
    /\ selected' = ticks \intersect composerRows(l, w \intersect Named(l))
    /\ preview' = Drawn(l, ticks \intersect composerRows(l, w \intersect Named(l)))
    /\ UNCHANGED asked

----------------------------------------------------------------------------
\* What the user does, to the list as it is painted.

\* At the cap a box that is not ticked is disabled.
applyPickLimit(pick) == pick \in selected \/ Cardinality(selected) < MaxSources

Tick(pick) ==
    /\ Click /\ pick \in composerRows(list, whole) /\ applyPickLimit(pick)
    /\ selected' = (selected \union {pick}) \ (selected \intersect {pick})
    /\ preview' = showPreview(list, selected', asked)
    /\ UNCHANGED <<world, loads, list, whole, asked, starts, moves, faults>>

\* The pick moves with the row.
toggleWholePage(page) ==
    /\ Click /\ page \in Named(list) \intersect Groups(list)
    /\ LET asTab == TabPick(list, page)
           asPassages == PassagesPick(page)
           from == IF page \in whole THEN asTab ELSE asPassages
           to == IF page \in whole THEN asPassages ELSE asTab
       IN paint(list, (whole \union {page}) \ (whole \intersect {page}),
                IF from \in selected THEN (selected \ {from}) \union {to} ELSE selected)
    /\ UNCHANGED <<world, loads, starts, moves, faults>>

\* A question is typed or picked, or deleted again.
Ask ==
    /\ asked' = ~asked
    /\ preview' = showPreview(list, pickedRows, asked')
    /\ UNCHANGED <<world, loads, list, whole, selected, starts, moves, clicks, faults>>

\* One passage is dropped, those of a page, or all, also those not listed yet; then
\* the list is read.
mutate(ps) ==
    /\ Click
    /\ loads' = loads \union {Load(ps)}
    /\ UNCHANGED <<world, screen, starts, moves, faults>>

Removals == {{p} : p \in list.held}
            \union {{p \in Passages : PageOf[p] = page} : page \in Groups(list)}
            \union (IF list.held = {} THEN {} ELSE {Passages})

\* The page is looked at again, or access to a site was granted.
Focus ==
    /\ Click
    /\ loads' = loads \union {Load({})}
    /\ UNCHANGED <<world, screen, starts, moves, faults>>

isBriefStartRequest == asked /\ pickedRows # {} /\ Cardinality(pickedRows) <= MaxSources

\* Any other message is refused.
Run ==
    /\ Click /\ isBriefStartRequest
    /\ starts' = starts \union {[pc |-> "sent", picks |-> pickedRows, shown |-> preview,
                                 tabsAt |-> list.tabsAt, heldAt |-> list.heldAt,
                                 named |-> Nothing.named, fed |-> {}]}
    /\ UNCHANGED <<world, loads, screen, moves, faults>>

----------------------------------------------------------------------------
\* The worker answers brief-tabs: the tabs first, then the passages.

Goes(l, to) == loads' = (loads \ {l}) \union {to}

\* Dropped, or the write was refused.
DropLands(l) ==
    /\ l.pc = "drop"
    /\ \/ passage' = Without(l.drop) /\ UNCHANGED faults
       \/ Fault /\ UNCHANGED passage
    /\ Goes(l, Load({}))
    /\ UNCHANGED <<at, screen, starts, moves, clicks>>

TabsRead(l) ==
    /\ l.pc = "tabs"
    /\ \E named \in listTabs :
          Goes(l, [l EXCEPT !.pc = "held", !.seen.named = named, !.seen.tabsAt = moves])
    /\ UNCHANGED <<world, screen, starts, moves, clicks, faults>>

PassagesRead(l) ==
    /\ l.pc = "held"
    /\ Goes(l, [l EXCEPT !.pc = "answer", !.seen.held = Held, !.seen.heldAt = moves])
    /\ UNCHANGED <<world, screen, starts, moves, clicks, faults>>

\* Answers may land in any order.
loadTabs(l) ==
    /\ l.pc = "answer"
    /\ loads' = loads \ {l}
    /\ paint(l.seen, whole, selected)
    /\ UNCHANGED <<world, starts, moves, clicks, faults>>

\* The worker failed or is unreachable: the list stays as it was drawn.
LoadFails(l) ==
    /\ Fault
    /\ loads' = loads \ {l}
    /\ UNCHANGED <<world, screen, starts, moves, clicks>>

----------------------------------------------------------------------------
\* The worker answers brief-start.

Becomes(s, to) == starts' = (starts \ {s}) \union to

\* Without a connection it goes no further.
StartReadsTabs(s) ==
    /\ s.pc = "sent"
    /\ \/ \E named \in listTabs : Becomes(s, {[s EXCEPT !.pc = "tabs", !.named = named]})
       \/ Becomes(s, {})
    /\ UNCHANGED <<world, loads, screen, moves, clicks, faults>>

\* A pick that names nothing any more is dropped.
resolvePick(s) ==
    {src \in {sourceFor(k, [named |-> s.named, held |-> Held]) : k \in s.picks} :
        src.page # NoPage /\ (src.kind = "passages" => src.texts # {})}

\* A page is claimed once, by the first pick that resolves to it.
pickSources(sources) ==
    {picked \in SUBSET sources :
        /\ {src.page : src \in picked} = {src.page : src \in sources}
        /\ \A a, b \in picked : a.page = b.page => a = b}

\* Without a source the run is not created.  A tab that navigates on before its
\* turn is skipped, so this is the most that leaves.
handleBriefStart(s) ==
    /\ s.pc = "tabs"
    /\ IF resolvePick(s) = {} THEN Becomes(s, {})
       ELSE \E picked \in pickSources(resolvePick(s)) :
               Becomes(s, {[s EXCEPT !.pc = "fed", !.fed = picked]})
    /\ UNCHANGED <<world, loads, screen, moves, clicks, faults>>

\* What was sent is forgotten, unless the run did not get that far.
forgetFed(s) ==
    /\ s.pc = "fed"
    /\ \/ passage' = Without(UNION {src.texts : src \in s.fed})
       \/ UNCHANGED passage
    /\ Becomes(s, {})
    /\ UNCHANGED <<at, loads, screen, moves, clicks, faults>>

Next ==
    \/ \E t \in Tabs, page \in Pages \union {NoPage} : Navigate(t, page)
    \/ \E p \in Passages : collectPassage(p)
    \/ \E pick \in composerRows(list, whole) : Tick(pick)
    \/ \E page \in Pages : toggleWholePage(page)
    \/ \E ps \in Removals : mutate(ps)
    \/ Ask \/ Focus \/ Run
    \/ \E l \in loads : \/ DropLands(l) \/ TabsRead(l) \/ PassagesRead(l)
                        \/ loadTabs(l) \/ LoadFails(l)
    \/ \E s \in starts : StartReadsTabs(s) \/ handleBriefStart(s) \/ forgetFed(s)

Spec == Init /\ [][Next]_vars
----------------------------------------------------------------------------
\* A brief is made of what its preview showed at the click, page by page and in the
\* mode shown (preview.ts:286-288, "the text shown is the text sent").  The preview
\* is as old as the list: a tab that has navigated since its tabs were read is read
\* at its new page, a passage collected since its passages were read goes along.
WhatLeavesWasShown ==
    \A s \in starts : \A src \in s.fed :
        \/ src.kind = "tab" /\ at[src.of].since > s.tabsAt
        \/ \E o \in s.shown :
              /\ o.kind = src.kind /\ o.page = src.page
              /\ \A p \in src.texts \ o.texts : passage[p].since > s.heldAt
=============================================================================
