# Nimbus Web Clipper in TLA+

The web clipper is a browser extension that talks to one *gateway*, a program on
the user's machine. All its logic that outlives a click runs in one service
worker, which the browser evicts when it is idle and starts again on any event.
Its state is therefore in extension storage, its timers are alarms, and nearly
every function awaits something. Beside the worker there are pages, each a script
of its own that knows the world by answers to its messages: the panel and the cue
injected into a web page, the options page, the brief page. These modules are
about what can happen between two awaits, and between a page and the worker. Paths
below are relative to the repository; `background/` is `src/background/`.

## The system

Components, the state each keeps and what makes it correct:

| Component | State | Operations | Hard part | Correct means |
|---|---|---|---|---|
| Keyed stores (`background/keyed-store.ts` and inline copies) | one storage key each, a promise chain in memory | guarded read, chained read-modify-write | tasks interleave, writes reject, eviction | each edit is atomic, no caller waits for ever |
| Offline clip queue (`shared/queue.ts`, `background/clip-queue-store.ts`, `queue-flush.ts`) | entries by page, terminal marks | clip, drain, retry, remove | queue edited while its POSTs are on their way; answers lost | one entry per page, nothing lost or brought back, all drained |
| Rate-limit pause (`background/rate-limit-pause.ts`) | a deadline | set on 429, cleared on success | races with the drain and the alarm | automatic flushes wait, and only as long |
| Flush alarm and badge (`syncQueueState`) | one browser alarm | reconcile, re-arm, clear, fire | five callers race, an await at every line | work has a wakeup, no work has none |
| Connection (`background/connection-store.ts`) | the one record | pair, unpair, mark stale, mark success | requests answered under a later connection | the last pairing wins, marks are true and kept |
| Agent run store (`background/agent-run-store.ts`) | at most 16 runs by question, 6 of terms | put, attach links, clear, read | budgets, TTL, late writes | bounded, evicts in order, one run per question |
| Agent polls (`service-worker.ts`) | loops, generation counter, alarm | invoke, poll, resume, resolve links | eviction, re-run, change of pairing | no answer of another gateway, no silent spinner |
| Lane requests (`handlers.ts`, `agents-capability.ts`) | none; the panel's pick and offer | resolve, offer, resolve again, invoke | the gateway changes between two reads of its roster | only what it serves is asked, about what is shown |
| Research briefs (`background/brief-*.ts`) | runs with phases, disclosure log | start, feed, run, poll, save | many awaits per call, egress already made | phase and log tell what happened |
| Passages (`background/passage-store.ts`) | collected text by page | add, remove, forget the fed | edited while a brief feeds them | refuse, never evict; forget only what left |
| In-page panel (`src/panel/`) | lanes, timers, parked intents; the header's latches | open, expand, poll, navigate; fetch, capture, clip | late answers, navigation, what is painted is what is clicked | paints only the page it is on, asks once, clips what it describes |
| Ambient cue (`ambient.ts`, `service-worker.ts`) | per-tab timer and generation | navigate, close, dismiss | debounce, superseded answers | one cue, of the present page, and not again |
| Connector health (`connector-health-store.ts`) | a cached answer | read | single flight, TTL, re-pairing | never another gateway's health, never an old one |
| Service bindings (`service-binding-store.ts`, `deploy-handlers.ts`) | a small store, tables in two pages | bind, unbind, check, correct | a slow bind or check, clicks meanwhile | no lost edit, the table shows the store |
| Options page, origins, preferences (`src/options/`) | origins and cue by key, access in the browser | add, remove, grant, revoke, tick | three places, two chains, a browser dialog | no cue without access |
| Brief page (`src/brief/`) | list, ticks, preview | tick, switch, drop, run | the list is older than the click | what leaves was shown |
| Gateway clients, replies and guards | none | one request each | every status, every odd body | a reply is understood, and made of what was said |
| Popup, palette, quick clip, DORA, egress and ledger pages | none that outlives a view | read and render | message order | shows what was answered |
| Recognition, capture, views, manifests | none | pure | parsing | same answer for same input |

They interact so: a page, the popup or the panel sends a message; a router in
`service-worker.ts` calls a handler; the handler reads the connection, asks the
gateway and writes a store; a wrapper around replies and POSTs notices a 401 or
429 and writes the connection or the pause; whoever may have changed the queue
reconciles the alarm. A pair or unpair changes the connection, then bumps the
generation and clears the runs and briefs. Stores share no chain with each other,
so what one call does to two stores is two steps with anything in between. A page
guards the reply it gets with lists of its own, and drops one it does not know.

## Modules

| Module | Models | State ↔ code |
|---|---|---|
| `SerialStore` | the promise of a chain: edits take effect in the order they were linked, each at one instant, on the value the last one left, or not at all | abstract |
| `AtomicStore` | the promise of a store: `SerialStore`, and what each caller is told of its edit | abstract |
| `KeyedStore` | `createWriteChain`, `readGuarded`: `Submit`, `Read`, `Write`, `Fail`, `Evict` | `stored` the key, `chain` the linked promises, `snapshot` the running link's local, `settled` what its caller got |
| `ClipQueue` | `handleClip`, `updateQueue`, `flushQueue`, `postClipPaced`, `single-flight`, the popup's routes | `queue`/`queuedAt` the stored array, `terminal` the `lastReason`s that drains skip, `clip` and `flush` where each handler's frame stands |
| `ClipQueueLive` | `ClipQueue` with an end of trouble, and fairness | `calm`: from now on no eviction, no failing write, no unpair, and an answer to every POST |
| `FlushAlarm` | `syncQueueState` an await at a time, with all its callers, `endPause`, `reconcileAfterClip`, `ensureAlarm`, `rearmAlarm`, the startup sequence | `length` of the queue, `alarm`, `paused`, `awake`, `task` one frame per concurrent caller |
| `ConnectionStore` | the chain of `connection-store.ts` with its two kinds of link, `handlePair`, `handleUnpair`, `wrapRespond`'s mark | `stored`, `chain`, `snapshot`, `request` with the token it was sent with |
| `RunStore` | `agent-run-store.ts`: `putRun`, `putItemUrls`, `clearRuns` as pure edits of a sequence ordered by write | `store`, `lapsed` for the TTL |
| `LastWrites` | what is left of such a sequence when its oldest entries are taken out (`At`, `KeepLast`), for `RunStore` and `BriefRuns` | pure |
| `AgentRuns` | `handleAgentRun`, `tickAgentPoll`, `resumeAgentPolls`, `resolveAndPersistItemUrls`, `clearRunsAndBumpGeneration` over `RunStore`'s operators and a chain of writes | `handler`, `loop`, `resolver`, `resume` the frames; `generation`, `alarm` |
| `LaneAsk` | a panel's resolve, the rosters' offer (`lanesFor`, `itemArmPolicy`, `meetsFloor`), the pick, `resolveForAgent`, `handleAgentRun`'s arms | `panel` the last resolve and one lane, `call` the message in the worker, `gateway` its build and index |
| `BriefRuns` | `handleBriefStart`, `feedAll`, `handleBriefPoll`, `handleBriefSave`, `putPhase`, the loop and its resume, the passages | `store` by phase, `log` the disclosures, `frame` and `feed` the handlers' locals, `save` the save's |
| `Bindings` | the bindings' store and chain, `handleServiceBind`, `…List`, `…Check`, the Options table, the deploy section | `bound` the store, `calls` the messages at work, `options` and `panel` the pages' own state; `want`, `contested`, `overtaken`, `elsewhere`, `unseen` what the properties remember |
| `ConnectorHealth` | `readConnectorHealth`, `single-flight` by gateway, the cache | `cache`, `flight`, `reader` one frame per resolve |
| `Wire`, `GatewayClients` | what a gateway may answer; each client function and parser as what it makes of an answer | a body is what it is and the one member of it that is odd |
| `Messages` | the guards the pages put before replies (`shared/messages.ts`) | pure |
| `Answers` | every handler with a request, as the next call or the reply, given what it has heard; `wrapRespond`, the router's catches, a lane's polls | `ask`, `heard` by route, `reply`, `stored` the lane's state, `told` the answers it came of |
| `PanelLanes` | `createPanel`'s lanes, poll timers, `checkNavigation`, intents, Related, closing | `panel` the closure, `panel.out` the messages under way |
| `PanelHeader` | the header's resolve, fetch and capture flows with previews | `panel` the closure, `screen` the controls last painted, `provider` what a fetch still has at work |
| `Surfaces` | `runAmbient`, `ambient.ts`, the cue, `injectPanel`, `deliverIntent` | `nav` the tab's generation and timer, `runs` the decisions under way, `intent` how far each has got |
| `SurfaceList` | the options page's rows: `surfaceRows`, `onSurfaceClick`, `onAmbientChange`, the two chains | `origins`, `ambient` the keys, `granted` the browser's, `screen` the rows painted |
| `Composer` | the brief page: `paint`, `composerRows`, the preview, Run; `handleBriefTabs`, `resolvePick` | `list` the last answer drawn, `whole`, `selected`, `preview`, `loads` and `starts` the messages |
| `Worker`, `Page` | the parts of the worker and of the pages side by side, with the assumptions on their constants | `which` the part a behaviour is of |
| `*_proofs` | the theorems of `ClipQueue`, `FlushAlarm`, `ConnectionStore`, `RunStore`, `AgentRuns`, and of the parts of `Worker` (`KeyedStore` among them; those of `Answers` by themselves) and `Page` | |
| `StoreConstants`, `RunConstants`, `ConnectionConstants`, `AlarmConstants` | the constants of `KeyedStore`, `RunStore`, `ConnectionStore` and `FlushAlarm` with their assumptions | |
| `MC*` | instances for TLC; `MCWorker` and `MCPage` extend `Worker` and `Page` | |

How they compose: every module but `KeyedStore` and `ConnectionStore` takes an edit
of a store to be one step, or two where the code reads and writes by two calls
(`BriefRuns`' `putPhase`). That is the promise of `SerialStore`. `KeyedStore`, which is
the chain of all of them, and `ConnectionStore`, whose chain has links of two kinds,
take each edit's read and write apart and are proved to keep it. `FlushAlarm` keeps the queue's length only and lets it change
as `ClipQueue` changes it. `AgentRuns` and `LaneAsk` use `RunStore`'s order of entries;
`AgentRuns` instantiates it, and is proved to implement it. `LaneAsk` is about which question is asked and `AgentRuns`
about what becomes of it; `Answers` takes the same handlers request by request, for
what their replies may say. `Composer` ends where `BriefRuns` begins, with a run's
sources. `PanelLanes` and `PanelHeader` are two halves of one closure that share the
page, its generation and the resolve: what each needs of the other is a choice there.

Three modules hold parts that share no state: `MCStores`, `Worker` and `Page`
choose by `which` the part that a behaviour is of, and leave the variables of the
others alone. A run of one is as many independent checks as it has parts, and a
theorem of one is about a part of it.

### What is abstracted

- Reads that no property tells apart are one step: connection, queue and pause at
  the head of `flushQueue`; connection and cached run in `handleAgentRun`; entry
  check, TTL check and connection in a poll's tick. The checks that the code
  repeats *after* an await are kept apart from those before it.
- Errors are merged where no control depends on which: 400 and 413 are `refused`
  in the queue. `GatewayClients` and `Answers` keep every status.
- A gateway that did not answer, or whose answer could not be read, may have done
  what it was asked (`Deliver`, `provider`, `BriefRuns`' accepted run).
- The quota fail-safe of `updateQueue` is in `QueueClip`: stored whole, stored
  without the oldest, or not at all.
- A body has at most one member that is not as documented. A parser looks at each
  member for itself, so two odd ones show nothing that one does not.
- Values are what the control tells apart: a version is three numbers where
  `meetsFloor` compares them, a report or a text is nothing at all.
- A pairing is with a gateway of its own (`AgentRuns`, `BriefRuns`), the case that matters.
- In `AgentRuns` two handlers of the alarm, and two changes of pairing, do not
  overlap: the alarm's period is a minute, and pairing is one person's gesture.
- A turn of a page's event loop is one step. Messages of a page may be answered in
  any order, or not at all, which is more than the browser does.

## Runs

| Run | Question | Bounds, and why they are enough |
|---|---|---|
| `stores` | the parts in which something must come to pass, below | below |
| `clip_queue` | is anything lost, doubled or brought back? | three clips, two of one page; a drain and a retry at once; room for both pages, or for one so that the cap is met. A race needs an older clip, a newer one of its page and a bystander. Liveness aside, nothing depends on more flushes than two |
| `clip_queue_only_on_success` | does an entry leave only on success? | *violated*; two clips of a page and one drain suffice |
| `clip_queue_live` | is everything drained in the end, and nothing twice? | three pages, room for two (the cap is met), both triggers of the drain |
| `flush_alarm_race` | do reconciliations race harmlessly? | *violated*, without any fault |
| `agent_runs` | what survives a change of pairing, a re-run, an eviction? | two runs of one lane so that one overtakes the other, one change of pairing, one fault (eviction, rejected write or expiry) |
| `worker` | the parts of the worker, below | below |
| `page` | the pages, below | below |
| `panel_fetch_button` | is the Fetch button there only while it works? | *violated*; one navigation, three clicks |
| `brief_egress` | does all that has left get its entry in the disclosure log? | *violated*; one brief and one lost answer |
| `lane_file_key` | is a file's lane answered about that file? | *violated*; one file on two forges |
| `rejection_noted` | does every reply that tells of a 401 mark the connection? | *violated*; `Answers` has no bound, a request is one message |

The parts of `stores`, one to a behaviour:

| Part | Question | Bounds |
|---|---|---|
| `KeyedStore` | does a chain never wedge? | three edits: one running, one behind it, one submitted late, over storage that starts well-formed or not. The edits are alike, so that the property is checked of one |
| `ConnectionStore` | who wins the connection, are marks kept, does a 401 come to show? | a pairing and a re-pairing, two requests under either, a chain of two and the links that requests add |
| `FlushAlarm` | is there a wakeup whenever there is work, and none for ever without? | length 0 or 1 (the code only asks whether it is 0), drain, startup, a clip and a popup message at once, one fault anywhere |

The parts of `worker`:

| Part | Question | Bounds |
|---|---|---|
| `KeyedStore` | one writer at a time; does it implement `AtomicStore`? | as in `stores` |
| `RunStore` | which runs does a write cost? | two items' and two terms' lanes, two places of which one for terms: each budget full alone and both at once |
| `BriefRuns` | what has left and is not on record, is a save noted, only what was sent forgotten; does a change of pairing leave no run of the gateway before? | two runs, of which one may be started, polled or saved at a time beside its loop, two passages of one page, one source, one place in the store, one change of pairing, one fault. A feed of two sources is two passages of one more page: it repeats the step |
| `Bindings` | does the last word stand, and does the table show it? | two repositories, two services, three events: a slow call and two clicks on it |
| `LaneAsk` | is the arm served, the answer about the item shown or one the index names? | six kinds of page, four builds (above and below the floor, a development build, one with no version), two items, one run and one change of the gateway |
| `ConnectorHealth` | is what a dashboard is told recent, and its own gateway's? | two gateways, two readers, a TTL of 2, a timeout of 1, a clock to 4 (past both), one fault |
| `Answers` | is a reply understood, and nothing in it made up? | none: every request, every status, every body with its odd member, for each call in turn |

The parts of `page`:

| Part | Question | Bounds |
|---|---|---|
| `PanelLanes` | is an answer about this page, is there no stray run or timer, does the last intent win? | two addresses of one item and one of another, two terms, one navigation, two gestures, three messages under way, one that fails. A late answer needs a message, a navigation and a gesture |
| `PanelHeader` | is there one fetch at a time, is a clip of its page, can a refused capture be tried again? | an address of each kind, two navigations, eight clicks (a fetch and a capture with their previews), two faults |
| `Surfaces` | is a cue of its page and not again, does an intent arrive? | three addresses, two of one item, two intents at once, two navigations, one closing, two clicks, one fault |
| `SurfaceList` | is the cue on only where there is access? | a built-in row and an own one of one host, three clicks (tick, revoke, grant), one fault |
| `Composer` | was what leaves shown? | a tab, two pages, two passages of one page, held or not at first, one thing that changes in the world, three clicks, one fault. A drift needs one change between a read and a click |

`MaxChain`, `MaxFaults`, `MaxChanges`, `MaxLength`, `MaxMoves`, `MaxClicks`, `MaxGestures`,
`MaxOut`, `MaxEvents`, `MaxTime`, `MaxRuns` and `MaxAtOnce` are bounds of the model, named so in
the modules; the other constants are the code's own or its environment's. Deadlock
is checked in `clip_queue`, `clip_queue_live` and `stores`, where it is about the alarm: the
other two parts may stand still. The others say
`CHECK_DEADLOCK FALSE` since they really stop: when every edit has been made, the runs
are over, the reply is there, or a page has had its gestures and its answers. Every
property of a passing run is broken by a mutant of the code, the `Mutant…` operators
beside what they replace.

Several properties name the races they except (`LossNeedsRace`, `WakeupLostOnlyToRace`,
`UnloggedWasCutShort`, `ForeignRunNeedsRace`, `contested`, `overtaken` and `unseen` in `Bindings`, `late`, `again`
and `ours` in `Surfaces`, `crowded`, `excused` in `SurfaceList`, the two disjuncts of
`WhatLeavesWasShown`, `alone` and `RestsOn` in `LaneAsk`). Each exception is a behaviour of the code; without it the property
is false. `ours` and `unseen` were found by a proof that failed and then confirmed by TLC
under larger bounds than the runs':

- A cue that was sent away comes back where the worker that had put it there was evicted,
  or had cued another item, before it was sent away (three navigations): the worker no
  longer knows it for its last. `StaysQuiet` is about those it does (`ours`).
- One repository is corrected, then another while the check that follows the first is
  under way. That check is set aside as overtaken, and the second correction's own check
  fails: the first row goes on showing, and offering, what was put right already (four
  events). `TableIsCurrent` now says so, and that nothing else leaves a row behind.

### Where code and docs disagree

With a run:

- *An entry leaves the queue only on success.* Removal after a success is by page.
  If a newer clip of the page was queued while the older one was being posted, the
  success removes the newer, which no one has posted. `LossNeedsRace` says that
  this is the only loss.
- *Concurrent callers race harmlessly.* A reconciliation that read an empty queue
  can clear the alarm that a clip, queued since, relies on. `WakeupLostOnlyToRace`
  says that this, a rejected call without a fallback and an eviction are the only
  ways; `WorkIsFound` that the next start of the worker drains all the same.
- *It still gets an entry; before this line nothing left* (`brief_egress`). The disclosure
  log's entry is written after the answer to `/run`. If that answer is lost, the append
  rejects or the worker is evicted before it, the gateway has the text and the log has
  nothing. `UnloggedWasCutShort` says that these are the only ways, and that no such run is
  then shown as running or past it.
- *No button that does nothing* (`panel_fetch_button`). After a fetch that came back
  the header is the miss of before until the new resolve is answered; a repaint
  meanwhile shows Fetch again, and the latch ignores the click. `OneFetchAtATime`
  holds: the latch does what it is for.
- *A key that dropped either would serve one file's run for the other* (`lane_file_key`).
  The key has repository and path, not the forge.
- *Every route that can 401 already reports it the same way* (`rejection_noted`). A lane's
  reply holds the reason one level down, a check of bindings in its rows.

Met while modelling, without a run of their own:

- "resolveForAgent now honours a supplied id only after confirming it appears in the
  candidate set that resolve produced — an id the gateway never offered is refused"
  (`docs/architecture.md:1110-1112`). The pick is looked at only if the page is still
  ambiguous (`handlers.ts:847-859`); once the index names one item, that one is asked about
  under the header of the picked one. `AnswerIsOfTheShownItem` says that this is all: no
  answer is about an item that was neither shown, nor picked, nor named alone.
- A 401 to a request sent with the token before marks the new connection stale: the
  mark names no token. The token itself is never reverted (`LastGestureWins`), which
  is what the comment in `connection-store.ts` is about.
- `brief-handlers.ts:565` says every failure of a save is `save-failed`, never `failed`;
  the router's catch answers `failed` when the handler rejects.
- A stalled body of a preflight or a DORA read is told as `malformed`; `deploy-client.ts`
  says of the third such client that this would be the wrong word, and tells it apart.
- `surfaces-view.ts:52` says that cue and access cannot disagree, as a revoke clears
  both. A tick made in a row not repainted since its access went is stored after the
  clear (`AmbientNeedsGrant` excuses it). The row does not show it.
- `shared/preview.ts:286` says the text shown is the text sent. It is built by the same
  function, of what is held at the time: a passage collected since the composer's last
  read goes along unseen, and a tab is read at the page it is on by then. Remove page
  and Clear likewise drop passages that are not listed yet.
- `options.ts:625` says of a check that failed that the bindings "are still correct on
  screen". After a correction they are not: its row is repainted by that check alone. What
  `TableIsCurrent` allows (`unseen`) is this and no more.
- Removing a surface leaves its page access and its cue as they are.

## Fairness

No user, failure or eviction is ever fair. Weak fairness is assumed of storage and
alarm calls (they settle), of timers and of continuations after them. Beyond that:

- `ClipQueueLive`: the alarm keeps calling the drain, a pause runs out. Trouble
  need not end; the property is about the runs in which it does.
- `FlushAlarm`: strong fairness of `EndFlush`, since a round goes over a snapshot
  and ends however often a pause starts and ends meanwhile; and of `AlarmFires`,
  since re-arming keeps the pause's own deadline and `ensureAlarm` leaves a
  countdown alone. An idle worker is evicted, an evicted one woken some day.
- `AgentRuns`: a run polled again and again comes to an outcome. The gateway drops
  it after ten minutes, and the loop gives up at the TTL if nothing else ends it.
- `ConnectionStore`: an answered request goes on to its mark.

The page modules, briefs, bindings, health and answers assume no fairness and claim no
liveness: there a step that never comes is a message never answered, or a body that
stalls, which the code bounds only for the headers of most requests.

## Proofs

`Worker_proofs` begins with `KeyedStore` and proves, for every set of edits, contents
and guard that satisfy `StoreAssumption`:

- `TypeCorrect`: `Spec => []TypeOK`.
- `SingleWriterHolds`: `Spec => []SingleWriter`.
- `Refinement`: `Spec => ImplementsAtomicStore`, with `value <- Guard[stored]`.
- `KeyIsSerial`: hence `Spec => Atomic!SerialSpec`, which is what the modules whose
  edits are one step take a store for.

The inductive invariant is `TypeOK /\ SingleWriter`. Neither part of `SingleWriter`
is inductive alone. `SnapshotIsCurrent` (the running link's snapshot is what
storage holds) needs the types. `ChainHoldsTheWaiting` (the waiting callers are
those on the chain, once each) is what makes the head of the chain an edit that
the abstract store can still commit, and what lets an eviction map to the
abstract one. Lemmas about `Append` and `Tail` say at which positions a chain holds
an edit; then there is one lemma per action with something to say. The refinement
maps `Submit`, `Write`, `Fail` and `Evict` to the abstract `Submit`, `Commit`, `Refuse`
and `Evict`, and `Read` to a stutter.

`ClipQueue_proofs` proves, for any clips, pages, cap and any number of drains and
retries that satisfy `ClipQueueAssumption`, `TypeCorrect`, `QueueShapeHolds`,
`NoDoubleDrainHolds`, `NeverResurrectedHolds` and `LossNeedsRaceHolds`. Its
invariant, `IInv`, adds to the properties:

- `Dated`, `InOrder`, `Held`: a clip gets its `queuedAt` when its handler queues it,
  once, and no two share one. Then nothing that has left the queue can be queued
  again, the oldest of a flush's entries is one and the same entry for as long as
  its list stands (`SameOldest`; `Oldest` is a `CHOOSE`), and the cap holds because
  the number of newer entries is an injection of `Newest(q, n)` into `0 .. n - 1`
  (`NewestAreFew`).
- `Attempts`: a flush at work has entries left, and one that was told "ok" was told
  so of a clip that is saved. So an entry that `Apply` takes out is saved, or replaced,
  or a newer clip of a page whose older clip was saved.
- `OneDrain`, `DrainedOnce`: what a drain was told is saved is off every list and
  out of the queue, except between the answer and its application.

`LiveImplements` says that `ClipQueueLive`, with its fairness and its end of trouble, is
still `ClipQueue`; so (`LiveKeepsQueueSafe`) the liveness run and these theorems are about one
system, and what `EventuallyDrained` makes leave the queue leaves it in one of these ways.

`FlushAlarm_proofs` proves, for any number of clips and popup messages at once, any
length and any number of faults, `TypeCorrect` and `WakeupHolds` (`WakeupLostOnlyToRace`).
That property speaks of a worker at rest and is not inductive. `SomebodyOwes` is: while
there is work, no alarm and nothing to blame, some task stands at a step from which it
goes on to look for the alarm. Every step that ends such a debt finds an alarm, arms one,
or is one of those that the property blames.

`ConnectionStore_proofs` proves, for any tokens, any requests and any length of the
chain, `TypeCorrect`, `LastGestureHolds`, `NoMarkLostHolds` and `ConnectionIsSerial`. `SnapshotIsCurrent`
says that only the head of the chain writes; `PairingsAreFresh` that the pairings
linked behind it bring tokens that are neither stored nor linked twice, so a
`Replace` never brings the stored token back with its marks blank; `NothingIsBlank`
that the record of no connection carries none. `ConnectionIsSerial` is the refinement of
`SerialStore`: a link's read is a stutter, its write the edit of the record as it stands,
since the snapshot it works on is that record still; a mark that finds no connection is
dropped, and `NothingIsBlank` says that one which writes has found one.

`RunStore_proofs` proves, for any runs, questions and budgets, `ShapeHolds` (one run per
question, at most `MAX_STORED_RUNS`, at most `MAX_STORED_TERM_RUNS` of terms) and
`EvictsInOrderHolds`: a write costs its question's last run and the oldest of a budget that
is full, never another. Both rest on what `At` and `KeepLast` make of a sequence, which is
a matter of counting: the n-th index of a set is the one with n of them up to it, no two
have as many, hence each number up to the set's size is had by one.

`AgentRuns_proofs` proves `TypeCorrect`, `BriefIsOursHolds`, `LinksAreItsOwnHolds` and, for
the store, `RefinesRunStore`: with its chain, polls, links and clears, each step of the worker
is one of `RunStore`'s or leaves the store alone. `BudgetsHold` is the first theorem of the
store carried over by that refinement. `BriefIsOurs` speaks of what is stored and is not
inductive. `IInv` follows an answer back: what is stored of another gateway has a clear
behind it (`StoredAreOurs`), so has such a write on the chain (`PutsAreOurs`), and a loop of
the present generation asks the present gateway, unless a change of pairing is under way
(`LoopsAreOurs`). The generation counts no more than the changes (`GenerationBehind`), so no
loop is of a generation to come. A write on the chain brings no links (`PutsAreOurs`), which
with the run that each link is resolved for is all that `LinksAreItsOwn` needs.

`Worker_proofs` has one invariant for each part of the worker, `WorkerSpec => [](which = part
=> Inv)`:

- `HealthInv` (`HealthIsRecentHolds`): while no body has stalled, the shared request of a
  gateway is that gateway's and no older than its timeout, and its waiters asked before now;
  so what comes of it, on its way to the cache or in it, is fresh.
- `RunsEvictInOrderHolds` is the store's theorem, for the store as the worker has it.
- `BriefsInv` (`UnloggedWasCutShortHolds`, `SavedIsNotedHolds`, `PassagesLeaveOnlySentHolds`,
  `ForeignRunNeedsRaceHolds`), for any number of briefs, calls and loops: a frame that
  brings a phase which tells of egress is of a run in the log already, and one that is before
  its log entry of a run with none (`Logged`), and a run that was accepted is in the log, about
  to be, or its call was cut short; what is to be forgotten is on record by then
  (`Recorded`); a run, and every frame that is about to put it, is of the stored pairing or
  excused (`Ours`).
- `LaneInv` (`ArmIsServedHolds`, `AnswerIsOfTheShownItemHolds`), for any changes of the gateway: what
  the index names alone now is among what it has named alone since the panel was opened, and a
  file's header is of a build that serves files (`HeaderIsFounded`); a lane whose arm needs a
  new gateway was offered by one (`OffersAreServed`); and a call keeps the page, the lane and
  the pick it was made with, and past its resolve has an item that is shown or was named alone
  (`CallsAreOffered`). A preferred arm needs none of this: it rests on the roster that was read
  for the question, and the build which that was read of.
- `BindInv` (`TableIsCurrentHolds`, `LastWordStandsHolds`), for any repositories, services,
  clicks, failures and evictions. For the store, `WordsFit`: what a repository was last told
  is being asked about, or is the last link of the chain for it, or is stored. For the
  table, `RowsFit`: a row is right, or a write of its repository or a list is still to be
  answered, or its correction was not seen. That needs `ListsFit`, since replies wait in
  an order: a list is right but for what the replies behind it say. `ChecksFit` is why the
  page's generation works: a check that it would still paint has read what is stored, and
  the page's writes since are of repositories that it was overtaken in. `UnseenFit`: what a
  correction left has a check of this generation coming, or one has failed.

`Answers_proofs` does it for the requests, `WorkerSpec => [](which = "answers" => AnswersInv)`,
for `RepliesAreUnderstoodHolds` and `NothingIsMadeUpHolds`. TLC goes through every answer to every
call; the proof says why it finds nothing, in the order in which a reply is made:

- Each client is fair to the answer it was given (`Fair`): a failure has one of that client's
  reasons, the answer stands for it, no value is with it, and only a whole account of a refusal
  is handed on; a value is of a good answer and as the pages expect it. One lemma per client,
  by cases on the status. What its parser lets through is compared with what the page's guard
  refuses there, member by member.
- Each handler's reply is honest (`Honest`: `Understood`, and grounded in `Evidence`), one lemma per
  handler. An answer that a handler has heard is an answer of its route (`AnswersType`).
- A lane's state outlives the request that brought it. `LaneIsTold` says that the answers kept with
  it stand for it, `RunIsTold` that those of a run that goes on are its acceptance and the last
  poll, so that the next poll, or giving up, may forget the others. A handler that has asked for
  a run found none (the fifth conjunct): what it stores replaces nothing.

`Page_proofs` does the same for the parts of the page:

- `OptionsInv` (`AmbientNeedsGrantHolds`), for any rows and patterns: wherever a cue is on
  without access, or a link on the chain is about to switch it on, a Revoke of that pattern
  comes behind it, from the browser or on the chain (`RevokesFollow`). It needs
  `GesturesDiffer`: a gesture is one handler's and one link's at most, so a handler that
  waits is waiting for its own.
- `SurfacesInv` (`CueIsOfThePageHolds`, `StaysQuietHolds`, `ClosedTabIsForgottenHolds`,
  `IntentReachesPanelHolds`): a generation
  is one run's at most; the run of the latest navigation is for the page's item; runs that
  may show one item know of each other (`OverlapsAreKnown`); what was sent away is what the
  worker has cued, or is about to note that it has (`QuietIsClaimed`); of a closed tab there
  is neither a generation nor a cue (`NothingOfTheClosed`), which is why a run that outlives
  it notes nothing (`ClosedTabIsForgottenHolds`).
- `ComposerInv` (`WhatLeavesWasShownHolds`): a tab stands where a list named it, and a page
  has the passages that a list had, but for what is newer than the list (`ListFits`); the
  preview is of the list and picks on the screen (`PreviewFits`); what a pick will be
  resolved to, and what has been fed, was shown or is newer (`StartFits`).
- `LanesInv` (`AnswersThisPageHolds`, `NoStrayWorkHolds`, `LastIntentWinsHolds`): a message of the
  present generation is about the page (`MessagesFit`), a lane has one of its runs at most
  and is in flight then (`FlightsFit`), a closed panel has no timer and no parked intent, and
  what may still be carried out is one intent, later than the last that was
  (`IntentsInOrder`). `applied` is the history of what was carried out, in turn; that it
  increases, with no intent in it twice, follows from the last.
- `HeaderInv` (`OneFetchAtATimeHolds`, `ClipIsOfThePageHolds`, `RefusalLeavesOfferHolds`): what is
  under way and the pending copy are of the page's address, a fetch is under way or at work
  and one, captures are one step at a time, fetch, capture and resolve come one after the
  other (`TurnsFit`), and the screen is what the panel would paint, or a preview that will be
  turned away, or has nothing to click while only an answer helps (`ScreenFits`). The last is
  what makes a click on an old screen harmless.

The `TypeCorrect` theorems, `ShapeHolds` and the type part of each of these invariants stand for
the type invariants of those modules; no run repeats them. TLC has checked each inductive
invariant on the run's instance. The assumptions on constants are `StoreAssumption`,
`RunStoreAssumption`, `ClipQueueAssumption`, `ConnectionAssumption`, `FlushAlarmAssumption`,
`AgentRunsAssumption`, `WorkerAssumption`, `LanesAssumption` and `PageAssumption`, which TLC evaluates in
the runs. They say what sort of thing a constant is, that the "no such" values are not
among the others, that a budget has a place and that somebody may ask something (`Keys # {}`;
without a question there is no chain to speak of). Two say more. `LanesAssumption` has every
build from the floor on, and every development build, serve the item arm: that is what the code
takes the floor to mean. `PageAssumption` gives each address one of four kinds, which is what
recognising it comes to. No bound of a run (`MaxChain`, `MaxEvents`, …) is a bound of a theorem.

Only model-checked: `EveryCallSettles`, `RejectionShows`, `EventuallyDrained`, `WorkIsFound`,
`IdleWakeupsStop` and `NoSilentSpinner`, liveness under fairness, which is beyond the prover. Every
invariant and every action property of a passing run is a theorem; `QueueShapeAtCap`, which takes
two caps, is `QueueShapeHolds` for any.

No module that is proved about uses recursion.

## Not modelled

- Popup, palette, menus and quick clip: views over messages whose handlers are modelled,
  and a capture that `PanelHeader` has in its harder form. The palette's and the menus'
  intents are `Surfaces`'.
- Recognition of a URL, canonical addresses, parsing of versions, retry-after and dates,
  chunking of ids: pure functions over strings; where control depends on them, their
  outcome is a choice.
- The panel's findings and the report, ledger and DORA pages: rendering. Of the run
  store, the byte cap and the shape guards of findings: they decide what an entry
  shows, not which entries exist.
- The guards of requests: a page and the worker are built together, and what a page
  sends is well-formed. Replies hold what a gateway said, so their guards are modelled.
- Timeouts that end with the headers: a body that stalls is in `Wire`, `GatewayClients` and
  `ConnectorHealth`, but that every request is answered is no property of this code.
- The composer's index toggle, the preview setting's page, shortcuts, Discover: a
  single write or read of one setting.
- Capture in the page, views, manifests, build output.

## Plan

1. Proofs: each safety property that a run checks is proved. `KeyedStore` and
   `ConnectionStore` are proved to be serial stores; `Bindings` and `AgentRuns` have chains whose
   links are one step already, and could be stated as such.
2. Compositions: `FlushAlarm` over `ClipQueue`'s queue; the change of pairing over
   connection, runs and briefs; `PanelLanes` and `PanelHeader` as one closure.
3. Pure algorithms against reference definitions: grouping of passages, canonical
   URLs, the queue's operators.
4. The popup with its two captures at once, and the palette.
