----------------------------- MODULE BriefRuns -----------------------------
(***************************************************************************)
(* Research briefs: a run is created at the gateway, fed its sources one   *)
(* by one, run, polled and saved.  It is kept in a store by phase; what    *)
(* left the machine is kept in a disclosure log; the collected passages    *)
(* it was fed are forgotten.  A run is polled by the call that started it  *)
(* and by a loop in the worker.                                            *)
(*                                                                         *)
(* Each edit of a store is one step (KeyedStore).  A phase is not written  *)
(* by one edit but by a read and, later, a put (putPhase).  The alarm that *)
(* resumes the loops of an evicted worker is taken to fire at any time; an *)
(* entry past its TTL, which every read passes over, to be gone.           *)
(***************************************************************************)
EXTENDS LastWrites, Naturals, Sequences, SequencesExt, FiniteSets

CONSTANTS
    Runs,         \* the brief runs that may be started
    Passages,     \* the passages that may be collected
    Pages,        \* the pages a source may come from
    PageOf,       \* the page of each passage
    MaxSources,   \* BRIEF_CAPS.maxSources, also the pages the collection holds
    MaxStored,    \* MAX_STORED_BRIEFS
    MaxAtOnce,    \* bound: runs being started, polled or saved at once
    MaxChanges,   \* bound: changes of pairing
    MaxFaults     \* bound: evictions, rejected calls and entries past their TTL

VARIABLES
    store,       \* the stored runs, the oldest write first
    log,         \* what the disclosure log was told of each run, kept or not (BriefLog)
    passage,     \* what has become of each passage
    frame,       \* where the start call and the poll loop of each run stand
    feed,        \* the sources each start call has to feed and has fed
    save,        \* where the save call of each run stands
    pairing,     \* the pairing stored, 0 for none
    changes,     \* the changes of pairing so far
    generation,  \* pairingGeneration
    changing,    \* how far a change of pairing has got
    faults,      \* the faults so far
    owner,       \* history: the pairing each run was created under
    recorded,    \* history: the passages in the sources such a run was fed
    left,        \* history: "sent" once the gateway has accepted a run, "cut" if the
                 \* start call came to no log entry after that
    unclear,     \* history: the last clear of a change of pairing was lost
    straddling   \* history: the runs read before a clear to be put after it

stores == <<store, log, passage>>
calls == <<frame, feed, save>>
change == <<pairing, changes, generation, changing>>
history == <<owner, recorded, left, unclear, straddling>>
vars == <<stores, calls, change, faults, history>>

\* A handler that starts a brief, and the loop that follows one in the worker.
Frames == Runs \X {"start", "loop"}
Off == [pc |-> "off", conn |-> 0, gen |-> 0, out |-> "failed"]
Over == [Off EXCEPT !.pc = "over"]

NoFeed == [todo |-> {}, read |-> {}, fed |-> {}, sent |-> {}, accepted |-> FALSE]
Init ==
    /\ store = <<>>
    /\ log = [r \in Runs |-> "nothing"]
    /\ passage = [p \in Passages |-> "new"]
    /\ frame = [f \in Frames |-> Off]
    /\ feed = [r \in Runs |-> NoFeed]
    /\ save = [r \in Runs |-> "off"]
    /\ pairing = 1 /\ changes = 0 /\ generation = 0 /\ changing = "no"
    /\ faults = 0
    /\ owner = [r \in Runs |-> 0] /\ recorded = {}
    /\ left = [r \in Runs |-> "no"]
    /\ straddling = {} /\ unclear = FALSE

----------------------------------------------------------------------------
\* The stores.

Stored == ToSet(store)
Found(r) == \E e \in Stored : e.run = r

\* The store without a run.
Without(r) == At(store, {i \in DOMAIN store : store[i].run # r})

\* A run is stored in place of what it was stored as, n of the others having been
\* written later; over the cap, the run written longest ago goes.
PutAt(r, phase, n) ==
    LET q == InsertAt(Without(r), Len(Without(r)) + 1 - n, [run |-> r, phase |-> phase])
    IN  KeepLast(q, DOMAIN q, MaxStored)

\* A run that was read is put back, and its time is that of the read: what others
\* have put since counts as written later.
PutBack(r, phase) == \E n \in 0 .. Len(Without(r)) : store' = PutAt(r, phase, n)

On(page) == {p \in Passages : PageOf[p] = page}
Held == {p \in Passages : passage[p] = "held"}

----------------------------------------------------------------------------
\* The frames.

IsLoop(f) == f[2] = "loop"
Moved(f) == IsLoop(f) /\ frame[f].gen # generation

Go(f, pc) == frame' = [frame EXCEPT ![f].pc = pc]
GoFor(f, pc, out) == frame' = [frame EXCEPT ![f].pc = pc, ![f].out = out, ![f].conn = 0]

\* The frame has come to its end, or it has thrown.
Ended(f) == IF IsLoop(f) THEN Off ELSE Over
End(f) == frame' = [frame EXCEPT ![f] = Ended(f)]

\* The runs with a call or a loop in progress.
Busy == {r \in Runs : frame[<<r, "start">>].pc \notin {"off", "over"}
                       \/ frame[<<r, "loop">>].pc # "off" \/ save[r] # "off"}

\* A run that is announced as running gets a loop, if it has none.
WithLoop(fs, r) ==
    IF fs[<<r, "loop">>].pc # "off" THEN fs
    ELSE [fs EXCEPT ![<<r, "loop">>] = [Off EXCEPT !.pc = "waiting", !.gen = generation]]

----------------------------------------------------------------------------
\* Starting a brief.

\* The picks are resolved against the open tabs and the collection as it is
\* now, one source to a page, in either mode.
Start(r, tabs, pages) ==
    /\ frame[<<r, "start">>].pc = "off"
    /\ Cardinality(Busy) < MaxAtOnce
    /\ pairing # 0
    /\ tabs \intersect pages = {} /\ tabs \union pages # {}
    /\ Cardinality(tabs \union pages) <= MaxSources
    /\ \A g \in pages : On(g) \intersect Held # {}
    /\ frame' = [frame EXCEPT ![<<r, "start">>] =
                    [Off EXCEPT !.pc = "creating", !.conn = pairing]]
    /\ feed' = [feed EXCEPT ![r] =
                   [NoFeed EXCEPT !.todo = (tabs \X {"tab"}) \union (pages \X {"passages"}),
                                  !.read = {p \in Held : PageOf[p] \in pages}]]
    /\ UNCHANGED <<stores, save, change, faults, history>>

\* The gateway creates the run, or refuses.
Created(r) ==
    /\ frame[<<r, "start">>].pc = "creating"
    /\ \/ /\ Go(<<r, "start">>, "storing")
          /\ owner' = [owner EXCEPT ![r] = frame[<<r, "start">>].conn]
          /\ UNCHANGED feed
       \/ /\ End(<<r, "start">>)
          /\ feed' = [feed EXCEPT ![r] = NoFeed]
          /\ UNCHANGED owner
    /\ UNCHANGED <<stores, save, change, faults, recorded, left, unclear, straddling>>

StoreRun(r) ==
    /\ frame[<<r, "start">>].pc = "storing"
    /\ Go(<<r, "start">>, "feeding")
    /\ store' = PutAt(r, "feeding", 0)
    /\ UNCHANGED <<log, passage, feed, save, change, faults, history>>

\* Bug: what is fed counts as the whole page, as it is by then.
MutantFedBy(r, g) == On(g) \intersect Held

\* The passages an accepted source stitched together: those read at the start.
FedBy(r, g) == feed[r].read \intersect On(g)

\* A source is skipped, unreadable or refused; it is accepted, whole or, which
\* only a corrupted collection leads to, cut; or the run is full and feeding ends.
Feed(r) ==
    /\ frame[<<r, "start">>].pc = "feeding"
    /\ \E s \in feed[r].todo :
          LET rest == [feed[r] EXCEPT !.todo = @ \ {s}]
              whole == feed[r].read \intersect On(s[1])
          IN  \/ feed' = [feed EXCEPT ![r] = rest]
              \/ feed' = [feed EXCEPT ![r] = [rest EXCEPT !.accepted = TRUE]]
              \/ /\ s[2] = "passages"
                 /\ feed' = [feed EXCEPT ![r] = [rest EXCEPT !.accepted = TRUE,
                                                             !.sent = @ \union whole,
                                                             !.fed = @ \union FedBy(r, s[1])]]
              \/ feed' = [feed EXCEPT ![r].todo = {}]
    /\ UNCHANGED <<stores, frame, save, change, faults, history>>

Fed(r) ==
    /\ frame[<<r, "start">>].pc = "feeding"
    /\ feed[r].todo = {}
    /\ IF feed[r].accepted
       THEN GoFor(<<r, "start">>, "starting", "running")
       ELSE GoFor(<<r, "start">>, "reading", "failed")
    /\ feed' = [feed EXCEPT ![r] = [NoFeed EXCEPT !.fed = feed[r].fed, !.sent = feed[r].sent]]
    /\ UNCHANGED <<stores, save, change, faults, history>>

\* Bug: the run is marked as running before the log has it.
MutantAccepted(r) ==
    /\ frame[<<r, "start">>].pc = "starting"
    /\ \/ /\ Go(<<r, "start">>, "logging")
          /\ left' = [left EXCEPT ![r] = "sent"]
          /\ store' = PutAt(r, "running", 0)
          /\ UNCHANGED feed
       \/ /\ GoFor(<<r, "start">>, "reading", "failed")
          /\ feed' = [feed EXCEPT ![r] = NoFeed]
          /\ UNCHANGED <<store, left>>
    /\ UNCHANGED <<log, passage, save, change, faults, owner, recorded, unclear, straddling>>

\* /run is accepted: this is when the text has left.  Or it is refused, or not
\* answered, which is taken for a refusal, whatever the gateway has done.
Accepted(r) ==
    /\ frame[<<r, "start">>].pc = "starting"
    /\ \/ /\ Go(<<r, "start">>, "logging")
          /\ left' = [left EXCEPT ![r] = "sent"]
          /\ UNCHANGED feed
       \/ /\ GoFor(<<r, "start">>, "reading", "failed")
          /\ feed' = [feed EXCEPT ![r] = NoFeed]
          /\ \E what \in {"no", "cut"} : left' = [left EXCEPT ![r] = what]
    /\ UNCHANGED <<stores, save, change, faults, owner, recorded, unclear, straddling>>

AppendLog(r) ==
    /\ frame[<<r, "start">>].pc = "logging"
    /\ log' = [log EXCEPT ![r] = "unsaved"]
    /\ recorded' = recorded \union feed[r].sent
    /\ Go(<<r, "start">>, IF feed[r].fed = {} THEN "reading" ELSE "forgetting")
    /\ UNCHANGED <<store, passage, feed, save, change, faults, owner, left, unclear,
                   straddling>>

\* What was fed is forgotten, in one edit; if that is refused, all is kept.
Forget(r) ==
    /\ frame[<<r, "start">>].pc = "forgetting"
    /\ \/ passage' = [p \in Passages |-> IF p \in feed[r].fed \intersect Held
                                         THEN "forgotten" ELSE passage[p]]
       \/ UNCHANGED passage
    /\ Go(<<r, "start">>, "reading")
    /\ feed' = [feed EXCEPT ![r] = NoFeed]
    /\ UNCHANGED <<store, log, save, change, faults, history>>

----------------------------------------------------------------------------
\* Settling: what the start call and the loop do alike.

\* The phase is in place, or there was no run to have one.  A run just started
\* is announced, which starts its loop, and polled.
Marked(f) ==
    IF frame[f].out # "running" THEN End(f)
    ELSE frame' = WithLoop([frame EXCEPT ![f].pc = "asking", ![f].conn = owner[f[1]]], f[1])

\* Bug: the phase is put without a look whether there still is such a run.
MutantReadRun(f) ==
    /\ frame[f].pc = "reading"
    /\ Go(f, "writing")
    /\ UNCHANGED <<stores, feed, save, change, faults, history>>

ReadRun(f) ==
    /\ frame[f].pc = "reading"
    /\ IF Found(f[1]) THEN Go(f, "writing") ELSE Marked(f)
    /\ UNCHANGED <<stores, feed, save, change, faults, history>>

WriteRun(f) ==
    /\ frame[f].pc = "writing"
    /\ PutBack(f[1], frame[f].out)
    /\ Marked(f)
    /\ UNCHANGED <<log, passage, feed, save, change, faults, history>>

\* The gateway answers a poll: not yet; the outcome, which only the one that has
\* the run knows and which is noted in the log; or an error, which is an outcome
\* as well.
Polled(f) ==
    /\ frame[f].pc = "asking"
    /\ \/ /\ ~IsLoop(f)
          /\ frame' = WithLoop([frame EXCEPT ![f] = Over], f[1])
       \/ /\ IsLoop(f)
          /\ IF Moved(f) THEN End(f)
             ELSE frame' = [frame EXCEPT ![f].pc = "waiting", ![f].conn = 0]
       \/ /\ frame[f].conn = owner[f[1]]
          /\ \E out \in {"done", "failed"} : GoFor(f, "reading", out)
       \/ GoFor(f, "reading", "failed")
    /\ UNCHANGED <<stores, feed, save, change, faults, history>>

\* The loop's timer fires: its generation, the connection and the store are read.
Tick(f) ==
    /\ IsLoop(f) /\ frame[f].pc = "waiting"
    /\ IF Moved(f) \/ pairing = 0 \/ ~Found(f[1]) THEN End(f)
       ELSE frame' = [frame EXCEPT ![f].pc = "asking", ![f].conn = pairing]
    /\ UNCHANGED <<stores, feed, save, change, faults, history>>

\* The alarm's handler gives a running run without a loop one that is due.
Resume(r) ==
    /\ [run |-> r, phase |-> "running"] \in Stored
    /\ frame[<<r, "loop">>].pc = "off"
    /\ frame' = WithLoop(frame, r)
    /\ UNCHANGED <<stores, feed, save, change, faults, history>>

\* A write of a store rejects: the call gives up.
CallFails(f) ==
    /\ faults < MaxFaults /\ faults' = faults + 1
    /\ frame[f].pc \in {"storing", "logging", "reading", "writing"}
    /\ End(f)
    /\ feed' = IF IsLoop(f) THEN feed ELSE [feed EXCEPT ![f[1]] = NoFeed]
    /\ left' = IF frame[f].pc = "logging" THEN [left EXCEPT ![f[1]] = "cut"] ELSE left
    /\ UNCHANGED <<stores, save, change, owner, recorded, unclear, straddling>>

----------------------------------------------------------------------------
\* The user: saving, collecting and removing passages.

\* A brief that is read as done is saved at the gateway that has it; another
\* would refuse.
Save(r) ==
    /\ save[r] = "off"
    /\ Cardinality(Busy \ {r}) < MaxAtOnce
    /\ pairing # 0 /\ pairing = owner[r]
    /\ [run |-> r, phase |-> "done"] \in Stored
    /\ save' = [save EXCEPT ![r] = "posting"]
    /\ UNCHANGED <<stores, frame, feed, change, faults, history>>

Posted(r) ==
    /\ save[r] = "posting"
    /\ \E pc \in {"noting", "off"} : save' = [save EXCEPT ![r] = pc]
    /\ UNCHANGED <<stores, frame, feed, change, faults, history>>

\* Bug: the run is put first and noted later, were the worker still there.
MutantNoteSaved(r) ==
    /\ save[r] = "noting"
    /\ save' = [save EXCEPT ![r] = "putting"]
    /\ PutBack(r, "saved")
    /\ UNCHANGED <<log, passage, frame, feed, change, faults, history>>

\* The run's entry learns of the saved item.
NoteSaved(r) ==
    /\ save[r] = "noting"
    /\ save' = [save EXCEPT ![r] = "putting"]
    /\ log' = [log EXCEPT ![r] = "saved"]
    /\ UNCHANGED <<store, passage, frame, feed, change, faults, history>>

\* The run is put back as it was read at the click, before the POST, with its saved
\* item.
PutSaved(r) ==
    /\ save[r] = "putting"
    /\ save' = [save EXCEPT ![r] = "off"]
    /\ PutBack(r, "saved")
    /\ UNCHANGED <<log, passage, frame, feed, change, faults, history>>

\* A passage is collected, unless it is of one page too many.
Collect(p) ==
    /\ passage[p] = "new"
    /\ \/ On(PageOf[p]) \intersect Held # {}
       \/ Cardinality({PageOf[q] : q \in Held}) < MaxSources
    /\ passage' = [passage EXCEPT ![p] = "held"]
    /\ UNCHANGED <<store, log, calls, change, faults, history>>

\* One passage, a page's, or all are removed in the composer.
Drop(ps) ==
    /\ ps \in {{p} : p \in Held} \union {On(g) \intersect Held : g \in Pages} \union {Held}
    /\ ps # {}
    /\ passage' = [p \in Passages |-> IF p \in ps THEN "dropped" ELSE passage[p]]
    /\ UNCHANGED <<store, log, calls, change, faults, history>>

----------------------------------------------------------------------------
\* A change of pairing, and the worker's end.

ChangePairing ==
    /\ changing = "no"
    /\ changes < MaxChanges
    /\ changes' = changes + 1
    /\ \/ pairing' = changes + 2
       \/ pairing # 0 /\ pairing' = 0
    /\ changing' = "bumping"
    /\ UNCHANGED <<stores, calls, generation, faults, history>>

\* The generation moves; the agent runs are cleared first, and if that rejects
\* the briefs are not.
Bump ==
    /\ changing = "bumping"
    /\ generation' = generation + 1
    /\ \/ changing' = "clearing" /\ UNCHANGED <<faults, unclear>>
       \/ /\ faults < MaxFaults /\ faults' = faults + 1
          /\ changing' = "no" /\ unclear' = TRUE
    /\ UNCHANGED <<stores, calls, pairing, changes, owner, recorded, left, straddling>>

\* The calls that have read the run, or have it from the gateway, and have its
\* entry still to put.
Putting(r) ==
    \/ \E f \in {<<r, "start">>, <<r, "loop">>} : frame[f].pc = "writing"
    \/ frame[<<r, "start">>].pc \in {"creating", "storing"}
    \/ save[r] # "off"

ClearRuns ==
    /\ changing = "clearing"
    /\ changing' = "no"
    /\ \/ /\ store' = <<>>
          /\ unclear' = FALSE /\ straddling' = {r \in Runs : Putting(r)}
          /\ UNCHANGED faults
       \/ /\ faults < MaxFaults /\ faults' = faults + 1
          /\ unclear' = TRUE
          /\ UNCHANGED <<store, straddling>>
    /\ UNCHANGED <<log, passage, calls, pairing, changes, generation, owner, recorded, left>>

\* An entry outlives its TTL.
Lapse(r) ==
    /\ faults < MaxFaults /\ faults' = faults + 1
    /\ Found(r)
    /\ store' = Without(r)
    /\ UNCHANGED <<log, passage, calls, change, history>>

\* The worker is evicted; a write under way may land all the same, and a /run that
\* was not answered may have been accepted.
Evict ==
    /\ faults < MaxFaults /\ faults' = faults + 1
    /\ \/ UNCHANGED store
       \/ \E f \in Frames : frame[f].pc = "writing" /\ PutBack(f[1], frame[f].out)
    /\ \E taken \in SUBSET {r \in Runs : frame[<<r, "start">>].pc = "starting"} :
          left' = [r \in Runs |-> IF r \in taken \/ frame[<<r, "start">>].pc = "logging"
                                  THEN "cut" ELSE left[r]]
    /\ frame' = [f \in Frames |-> IF frame[f].pc = "off" THEN Off ELSE Ended(f)]
    /\ feed' = [r \in Runs |-> NoFeed]
    /\ save' = [r \in Runs |-> "off"]
    /\ generation' = 0 /\ changing' = "no"
    /\ unclear' = (unclear \/ changing # "no")
    /\ UNCHANGED <<log, passage, pairing, changes, owner, recorded, straddling>>

StartCall(r) ==
    \/ \E tabs, pages \in SUBSET Pages : Start(r, tabs, pages)
    \/ Created(r) \/ StoreRun(r) \/ Feed(r) \/ Fed(r) \/ Accepted(r) \/ AppendLog(r)
    \/ Forget(r)

SaveCall(r) == Save(r) \/ Posted(r) \/ NoteSaved(r) \/ PutSaved(r)

Settling(f) == ReadRun(f) \/ WriteRun(f) \/ Polled(f) \/ Tick(f) \/ CallFails(f)

Next ==
    \/ \E r \in Runs : StartCall(r) \/ SaveCall(r) \/ Resume(r) \/ Lapse(r)
    \/ \E f \in Frames : Settling(f)
    \/ \E p \in Passages : Collect(p)
    \/ \E ps \in SUBSET Passages : Drop(ps)
    \/ ChangePairing \/ Bump \/ ClearRuns
    \/ Evict

Spec == Init /\ [][Next]_vars

----------------------------------------------------------------------------
\* What has left has an entry, from when the call that sent it is past the log:
\* "when /run is accepted, which is the moment of egress ... so it still gets an
\* entry", and a run that failed before has sent nothing (brief-handlers.ts:512-525).
\* It is not so: a lost answer to /run, an append that rejects or an eviction before
\* it leave a run accepted and unrecorded.
EgressIsLogged ==
    \A r \in Runs : left[r] # "no" => log[r] # "nothing" \/ frame[<<r, "start">>].pc = "logging"

\* Egress without an entry is of a start call that was cut short between the two,
\* and nothing that is shown tells of it: a run stored as running or past it was
\* entered before, whatever fails in between (brief-handlers.ts:506-528).
UnloggedWasCutShort ==
    /\ \A r \in Runs : left[r] = "sent" =>
                         log[r] # "nothing" \/ frame[<<r, "start">>].pc = "logging"
    /\ \A e \in Stored : e.phase \in {"running", "done", "saved"} => log[e.run] # "nothing"

\* No passage is lost: what the user did not remove is held, unless it was in a
\* source that the gateway accepted, of a run that is on record
\* (brief-handlers.ts:29-38, 212-236).
PassagesLeaveOnlySent ==
    \A p \in Passages : passage[p] = "forgotten" => p \in recorded

\* A brief the extension shows as saved is never listed as unsaved egress: its
\* entry learns of the item before the run does, whatever fails in between
\* (brief-handlers.ts:579-594).
SavedIsNoted ==
    \A e \in Stored : e.phase = "saved" => log[e.run] = "saved"

\* After a change of pairing no run of the gateway before is in the store,
\* unless its clear was lost or one of the run's calls stood between what it
\* read and its put (service-worker.ts:1139-1158).
ForeignRunNeedsRace ==
    changing = "no" =>
        \A e \in Stored : owner[e.run] = pairing \/ unclear \/ e.run \in straddling
=============================================================================
