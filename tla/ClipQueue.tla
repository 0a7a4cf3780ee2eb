----------------------------- MODULE ClipQueue -----------------------------
(***************************************************************************)
(* The offline clip queue and everyone who edits it: the clip pipeline     *)
(* that fills it (handleClip), the flush that drains it (flushQueue, run   *)
(* by the background drain and by the popup's retry), the popup's remove,  *)
(* and the eviction of the worker that runs them.                          *)
(*                                                                         *)
(* A step ends where the code awaits the gateway or storage, so a page may *)
(* be clipped, retried or removed while a POST of it is on its way.  Each  *)
(* edit of the queue is one step: that is what KeyedStore's promise chain  *)
(* provides.  The badge and the alarm that wake the drain are FlushAlarm.  *)
(***************************************************************************)
EXTENDS Naturals, FiniteSets

CONSTANTS
    Clips,      \* the clips the user makes
    Urls,       \* the pages they are made of
    Url,        \* Url[c]: the page clip c is made of
    AnyUrl,     \* a flush that is not asked for one page
    MaxQueue,   \* MAX_QUEUE
    Drains,     \* the triggers of the background drain: alarm, cold start
    Retries     \* the popup's retry messages

ASSUME ClipQueueAssumption ==
    /\ Url \in [Clips -> Urls]
    /\ AnyUrl \notin Urls
    /\ MaxQueue \in Nat \ {0}
    /\ Drains \cap Retries = {}

VARIABLES
    queue,      \* the entries in storage, oldest first by queuedAt
    queuedAt,   \* when each clip was queued, 0 if it never was
    clock,      \* the latest queuedAt
    terminal,   \* entries whose lastReason is invalid_request or payload_too_large
    clip,       \* where each clip's handler stands
    flush,      \* where each flush stands
    paused,     \* the rate-limit pause is in force
    paired,     \* a connection is stored
    saved,      \* the clips the gateway holds
    drained,    \* those it told a drain of this worker that it holds
    released    \* the entries the user removed, or that made room for another

store == <<queue, queuedAt, clock, terminal>>
history == <<saved, drained, released>>
vars == <<store, clip, flush, paused, paired, history>>

Flushers == Drains \union Retries

\* ClipError, with 400 and 413 as "refused": no control depends on which.
Transient == {"unreachable", "server_error", "rate_limited"}
Stopping == {"unreachable", "unauthorized", "rate_limited"}
Answers == Transient \union {"ok", "unauthorized", "refused"}

Stage == {"new", "posting", "queueing", "queued", "saved", "unsaved"}

Idle == [pc |-> "idle", url |-> AnyUrl, todo |-> {}, result |-> "ok"]

TypeOK ==
    /\ queue \subseteq Clips
    /\ queuedAt \in [Clips -> Nat]
    /\ clock \in Nat
    /\ terminal \subseteq queue
    /\ clip \in [Clips -> Stage]
    /\ flush \in [Flushers -> [pc     : {"idle", "reading", "posting", "applying"},
                               url    : Urls \union {AnyUrl},
                               todo   : SUBSET Clips,
                               result : Answers]]
    /\ paused \in BOOLEAN /\ paired \in BOOLEAN
    /\ saved \subseteq Clips /\ drained \subseteq Clips /\ released \subseteq Clips

Init ==
    /\ queue = {} /\ terminal = {}
    /\ queuedAt = [c \in Clips |-> 0] /\ clock = 0
    /\ clip = [c \in Clips |-> "new"]
    /\ flush = [f \in Flushers |-> Idle]
    /\ paused = FALSE
    /\ paired \in BOOLEAN
    /\ saved = {} /\ drained = {} /\ released = {}

----------------------------------------------------------------------------
\* The queue's pure operations (shared/queue.ts).

AtUrl(q, u) == {c \in q : Url[c] = u}

Oldest(q) == CHOOSE c \in q : \A d \in q : queuedAt[c] <= queuedAt[d]

\* The n entries of q queued last.
Newest(q, n) == {c \in q : Cardinality({d \in q : queuedAt[d] > queuedAt[c]}) < n}

\* Bug: the clip is pushed without taking its page's older entry out.
MutantEnqueue(q, c) == Newest(q, MaxQueue - 1) \union {c}

\* Bug: off by one at the cap, room is made for the clip one entry too late.
MutantEnqueueOver(q, c) == Newest(q \ AtUrl(q, Url[c]), MaxQueue) \union {c}

\* Bug: at the cap it is the clip that is dropped, not the oldest entry.
MutantEnqueueDropsNew(q, c) ==
    LET others == q \ AtUrl(q, Url[c])
    IN  IF Cardinality(others) < MaxQueue THEN others \union {c} ELSE others

\* Clip c is queued last, in place of an older clip of its page.
enqueue(q, c) == Newest(q \ AtUrl(q, Url[c]), MaxQueue - 1) \union {c}

\* The page's entry is taken out, whichever clip it is by now.
removeFromQueue(q, u) == q \ AtUrl(q, u)

\* The entries that a failure of page u leaves marked terminal.
markAttempt(q, u, reason) ==
    IF reason = "refused" THEN terminal \union AtUrl(q, u)
                          ELSE terminal \ AtUrl(q, u)

----------------------------------------------------------------------------
\* What a POST of clip c that is answered r leaves behind: an answer that never
\* arrives, or arrives unreadable, says nothing of what the gateway did.
Deliver(c, r) ==
    \/ r \in {"ok", "unreachable", "server_error"} /\ saved' = saved \union {c}
    \/ r # "ok" /\ UNCHANGED saved

\* The seam every POST goes through: a 2xx ends the pause and a 429 starts one,
\* unless the storage write fails, which is swallowed.
PaceBy(r) ==
    \/ UNCHANGED paused
    \/ r = "ok" /\ paused' = FALSE
    \/ r = "rate_limited" /\ paused' = TRUE

\* A clip is made: its handler reads the connection and POSTs at once.
StartClip(c) ==
    /\ clip[c] = "new"
    /\ clip' = [clip EXCEPT ![c] = IF paired THEN "posting" ELSE "unsaved"]
    /\ UNCHANGED <<store, flush, paused, paired, history>>

\* The gateway answers, or does not.
AnswerClip(c, r) ==
    /\ clip[c] = "posting"
    /\ Deliver(c, r)
    /\ PaceBy(r)
    /\ clip' = [clip EXCEPT ![c] = IF r = "ok" THEN "saved"
                                   ELSE IF r \in Transient THEN "queueing"
                                   ELSE "unsaved"]
    /\ UNCHANGED <<store, flush, paired, drained, released>>

\* The queue is written with clip c in it; the rest of what it held is gone.
Store(c, q) ==
    /\ queue' = q
    /\ terminal' = terminal \cap q
    /\ queuedAt' = [queuedAt EXCEPT ![c] = clock + 1]
    /\ clock' = clock + 1
    /\ released' = released \union ((queue \ q) \ AtUrl(queue, Url[c]))

\* A transient failure queues the clip; under storage pressure the queue's
\* oldest entry makes way for it, or it is not queued at all.
QueueClip(c) ==
    /\ clip[c] = "queueing"
    /\ LET desired == enqueue(queue, c)
           older == desired \ {c}
       IN  \/ Store(c, desired) /\ clip' = [clip EXCEPT ![c] = "queued"]
           \/ /\ Cardinality(desired) > Cardinality(queue)
              /\ older # {}
              /\ Store(c, desired \ {Oldest(older)})
              /\ clip' = [clip EXCEPT ![c] = "queued"]
           \/ clip' = [clip EXCEPT ![c] = "unsaved"] /\ UNCHANGED <<store, released>>
    /\ UNCHANGED <<flush, paused, paired, saved, drained>>

----------------------------------------------------------------------------
\* Bug: the drain is not single-flight.
MutantStartDrain(d) ==
    /\ paired
    /\ flush[d].pc = "idle"
    /\ flush' = [flush EXCEPT ![d].pc = "reading"]
    /\ UNCHANGED <<store, clip, paused, paired, history>>

\* The alarm or the cold start calls the single-flight drain; while one is in
\* flight a call joins it.  Without a connection it returns.
StartDrain(d) ==
    /\ paired
    /\ \A e \in Drains : flush[e].pc = "idle"
    /\ flush' = [flush EXCEPT ![d].pc = "reading"]
    /\ UNCHANGED <<store, clip, paused, paired, history>>

\* The popup retries one page, or everything.
StartRetry(f, u) ==
    /\ paired
    /\ flush[f].pc = "idle"
    /\ flush' = [flush EXCEPT ![f].pc = "reading", ![f].url = u]
    /\ UNCHANGED <<store, clip, paused, paired, history>>

\* The entries a flush will attempt: a retry those it is asked for, a drain
\* those that can still fix themselves, and none while the pause is in force.
Wanted(f) ==
    IF f \in Retries
    THEN {c \in queue : flush[f].url \in {AnyUrl, Url[c]}}
    ELSE IF paused THEN {} ELSE queue \ terminal

\* The next POST of the entries left goes out, or the flush is done.
Continue(f, todo) ==
    flush' = [flush EXCEPT
                 ![f] = IF todo = {} THEN Idle
                        ELSE [Idle EXCEPT !.pc = "posting", !.todo = todo]]

\* A flush reads the queue and the pause.
ReadQueue(f) ==
    /\ flush[f].pc = "reading"
    /\ Continue(f, Wanted(f))
    /\ UNCHANGED <<store, clip, paused, paired, history>>

\* The entry a flush is posting, the oldest it has left.
Current(f) == Oldest(flush[f].todo)

\* The gateway answers a flush's POST, or does not.
AnswerFlush(f, r) ==
    /\ flush[f].pc = "posting"
    /\ Deliver(Current(f), r)
    /\ PaceBy(r)
    /\ flush' = [flush EXCEPT ![f].pc = "applying", ![f].result = r]
    /\ drained' = IF f \in Drains /\ r = "ok" THEN drained \union {Current(f)}
                                              ELSE drained
    /\ UNCHANGED <<store, clip, paired, released>>

\* Bug: the flush writes back what it read, with the attempt applied.
MutantApply(f) ==
    LET c == Current(f)
        r == flush[f].result
        todo == flush[f].todo
    IN  /\ flush[f].pc = "applying"
        /\ queue' = IF r = "ok" THEN queue \ AtUrl(queue, Url[c]) ELSE queue \union todo
        /\ terminal' = (IF r = "ok" THEN terminal
                        ELSE markAttempt(queue, Url[c], r)) \cap queue'
        /\ Continue(f, IF r \in Stopping THEN {} ELSE todo \ {c})
        /\ UNCHANGED <<queuedAt, clock, clip, paused, paired, history>>

\* Bug: an entry that the gateway refused is taken for done.
MutantApplyDrops(f) ==
    LET c == Current(f)
        r == flush[f].result
    IN  /\ flush[f].pc = "applying"
        /\ queue' = IF r \in {"ok", "refused"} THEN removeFromQueue(queue, Url[c])
                                               ELSE queue
        /\ terminal' = terminal \cap queue'
        /\ Continue(f, IF r \in Stopping THEN {} ELSE flush[f].todo \ {c})
        /\ UNCHANGED <<queuedAt, clock, clip, paused, paired, history>>

\* Bug: a flush gives up on the entries behind one that was refused, and
\* attempts that one again.
MutantApplyForgets(f) ==
    LET c == Current(f)
        r == flush[f].result
    IN  /\ flush[f].pc = "applying"
        /\ queue' = IF r = "ok" THEN removeFromQueue(queue, Url[c]) ELSE queue
        /\ terminal' = terminal \cap queue'
        /\ Continue(f, IF r = "ok" THEN flush[f].todo \ {c} ELSE {})
        /\ UNCHANGED <<queuedAt, clock, clip, paused, paired, history>>

\* The outcome is applied, by page and to the queue as it is by now: success
\* takes the page's entry out, failure marks it.  Some failures end the round.
Apply(f) ==
    LET c == Current(f)
        r == flush[f].result
    IN  /\ flush[f].pc = "applying"
        /\ queue' = IF r = "ok" THEN removeFromQueue(queue, Url[c]) ELSE queue
        /\ terminal' = (IF r = "ok" THEN terminal
                        ELSE markAttempt(queue, Url[c], r)) \cap queue'
        /\ Continue(f, IF r \in Stopping THEN {} ELSE flush[f].todo \ {c})
        /\ UNCHANGED <<queuedAt, clock, clip, paused, paired, history>>

\* The write fails and the flush rejects: the entry stays as it was.
ApplyFails(f) ==
    /\ flush[f].pc = "applying"
    /\ flush' = [flush EXCEPT ![f] = Idle]
    /\ drained' = drained \ {Current(f)}
    /\ UNCHANGED <<store, clip, paused, paired, saved, released>>

----------------------------------------------------------------------------
\* The popup removes a page's entry.
Remove(u) ==
    /\ AtUrl(queue, u) # {}
    /\ queue' = removeFromQueue(queue, u)
    /\ terminal' = terminal \ AtUrl(queue, u)
    /\ released' = released \union AtUrl(queue, u)
    /\ UNCHANGED <<queuedAt, clock, clip, flush, paused, paired, saved, drained>>

\* Retry-After has elapsed.
PauseElapses ==
    /\ paused
    /\ paused' = FALSE
    /\ UNCHANGED <<store, clip, flush, paired, history>>

\* The user pairs or unpairs; the queue survives it.
Repair ==
    /\ paired' = ~paired
    /\ UNCHANGED <<store, clip, flush, paused, history>>

\* The worker is evicted with all it was doing; a POST on its way may arrive.
Evict ==
    /\ clip' = [c \in Clips |-> IF clip[c] \in {"posting", "queueing"}
                                THEN "unsaved" ELSE clip[c]]
    /\ flush' = [f \in Flushers |-> Idle]
    /\ drained' = {}
    /\ \/ UNCHANGED saved
       \/ \E c \in Clips :
             /\ \/ clip[c] = "posting"
                \/ \E f \in Flushers : flush[f].pc = "posting" /\ c = Current(f)
             /\ saved' = saved \union {c}
    /\ UNCHANGED <<store, paused, paired, released>>

\* What the worker does of its own accord once somebody has called it.
FlushStep(f, answers) ==
    \/ ReadQueue(f)
    \/ \E r \in answers : AnswerFlush(f, r)
    \/ Apply(f)

\* What users and passing time do.
Use ==
    \/ \E c \in Clips :
          StartClip(c) \/ QueueClip(c) \/ \E r \in Answers : AnswerClip(c, r)
    \/ \E d \in Drains : StartDrain(d)
    \/ \E f \in Retries, u \in Urls \union {AnyUrl} : StartRetry(f, u)
    \/ \E u \in Urls : Remove(u)
    \/ PauseElapses

Next ==
    \/ Use
    \/ \E f \in Flushers : FlushStep(f, Answers) \/ ApplyFails(f)
    \/ Repair
    \/ Evict

Spec == Init /\ [][Next]_vars

----------------------------------------------------------------------------
\* At most one entry per page, and never more than MAX_QUEUE of them
\* (shared/queue.ts:26-32).
QueueShape ==
    /\ \A c, d \in queue : Url[c] = Url[d] => c = d
    /\ Cardinality(queue) <= MaxQueue

\* An entry that has left the queue never comes back: whatever a flush read
\* before its POST, a concurrent remove or a newer clip is not undone by its
\* write (queue-flush.ts:1-6, docs/architecture.md:2897).
NeverResurrected ==
    [][\A c \in Clips : queuedAt[c] # 0 /\ c \notin queue => c \notin queue']_vars

\* A drain does not POST again what a drain of this worker was told is saved:
\* alarm and cold start cannot post the same clips twice
\* (service-worker.ts:226-230, docs/architecture.md:2909).
NoDoubleDrain ==
    \A d \in Drains : flush[d].pc = "posting" => Current(d) \notin drained

\* Clip d was queued over the older clip c of the same page.
Replaces(d, c) == Url[d] = Url[c] /\ queuedAt[d] > queuedAt[c]

\* What a queued clip must be once it is not in the queue, as the docs have it:
\* saved, removed by the user, replaced by a newer clip of its page, or evicted.
AccountedFor(c) ==
    \/ c \in saved \union released
    \/ \E d \in Clips : Replaces(d, c)

\* "An entry leaves the queue only on success" (docs/architecture.md:2895,
\* queue-flush.ts:3).  The code breaks it: see LossNeedsRace.
LeavesOnlyOnSuccess ==
    \A c \in Clips : queuedAt[c] # 0 /\ c \notin queue => AccountedFor(c)

\* What the code keeps of it: a queued clip disappears unsaved only when an
\* older clip of its page was being posted as it was queued, and was saved.
LossNeedsRace ==
    \A c \in Clips :
        queuedAt[c] # 0 /\ c \notin queue =>
            \/ AccountedFor(c)
            \/ \E d \in saved : queuedAt[d] # 0 /\ Replaces(c, d)
=============================================================================
