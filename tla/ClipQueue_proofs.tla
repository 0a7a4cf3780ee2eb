-------------------------- MODULE ClipQueue_proofs --------------------------
(***************************************************************************)
(* What the clip queue keeps, for any clips and pages, any number of       *)
(* triggers and retries and any cap.                                       *)
(***************************************************************************)
EXTENDS ClipQueueLive, FiniteSetTheorems, WellFoundedInduction, TLAPS

\* The entry of q that was queued first, by the dates in at.
OldestOf(at, q) == CHOOSE c \in q : \A d \in q : at[c] <= at[d]

\* A clip has a date once it is queued, and its handler is done by then.
Dated ==
    \A c \in Clips : queuedAt[c] <= clock
                     /\ (queuedAt[c] # 0 => clip[c] = "queued")

\* No two clips share a date.
InOrder ==
    \A c, d \in Clips : queuedAt[c] # 0 /\ queuedAt[c] = queuedAt[d] => c = d

\* The entries are clips that have been queued.
Held == \A c \in queue : queuedAt[c] # 0

\* A flush at work has entries left, all of them queued once; one that was
\* told "ok" and has yet to apply it was told so of a clip the gateway holds.
Attempt(f) ==
    /\ flush[f].pc \in {"idle", "reading"} <=> flush[f].todo = {}
    /\ \A c \in flush[f].todo : queuedAt[c] # 0
    /\ flush[f].pc = "applying" /\ flush[f].result = "ok" => Current(f) \in saved

Attempts == \A f \in Flushers : Attempt(f)

\* One drain at a time.
OneDrain ==
    \A d, e \in Drains : flush[d].pc # "idle" /\ flush[e].pc # "idle" => d = e

\* Drain d has been told that c is saved, and has yet to apply it.
Told(d, c) ==
    /\ flush[d].pc = "applying" /\ flush[d].result = "ok"
    /\ c = Current(d)

\* What a drain was told is saved is out of the queue, and off every drain's
\* list, but for the moment between the answer and its application.
DrainedOnce ==
    /\ \A c \in drained : queuedAt[c] # 0
    /\ \A c \in drained \cap queue : \E d \in Drains : Told(d, c)
    /\ \A d \in Drains : \A c \in flush[d].todo \cap drained : Told(d, c)

IInv ==
    /\ TypeOK
    /\ IsFiniteSet(queue) /\ QueueShape
    /\ Dated /\ InOrder /\ Held
    /\ Attempts /\ OneDrain /\ DrainedOnce

----------------------------------------------------------------------------
\* Dates are naturals, so one of any entries is the oldest.
LEMMA OldestIsIn ==
    ASSUME NEW at \in [Clips -> Nat], NEW q \in SUBSET Clips, q # {}
    PROVE  /\ OldestOf(at, q) \in q
           /\ \A d \in q : at[OldestOf(at, q)] <= at[d]
  <1> DEFINE T == {at[c] : c \in q}
  <1>1. T \subseteq Nat /\ T # {}
    OBVIOUS
  <1>2. PICK x \in T : \A y \in T : ~ (<<y, x>> \in OpToRel(<, Nat))
    BY <1>1, NatLessThanWellFounded, WFMin, Zenon
  <1>3. \A y \in T : ~ (y < x)
    BY <1>1, <1>2 DEF OpToRel
  <1>4. PICK c \in q : at[c] = x
    BY <1>2
  <1>5. \A d \in q : at[c] <= at[d]
    BY <1>1, <1>3, <1>4
  <1> QED BY <1>5 DEF OldestOf

\* Where dates are distinct it is the only one, so it does not change with the
\* dates of clips that are not among them.
LEMMA SameOldest ==
    ASSUME NEW at \in [Clips -> Nat], NEW later \in [Clips -> Nat],
           NEW q \in SUBSET Clips, q # {},
           \A c \in q : later[c] = at[c],
           \A c, d \in q : at[c] = at[d] => c = d
    PROVE  OldestOf(later, q) = OldestOf(at, q)
  <1>1. /\ OldestOf(at, q) \in q
        /\ \A d \in q : at[OldestOf(at, q)] <= at[d]
    BY OldestIsIn
  <1>2. /\ OldestOf(later, q) \in q
        /\ \A d \in q : later[OldestOf(later, q)] <= later[d]
    BY OldestIsIn
  <1>3. \A c \in q : at[c] \in Nat
    OBVIOUS
  <1>4. at[OldestOf(at, q)] = at[OldestOf(later, q)]
    BY <1>1, <1>2, <1>3
  <1> QED BY <1>1, <1>2, <1>4

\* The n newest of some entries are at most n.
LEMMA NewestAreFew ==
    ASSUME NEW q \in SUBSET Clips, IsFiniteSet(q), NEW n \in Nat,
           queuedAt \in [Clips -> Nat],
           \A c, d \in q : queuedAt[c] = queuedAt[d] => c = d
    PROVE  /\ IsFiniteSet(Newest(q, n))
           /\ Cardinality(Newest(q, n)) <= n
  <1> DEFINE Newer(c) == {d \in q : queuedAt[d] > queuedAt[c]}
             rank == [c \in Newest(q, n) |-> Cardinality(Newer(c))]
  <1>1. \A c \in q : IsFiniteSet(Newer(c)) /\ Cardinality(Newer(c)) \in Nat
    <2> TAKE c \in q
    <2>1. Newer(c) \in SUBSET q
      OBVIOUS
    <2>2. IsFiniteSet(Newer(c))
      BY <2>1, FS_Subset
    <2> QED BY <2>2, FS_CardinalityType
  <1>2. ASSUME NEW c \in q, NEW d \in q, queuedAt[c] < queuedAt[d]
        PROVE  Cardinality(Newer(c)) # Cardinality(Newer(d))
    <2>1. Newer(d) \in SUBSET Newer(c) /\ d \in Newer(c) /\ d \notin Newer(d)
      BY <1>2
    <2>2. Newer(c) # Newer(d)
      BY <2>1
    <2> HIDE DEF Newer
    <2> QED BY <1>1, <2>1, <2>2, FS_Subset
  <1>3. \A c \in Newest(q, n) : c \in q /\ rank[c] \in 0 .. (n - 1)
    BY <1>1 DEF Newest
  <1>4. ASSUME NEW c \in Newest(q, n), NEW d \in Newest(q, n), rank[c] = rank[d]
        PROVE  c = d
    <2>1. c \in q /\ d \in q /\ Cardinality(Newer(c)) = Cardinality(Newer(d))
      BY <1>3, <1>4
    <2>2. ~(queuedAt[c] < queuedAt[d]) /\ ~(queuedAt[d] < queuedAt[c])
      BY <2>1, <1>2
    <2> QED BY <2>1, <2>2
  <1>5. rank \in Injection(Newest(q, n), 0 .. (n - 1))
    BY <1>3, <1>4 DEF Injection, IsInjective
  <1>6. IsFiniteSet(0 .. (n - 1)) /\ Cardinality(0 .. (n - 1)) = n
    <2>1. 0 \in Int /\ n - 1 \in Int
      OBVIOUS
    <2> QED BY <2>1, FS_Interval
  <1> HIDE DEF rank
  <1> QED BY <1>5, <1>6, FS_Injection

\* A flush with entries left is posting one of them.
LEMMA CurrentIsLeft ==
    ASSUME TypeOK, NEW f \in Flushers, flush[f].todo # {}
    PROVE  /\ Current(f) = OldestOf(queuedAt, flush[f].todo)
           /\ Current(f) \in flush[f].todo
           /\ Current(f) \in Clips
  <1>1. flush[f].todo \in SUBSET Clips
    BY DEF TypeOK
  <1>2. Current(f) = OldestOf(queuedAt, flush[f].todo)
    BY DEF Current, Oldest, OldestOf
  <1> QED BY <1>1, <1>2, OldestIsIn DEF TypeOK

----------------------------------------------------------------------------
\* At start nothing is queued and nobody is at work.
LEMMA InitInv == Init => IInv
  <1> SUFFICES ASSUME Init PROVE IInv
    OBVIOUS
  <1>1. TypeOK
    <2>1. /\ queue \subseteq Clips /\ terminal \subseteq queue /\ clock \in Nat
          /\ queuedAt \in [Clips -> Nat]
          /\ clip \in [Clips -> Stage]
      BY DEF Init, Stage
    <2>2. paused \in BOOLEAN /\ paired \in BOOLEAN
      BY DEF Init
    <2>3. saved \subseteq Clips /\ drained \subseteq Clips /\ released \subseteq Clips
      BY DEF Init
    <2>4. Idle \in [pc     : {"idle", "reading", "posting", "applying"},
                    url    : Urls \union {AnyUrl},
                    todo   : SUBSET Clips,
                    result : Answers]
      BY DEF Idle, Answers
    <2> QED BY <2>1, <2>2, <2>3, <2>4 DEF Init, TypeOK
  <1>2. IsFiniteSet(queue) /\ QueueShape
    BY FS_EmptySet, ClipQueueAssumption DEF Init, QueueShape
  <1>3. Dated /\ InOrder /\ Held
    BY DEF Init, Dated, InOrder, Held
  <1>4. Attempts /\ OneDrain /\ DrainedOnce
    BY DEF Init, Idle, Flushers, Attempts, Attempt, OneDrain, DrainedOnce
  <1> QED BY <1>1, <1>2, <1>3, <1>4 DEF IInv

\* A step that queues nothing: the queue gains no entry and no clip a date.
Shrinks ==
    /\ queue' \subseteq queue
    /\ UNCHANGED <<queuedAt, clock>>
    /\ \A c \in Clips : clip[c] = "queued" => clip'[c] = "queued"

\* A step that queues clip c, and possibly drops some of the rest.
Queues(c) ==
    /\ clip[c] = "queueing"
    /\ clip' = [clip EXCEPT ![c] = "queued"]
    /\ \E q \in SUBSET enqueue(queue, c) : c \in q /\ Store(c, q)
    /\ UNCHANGED <<flush, saved, drained>>

\* What is queued is the clip itself and what fits of the other pages.
LEMMA Enqueued ==
    ASSUME NEW c \in Clips
    PROVE  /\ c \in enqueue(queue, c)
           /\ enqueue(queue, c) \subseteq (queue \ AtUrl(queue, Url[c])) \union {c}
  BY DEF enqueue, Newest

\* A clip that is queued takes its page's last one out and, over the cap, the oldest.
LEMMA QueueClipQueues ==
    ASSUME TypeOK, NEW c \in Clips, QueueClip(c)
    PROVE  Shrinks \/ Queues(c)
  <1> DEFINE desired == enqueue(queue, c)
             older == desired \ {c}
  <1>1. desired \subseteq Clips /\ c \in desired
    BY Enqueued DEF TypeOK
  <1>2. CASE Store(c, desired) /\ clip' = [clip EXCEPT ![c] = "queued"]
    BY <1>1, <1>2 DEF QueueClip, Queues
  <1>3. CASE /\ older # {}
             /\ Store(c, desired \ {Oldest(older)})
             /\ clip' = [clip EXCEPT ![c] = "queued"]
    <2>1. Oldest(older) = OldestOf(queuedAt, older)
      BY DEF Oldest, OldestOf
    <2>2. older \in SUBSET Clips
      BY <1>1
    <2>3. Oldest(older) \in older
      BY <1>3, <2>1, <2>2, OldestIsIn DEF TypeOK
    <2>4. desired \ {Oldest(older)} \in SUBSET desired /\ c \in desired \ {Oldest(older)}
      BY <1>1, <2>3
    <2> HIDE DEF desired, older
    <2>5. clip[c] = "queueing" /\ UNCHANGED <<flush, saved, drained>>
      BY DEF QueueClip
    <2>6. desired = enqueue(queue, c)
      BY DEF desired
    <2> QED BY <1>3, <2>4, <2>5, <2>6 DEF Queues
  <1>4. CASE clip' = [clip EXCEPT ![c] = "unsaved"] /\ UNCHANGED <<store, released>>
    BY <1>4 DEF QueueClip, Shrinks, store, TypeOK
  <1> QED BY <1>2, <1>3, <1>4 DEF QueueClip

\* QueueClip is the only step that queues anything.
LEMMA StoreSteps ==
    ASSUME TypeOK, [Next]_vars
    PROVE  Shrinks \/ \E c \in Clips : Queues(c)
  <1>1. CASE UNCHANGED vars
    BY <1>1 DEF vars, store, Shrinks
  <1>2. ASSUME NEW c \in Clips, StartClip(c) PROVE Shrinks
    BY <1>2 DEF StartClip, store, Shrinks, TypeOK
  <1>3. ASSUME NEW c \in Clips, QueueClip(c) PROVE Shrinks \/ Queues(c)
    BY <1>3, QueueClipQueues
  <1>4. ASSUME NEW c \in Clips, NEW r \in Answers, AnswerClip(c, r) PROVE Shrinks
    BY <1>4 DEF AnswerClip, store, Shrinks, TypeOK
  <1>5. ASSUME NEW d \in Drains, StartDrain(d) PROVE Shrinks
    BY <1>5 DEF StartDrain, store, Shrinks
  <1>6. ASSUME NEW f \in Retries, NEW u \in Urls \union {AnyUrl}, StartRetry(f, u)
        PROVE  Shrinks
    BY <1>6 DEF StartRetry, store, Shrinks
  <1>7. ASSUME NEW u \in Urls, Remove(u) PROVE Shrinks
    BY <1>7 DEF Remove, removeFromQueue, Shrinks
  <1>8. CASE PauseElapses \/ Repair
    BY <1>8 DEF PauseElapses, Repair, store, Shrinks
  <1>9. ASSUME NEW f \in Flushers, ReadQueue(f) PROVE Shrinks
    BY <1>9 DEF ReadQueue, store, Shrinks
  <1>10. ASSUME NEW f \in Flushers, NEW r \in Answers, AnswerFlush(f, r)
         PROVE  Shrinks
    BY <1>10 DEF AnswerFlush, store, Shrinks
  <1>11. ASSUME NEW f \in Flushers, Apply(f) PROVE Shrinks
    BY <1>11 DEF Apply, removeFromQueue, Shrinks
  <1>12. ASSUME NEW f \in Flushers, ApplyFails(f) PROVE Shrinks
    BY <1>12 DEF ApplyFails, store, Shrinks
  <1>13. CASE Evict
    BY <1>13 DEF Evict, store, Shrinks
  <1> QED BY <1>1, <1>2, <1>3, <1>4, <1>5, <1>6, <1>7, <1>8, <1>9, <1>10, <1>11,
             <1>12, <1>13 DEF Next, Use, FlushStep

\* Dates are given once, in order, and never taken back.
LEMMA DatesStep ==
    ASSUME IInv, [Next]_vars, queuedAt' \in [Clips -> Nat]
    PROVE  /\ Dated' /\ InOrder' /\ Held'
           /\ \A c \in Clips : queuedAt[c] # 0 => queuedAt'[c] = queuedAt[c]
  <1>1. CASE Shrinks
    BY <1>1 DEF IInv, Shrinks, Dated, InOrder, Held
  <1>2. ASSUME NEW c \in Clips, Queues(c)
        PROVE  /\ Dated' /\ InOrder' /\ Held'
               /\ \A d \in Clips : queuedAt[d] # 0 => queuedAt'[d] = queuedAt[d]
    <2>1. /\ queuedAt' = [queuedAt EXCEPT ![c] = clock + 1]
          /\ clock' = clock + 1 /\ clock \in Nat
          /\ queuedAt \in [Clips -> Nat]
          /\ queue' \subseteq queue \union {c}
      BY <1>2, Enqueued DEF IInv, TypeOK, Queues, Store
    <2>2. queuedAt[c] = 0
      BY <1>2 DEF IInv, Dated, Queues
    <2>3. queuedAt'[c] = clock + 1 /\ \A d \in Clips \ {c} : queuedAt'[d] = queuedAt[d]
      BY <2>1
    <2>4. clip'[c] = "queued" /\ \A d \in Clips \ {c} : clip'[d] = clip[d]
      BY <1>2 DEF IInv, TypeOK, Queues
    <2>5. \A d \in Clips : queuedAt[d] \in Nat /\ queuedAt[d] <= clock
      BY <2>1 DEF IInv, Dated
    <2>6. Dated'
      BY <2>1, <2>3, <2>4, <2>5 DEF IInv, Dated
    <2>7. InOrder'
      BY <2>1, <2>3, <2>5 DEF IInv, InOrder
    <2>8. Held'
      <3>1. queue \subseteq Clips /\ \A d \in queue : queuedAt[d] # 0
        BY DEF IInv, TypeOK, Held
      <3> QED BY <2>1, <2>3, <3>1 DEF Held
    <2> QED BY <2>2, <2>3, <2>6, <2>7, <2>8
  <1> QED BY <1>1, <1>2, StoreSteps DEF IInv

\* Taking the page's older entry out and making room keeps the queue in shape.
LEMMA ShapeStep ==
    ASSUME IInv, [Next]_vars
    PROVE  IsFiniteSet(queue)' /\ QueueShape'
  <1> USE ClipQueueAssumption
  <1>1. IsFiniteSet(queue) /\ Cardinality(queue) \in Nat
    BY FS_CardinalityType DEF IInv
  <1>2. CASE Shrinks
    <2>1. queue' \in SUBSET queue
      BY <1>2 DEF Shrinks
    <2>2. /\ IsFiniteSet(queue') /\ Cardinality(queue') \in Nat
          /\ Cardinality(queue') <= Cardinality(queue)
      BY <1>1, <2>1, FS_Subset, FS_CardinalityType
    <2> QED BY <1>1, <2>1, <2>2 DEF IInv, QueueShape
  <1>3. ASSUME NEW c \in Clips, Queues(c)
        PROVE  IsFiniteSet(queue)' /\ QueueShape'
    <2> DEFINE rest == queue \ AtUrl(queue, Url[c])
               kept == Newest(rest, MaxQueue - 1)
    <2>1. queue' \in SUBSET (kept \union {c})
      BY <1>3 DEF Queues, Store, enqueue
    <2>2. /\ rest \in SUBSET Clips /\ IsFiniteSet(rest)
          /\ queuedAt \in [Clips -> Nat]
          /\ \A d, e \in rest : queuedAt[d] = queuedAt[e] => d = e
      <3>1. rest \in SUBSET queue
        OBVIOUS
      <3>2. IsFiniteSet(rest)
        BY <1>1, <3>1, FS_Subset
      <3> QED BY <3>1, <3>2 DEF IInv, TypeOK, InOrder, Held
    <2>3. MaxQueue - 1 \in Nat
      OBVIOUS
    <2>4. IsFiniteSet(kept) /\ Cardinality(kept) <= MaxQueue - 1
      <3> HIDE DEF rest
      <3> QED BY <2>2, <2>3, NewestAreFew
    <2>5. kept \subseteq rest
      BY DEF Newest
    <2> HIDE DEF kept
    <2>6. /\ IsFiniteSet(kept \union {c})
          /\ Cardinality(kept) \in Nat /\ Cardinality(kept \union {c}) \in Nat
          /\ Cardinality(kept \union {c}) <= Cardinality(kept) + 1
      BY <2>4, FS_AddElement, FS_CardinalityType
    <2>7. /\ IsFiniteSet(queue') /\ Cardinality(queue') \in Nat
          /\ Cardinality(queue') <= Cardinality(kept \union {c})
      BY <2>1, <2>6, FS_Subset, FS_CardinalityType
    <2>8. Cardinality(queue') <= MaxQueue
      BY <2>3, <2>4, <2>6, <2>7
    <2>9. \A d, e \in queue' : Url[d] = Url[e] => d = e
      <3>1. \A d, e \in queue : Url[d] = Url[e] => d = e
        BY DEF IInv, QueueShape
      <3>2. \A d \in kept : d \in queue /\ Url[d] # Url[c]
        BY <2>5 DEF AtUrl
      <3> QED BY <2>1, <3>1, <3>2
    <2> QED BY <2>7, <2>8, <2>9 DEF QueueShape
  <1> QED BY <1>2, <1>3, StoreSteps DEF IInv

----------------------------------------------------------------------------
\* Where a flush may stand.
FlushStates == [pc     : {"idle", "reading", "posting", "applying"},
                url    : Urls \union {AnyUrl},
                todo   : SUBSET Clips,
                result : Answers]

\* Going on leaves a flush done, or posting what is left.
LEMMA Continues ==
    ASSUME TypeOK, NEW f \in Flushers, NEW todo \in SUBSET Clips, Continue(f, todo)
    PROVE  /\ flush' \in [Flushers -> FlushStates]
           /\ \A g \in Flushers \ {f} : flush'[g] = flush[g]
           /\ flush'[f].todo = todo
           /\ flush'[f].pc = IF todo = {} THEN "idle" ELSE "posting"
  <1>1. Idle \in FlushStates /\ Idle.pc = "idle" /\ Idle.todo = {}
    BY DEF Idle, FlushStates, Answers
  <1>2. [Idle EXCEPT !.pc = "posting", !.todo = todo] \in FlushStates
    BY DEF Idle, FlushStates, Answers
  <1>3. /\ [Idle EXCEPT !.pc = "posting", !.todo = todo].pc = "posting"
        /\ [Idle EXCEPT !.pc = "posting", !.todo = todo].todo = todo
    BY DEF Idle
  <1>4. flush \in [Flushers -> FlushStates]
    BY DEF TypeOK, FlushStates
  <1>5. flush' = [flush EXCEPT
                     ![f] = IF todo = {} THEN Idle
                            ELSE [Idle EXCEPT !.pc = "posting", !.todo = todo]]
    BY DEF Continue
  <1> HIDE DEF FlushStates
  <1> QED BY <1>1, <1>2, <1>3, <1>4, <1>5

\* A delivery adds at most the clip that was posted, and an "ok" says it did.
LEMMA Delivers ==
    ASSUME NEW c \in Clips, NEW r, Deliver(c, r), saved \subseteq Clips
    PROVE  /\ saved' \subseteq Clips /\ saved \subseteq saved'
           /\ r = "ok" => c \in saved'
  BY DEF Deliver

\* The parts of the state that an edit of the queue keeps typed.
LEMMA StoreTypes ==
    ASSUME TypeOK, NEW c \in Clips, NEW q \in SUBSET Clips, Store(c, q)
    PROVE  /\ queue' \subseteq Clips /\ terminal' \subseteq queue'
           /\ queuedAt' \in [Clips -> Nat] /\ clock' \in Nat
           /\ released' \subseteq Clips
  BY DEF TypeOK, Store

\* No step leaves the types.
LEMMA TypeStep ==
    ASSUME IInv, [Next]_vars
    PROVE  TypeOK'
  <1> DEFINE StoreOK == /\ queue \subseteq Clips /\ queuedAt \in [Clips -> Nat]
                        /\ clock \in Nat /\ terminal \subseteq queue
             ClipOK == clip \in [Clips -> Stage]
             FlushOK == flush \in [Flushers -> FlushStates]
             FlagsOK == paused \in BOOLEAN /\ paired \in BOOLEAN
             HistoryOK == /\ saved \subseteq Clips /\ drained \subseteq Clips
                          /\ released \subseteq Clips
  <1>1. TypeOK <=> StoreOK /\ ClipOK /\ FlushOK /\ FlagsOK /\ HistoryOK
    BY DEF TypeOK, FlushStates
  <1>2. TypeOK' <=> StoreOK' /\ ClipOK' /\ FlushOK' /\ FlagsOK' /\ HistoryOK'
    BY DEF TypeOK, FlushStates
  <1>3. /\ TypeOK /\ StoreOK /\ ClipOK /\ FlushOK /\ FlagsOK /\ HistoryOK
        /\ \A f \in Flushers : flush[f].pc \in {"posting", "applying"}
                               => flush[f].todo # {}
    BY <1>1 DEF IInv, Attempts, Attempt
  <1>4. \A f \in Flushers : flush[f].pc \in {"posting", "applying"}
                            => Current(f) \in Clips
    BY <1>3, CurrentIsLeft
  <1>5. CASE UNCHANGED vars
    BY <1>2, <1>3, <1>5 DEF vars, store, history
  <1>6. ASSUME NEW c \in Clips, StartClip(c) PROVE TypeOK'
    BY <1>2, <1>3, <1>6 DEF StartClip, store, history, Stage
  <1>7. ASSUME NEW c \in Clips, QueueClip(c) PROVE TypeOK'
    <2>1. ClipOK' /\ FlushOK' /\ FlagsOK'
      BY <1>3, <1>7 DEF QueueClip, Stage
    <2>2. enqueue(queue, c) \in SUBSET Clips
      BY <1>3, Enqueued
    <2>3. StoreOK' /\ released' \subseteq Clips
      <3>1. CASE UNCHANGED <<store, released>>
        BY <1>3, <3>1 DEF store
      <3>2. ASSUME NEW q \in SUBSET Clips, Store(c, q)
            PROVE  StoreOK' /\ released' \subseteq Clips
        BY <1>3, <3>2, StoreTypes
      <3>3. \/ UNCHANGED <<store, released>>
            \/ \E q \in SUBSET Clips : Store(c, q)
        BY <1>7, <2>2 DEF QueueClip
      <3> QED BY <3>1, <3>2, <3>3
    <2> QED BY <1>2, <1>3, <1>7, <2>1, <2>3 DEF QueueClip
  <1>8. ASSUME NEW c \in Clips, NEW r \in Answers, AnswerClip(c, r) PROVE TypeOK'
    <2>1. ClipOK' /\ StoreOK' /\ FlushOK'
      BY <1>3, <1>8 DEF AnswerClip, store, Stage
    <2>2. FlagsOK'
      BY <1>3, <1>8 DEF AnswerClip, PaceBy
    <2>3. HistoryOK'
      BY <1>3, <1>8, Delivers DEF AnswerClip
    <2> QED BY <1>2, <2>1, <2>2, <2>3
  <1>9. ASSUME NEW d \in Drains, StartDrain(d) PROVE TypeOK'
    <2>1. FlushOK'
      BY <1>3, <1>9 DEF StartDrain, FlushStates, Flushers
    <2> QED BY <1>2, <1>3, <1>9, <2>1 DEF StartDrain, store, history
  <1>10. ASSUME NEW f \in Retries, NEW u \in Urls \union {AnyUrl}, StartRetry(f, u)
         PROVE  TypeOK'
    <2>1. [flush[f] EXCEPT !.pc = "reading", !.url = u] \in FlushStates
      BY <1>3 DEF FlushStates, Flushers
    <2>2. flush' = [flush EXCEPT ![f] = [flush[f] EXCEPT !.pc = "reading", !.url = u]]
      BY <1>10 DEF StartRetry
    <2>3. FlushOK'
      BY <1>3, <2>1, <2>2
    <2> QED BY <1>2, <1>3, <1>10, <2>3 DEF StartRetry, store, history
  <1>11. ASSUME NEW u \in Urls, Remove(u) PROVE TypeOK'
    <2>1. StoreOK' /\ released' \subseteq Clips
      BY <1>3, <1>11 DEF Remove, removeFromQueue, AtUrl
    <2> QED BY <1>2, <1>3, <1>11, <2>1 DEF Remove
  <1>12. CASE PauseElapses \/ Repair
    BY <1>2, <1>3, <1>12 DEF PauseElapses, Repair, store, history
  <1>13. ASSUME NEW f \in Flushers, ReadQueue(f) PROVE TypeOK'
    <2>1. Wanted(f) \in SUBSET Clips /\ Continue(f, Wanted(f))
      BY <1>3, <1>13 DEF ReadQueue, Wanted
    <2>2. FlushOK'
      BY <1>3, <2>1, Continues
    <2> QED BY <1>2, <1>3, <1>13, <2>2 DEF ReadQueue, store, history
  <1>14. ASSUME NEW f \in Flushers, NEW r \in Answers, AnswerFlush(f, r)
         PROVE  TypeOK'
    <2>1. [flush[f] EXCEPT !.pc = "applying", !.result = r] \in FlushStates
      BY <1>3 DEF FlushStates
    <2>2. flush' = [flush EXCEPT
                       ![f] = [flush[f] EXCEPT !.pc = "applying", !.result = r]]
      BY <1>14 DEF AnswerFlush
    <2>3. FlushOK'
      BY <1>3, <2>1, <2>2
    <2>4. Current(f) \in Clips
      BY <1>4, <1>14 DEF AnswerFlush
    <2>5. HistoryOK'
      BY <1>3, <1>14, <2>4, Delivers DEF AnswerFlush
    <2>6. FlagsOK'
      BY <1>3, <1>14 DEF AnswerFlush, PaceBy
    <2> QED BY <1>2, <1>3, <1>14, <2>3, <2>5, <2>6 DEF AnswerFlush, store
  <1>15. ASSUME NEW f \in Flushers, Apply(f) PROVE TypeOK'
    <2>1. PICK todo \in SUBSET Clips : Continue(f, todo)
      BY <1>3, <1>15 DEF Apply, FlushStates
    <2>2. FlushOK'
      BY <1>3, <2>1, Continues
    <2>3. StoreOK'
      BY <1>3, <1>15 DEF Apply, removeFromQueue
    <2> QED BY <1>2, <1>3, <1>15, <2>2, <2>3 DEF Apply, history
  <1>16. ASSUME NEW f \in Flushers, ApplyFails(f) PROVE TypeOK'
    <2>1. Idle \in FlushStates
      BY DEF Idle, FlushStates, Answers
    <2>2. FlushOK' /\ HistoryOK'
      BY <1>3, <1>16, <2>1 DEF ApplyFails
    <2> QED BY <1>2, <1>3, <1>16, <2>2 DEF ApplyFails, store
  <1>17. CASE Evict
    <2>1. Idle \in FlushStates
      BY DEF Idle, FlushStates, Answers
    <2>2. FlushOK' /\ HistoryOK'
      BY <1>3, <1>17, <2>1 DEF Evict
    <2>3. ClipOK'
      BY <1>3, <1>17 DEF Evict, Stage
    <2> QED BY <1>2, <1>3, <1>17, <2>2, <2>3 DEF Evict, store
  <1> HIDE DEF StoreOK, ClipOK, FlushOK, FlagsOK, HistoryOK
  <1> QED BY <1>5, <1>6, <1>7, <1>8, <1>9, <1>10, <1>11, <1>12, <1>13, <1>14,
             <1>15, <1>16, <1>17 DEF IInv, Next, Use, FlushStep

----------------------------------------------------------------------------
\* What the gateway holds, and what was let go, only grows.
LEMMA HistoryGrows ==
    ASSUME IInv, [Next]_vars
    PROVE  saved \subseteq saved' /\ released \subseteq released'
  <1>1. CASE UNCHANGED vars
    BY <1>1 DEF vars, history
  <1>2. ASSUME NEW c \in Clips, StartClip(c)
        PROVE  saved \subseteq saved' /\ released \subseteq released'
    BY <1>2 DEF StartClip, history
  <1>3. ASSUME NEW c \in Clips, QueueClip(c)
        PROVE  saved \subseteq saved' /\ released \subseteq released'
    BY <1>3 DEF QueueClip, Store
  <1>4. ASSUME NEW c \in Clips, NEW r \in Answers, AnswerClip(c, r)
        PROVE  saved \subseteq saved' /\ released \subseteq released'
    BY <1>4 DEF AnswerClip, Deliver
  <1>5. ASSUME NEW d \in Drains, StartDrain(d)
        PROVE  saved \subseteq saved' /\ released \subseteq released'
    BY <1>5 DEF StartDrain, history
  <1>6. ASSUME NEW f \in Retries, NEW u \in Urls \union {AnyUrl}, StartRetry(f, u)
        PROVE  saved \subseteq saved' /\ released \subseteq released'
    BY <1>6 DEF StartRetry, history
  <1>7. ASSUME NEW u \in Urls, Remove(u)
        PROVE  saved \subseteq saved' /\ released \subseteq released'
    BY <1>7 DEF Remove
  <1>8. CASE PauseElapses \/ Repair \/ Evict
    BY <1>8 DEF PauseElapses, Repair, Evict, history
  <1>9. ASSUME NEW f \in Flushers, ReadQueue(f) \/ Apply(f) \/ ApplyFails(f)
        PROVE  saved \subseteq saved' /\ released \subseteq released'
    BY <1>9 DEF ReadQueue, Apply, ApplyFails, history
  <1>10. ASSUME NEW f \in Flushers, NEW r \in Answers, AnswerFlush(f, r)
         PROVE  saved \subseteq saved' /\ released \subseteq released'
    BY <1>10 DEF AnswerFlush, Deliver
  <1> QED BY <1>1, <1>2, <1>3, <1>4, <1>5, <1>6, <1>7, <1>8, <1>9, <1>10
          DEF Next, Use, FlushStep

\* A flush that keeps its list keeps the entry it is posting: nobody dates the
\* entries again.
LEMMA CurrentKept ==
    ASSUME IInv, TypeOK', NEW f \in Flushers,
           flush'[f].todo = flush[f].todo, flush[f].todo # {},
           \A c \in Clips : queuedAt[c] # 0 => queuedAt'[c] = queuedAt[c]
    PROVE  Current(f)' = Current(f)
  <1> DEFINE todo == flush[f].todo
  <1>1. /\ todo \in SUBSET Clips /\ todo # {}
        /\ queuedAt \in [Clips -> Nat] /\ queuedAt' \in [Clips -> Nat]
    BY DEF IInv, TypeOK
  <1>2. \A c \in todo : queuedAt[c] # 0
    BY DEF IInv, Attempts, Attempt
  <1>3. \A c, d \in todo : queuedAt[c] = queuedAt[d] => c = d
    BY <1>1, <1>2 DEF IInv, InOrder
  <1>4. \A c \in todo : queuedAt'[c] = queuedAt[c]
    BY <1>1, <1>2
  <1>5. Current(f) = OldestOf(queuedAt, todo)
    BY DEF Current, Oldest, OldestOf
  <1>6. Current(f)' = OldestOf(queuedAt', todo)
    BY DEF Current, Oldest, OldestOf
  <1> HIDE DEF todo
  <1> QED BY <1>1, <1>3, <1>4, <1>5, <1>6, SameOldest

\* A flush that does not move keeps its attempt in order.
LEMMA AttemptKept ==
    ASSUME IInv, TypeOK', NEW f \in Flushers,
           flush'[f] = flush[f], saved \subseteq saved',
           \A c \in Clips : queuedAt[c] # 0 => queuedAt'[c] = queuedAt[c]
    PROVE  Attempt(f)'
  <1>1. Attempt(f) /\ flush[f].todo \subseteq Clips
    BY DEF IInv, Attempts, TypeOK
  <1>2. flush[f].todo # {} => Current(f)' = Current(f)
    BY CurrentKept
  <1> QED BY <1>1, <1>2 DEF Attempt

\* Nor does one that is done.
LEMMA AttemptDone ==
    ASSUME NEW f \in Flushers, flush'[f] = Idle
    PROVE  Attempt(f)'
  BY DEF Attempt, Idle

\* Every step leaves every flush's attempt in order.
LEMMA AttemptsStep ==
    ASSUME IInv, [Next]_vars, TypeOK',
           \A c \in Clips : queuedAt[c] # 0 => queuedAt'[c] = queuedAt[c]
    PROVE  Attempts'
  <1>1. saved \subseteq saved'
    BY HistoryGrows
  <1>2. \A f \in Flushers : flush'[f] = flush[f] => Attempt(f)'
    BY <1>1, AttemptKept
  <1>3. TypeOK /\ flush \in [Flushers -> FlushStates]
    BY DEF IInv, TypeOK, FlushStates
  <1>4. \A f \in Flushers : Attempt(f) /\ flush[f].todo \subseteq Clips
    BY DEF IInv, Attempts, TypeOK
  <1>5. CASE flush' = flush
    BY <1>2, <1>5 DEF Attempts
  <1>6. ASSUME NEW f \in Flushers,
               flush' = [flush EXCEPT ![f].pc = "reading"] /\ flush[f].pc = "idle"
        PROVE  Attempts'
    <2>1. flush'[f].pc = "reading" /\ flush'[f].todo = {}
      BY <1>3, <1>4, <1>6 DEF Attempt, FlushStates
    <2> QED BY <1>2, <1>3, <1>6, <2>1 DEF Attempts, Attempt
  <1>7. ASSUME NEW f \in Retries, NEW u \in Urls \union {AnyUrl}, StartRetry(f, u)
        PROVE  Attempts'
    <2>1. f \in Flushers
      BY DEF Flushers
    <2>2. flush' = [flush EXCEPT ![f] = [flush[f] EXCEPT !.pc = "reading", !.url = u]]
      BY <1>7 DEF StartRetry
    <2>3. flush'[f] = [flush[f] EXCEPT !.pc = "reading", !.url = u]
      BY <1>3, <2>1, <2>2
    <2>4. flush'[f].pc = "reading" /\ flush'[f].todo = {}
      BY <1>3, <1>4, <1>7, <2>1, <2>3 DEF StartRetry, Attempt, FlushStates
    <2>5. Attempt(f)'
      BY <2>4 DEF Attempt
    <2>6. \A g \in Flushers \ {f} : flush'[g] = flush[g]
      BY <1>3, <2>2
    <2> QED BY <1>2, <2>5, <2>6 DEF Attempts
  <1>8. ASSUME NEW f \in Flushers, ReadQueue(f) PROVE Attempts'
    <2>1. Wanted(f) \subseteq queue /\ Wanted(f) \in SUBSET Clips
      BY <1>3 DEF Wanted, TypeOK
    <2>2. \A c \in Wanted(f) : queuedAt[c] # 0 /\ queuedAt'[c] = queuedAt[c]
      BY <2>1, <1>8 DEF IInv, Held, ReadQueue, store
    <2>3. /\ \A g \in Flushers \ {f} : flush'[g] = flush[g]
          /\ flush'[f].todo = Wanted(f)
          /\ flush'[f].pc = IF Wanted(f) = {} THEN "idle" ELSE "posting"
      BY <1>3, <1>8, <2>1, Continues DEF ReadQueue
    <2>4. Attempt(f)'
      BY <2>2, <2>3 DEF Attempt
    <2> QED BY <1>2, <2>3, <2>4 DEF Attempts
  <1>9. ASSUME NEW f \in Flushers, NEW r \in Answers, AnswerFlush(f, r)
        PROVE  Attempts'
    <2>1. flush' = [flush EXCEPT
                       ![f] = [flush[f] EXCEPT !.pc = "applying", !.result = r]]
      BY <1>9 DEF AnswerFlush
    <2>2. /\ flush'[f].pc = "applying" /\ flush'[f].result = r
          /\ flush'[f].todo = flush[f].todo
      BY <1>3, <2>1 DEF FlushStates
    <2>3. flush[f].todo # {}
      BY <1>4, <1>9 DEF AnswerFlush, Attempt
    <2>4. Current(f) \in Clips /\ Current(f)' = Current(f)
      BY <1>3, <2>2, <2>3, CurrentKept, CurrentIsLeft
    <2>5. r = "ok" => Current(f)' \in saved'
      BY <1>3, <1>9, <2>4, Delivers DEF AnswerFlush, TypeOK
    <2>6. \A c \in flush'[f].todo : queuedAt'[c] # 0
      BY <1>4, <1>9, <2>2 DEF AnswerFlush, store, Attempt
    <2>7. Attempt(f)'
      BY <2>2, <2>3, <2>5, <2>6 DEF Attempt
    <2>8. \A g \in Flushers \ {f} : flush'[g] = flush[g]
      BY <1>3, <2>1
    <2> QED BY <1>2, <2>7, <2>8 DEF Attempts
  <1>10. ASSUME NEW f \in Flushers, Apply(f) PROVE Attempts'
    <2>1. PICK todo \in SUBSET flush[f].todo : Continue(f, todo)
      BY <1>10 DEF Apply
    <2>2. /\ \A g \in Flushers \ {f} : flush'[g] = flush[g]
          /\ flush'[f].todo = todo
          /\ flush'[f].pc = IF todo = {} THEN "idle" ELSE "posting"
      <3>1. todo \in SUBSET Clips
        BY <1>4, <2>1
      <3> QED BY <1>3, <2>1, <3>1, Continues
    <2>3. \A c \in todo : queuedAt'[c] # 0
      BY <1>4, <1>10, <2>1 DEF Apply, Attempt
    <2>4. Attempt(f)'
      BY <2>2, <2>3 DEF Attempt
    <2> QED BY <1>2, <2>2, <2>4 DEF Attempts
  <1>11. ASSUME NEW f \in Flushers, ApplyFails(f) PROVE Attempts'
    <2>1. flush'[f] = Idle /\ \A g \in Flushers \ {f} : flush'[g] = flush[g]
      BY <1>3, <1>11 DEF ApplyFails
    <2> QED BY <1>2, <2>1, AttemptDone DEF Attempts
  <1>12. CASE Evict
    <2>1. \A f \in Flushers : flush'[f] = Idle
      BY <1>12 DEF Evict
    <2> QED BY <2>1, AttemptDone DEF Attempts
  <1>13. CASE UNCHANGED vars \/ PauseElapses \/ Repair
    BY <1>5, <1>13 DEF vars, PauseElapses, Repair
  <1>14. ASSUME NEW c \in Clips,
                StartClip(c) \/ QueueClip(c) \/ \E r \in Answers : AnswerClip(c, r)
         PROVE  Attempts'
    BY <1>5, <1>14 DEF StartClip, QueueClip, AnswerClip
  <1>15. ASSUME NEW u \in Urls, Remove(u) PROVE Attempts'
    BY <1>5, <1>15 DEF Remove
  <1>16. ASSUME NEW d \in Drains, StartDrain(d) PROVE Attempts'
    BY <1>6, <1>16 DEF StartDrain, Flushers
  <1> QED BY <1>7, <1>8, <1>9, <1>10, <1>11, <1>12, <1>13, <1>14, <1>15, <1>16
          DEF Next, Use, FlushStep

----------------------------------------------------------------------------
\* Steps that are no drain's leave the drains in order.
LEMMA DrainsKept ==
    ASSUME IInv, TypeOK',
           \A d \in Drains : flush'[d] = flush[d],
           drained' \subseteq drained, drained' \cap queue' \subseteq queue,
           \A c \in Clips : queuedAt[c] # 0 => queuedAt'[c] = queuedAt[c]
    PROVE  OneDrain' /\ DrainedOnce'
  <1>1. OneDrain'
    BY DEF IInv, OneDrain
  <1>2. ASSUME NEW d \in Drains, NEW c, Told(d, c)
        PROVE  Told(d, c)'
    <2>1. d \in Flushers /\ flush[d].todo # {}
      BY <1>2 DEF Flushers, IInv, Attempts, Attempt, Told
    <2>2. Current(d)' = Current(d)
      BY <2>1, CurrentKept
    <2> QED BY <1>2, <2>2 DEF Told
  <1>3. drained \subseteq Clips
    BY DEF IInv, TypeOK
  <1> QED BY <1>1, <1>2, <1>3 DEF IInv, DrainedOnce

\* While one drain is at work, or none, no other has been told anything.
LEMMA DrainAlone ==
    ASSUME IInv, NEW d \in Drains, \A e \in Drains \ {d} : flush[e].pc = "idle"
    PROVE  /\ \A e \in Drains \ {d} : flush[e].todo = {}
           /\ \A c \in drained \cap queue : Told(d, c)
  <1>1. \A e \in Drains \ {d} : Attempt(e)
    BY DEF IInv, Attempts, Flushers
  <1>2. \A e \in Drains \ {d} : flush[e].todo = {}
    BY <1>1 DEF Attempt
  <1>3. \A e \in Drains \ {d}, c \in Clips : ~Told(e, c)
    BY DEF Told
  <1>4. drained \subseteq Clips
    BY DEF IInv, TypeOK
  <1> QED BY <1>2, <1>3, <1>4 DEF IInv, DrainedOnce

\* The one drain at work has taken what it was told is saved out of the queue
\* and off its list.
LEMMA DrainMoves ==
    ASSUME IInv, NEW d \in Drains,
           \A e \in Drains \ {d} : flush[e].pc = "idle" /\ flush'[e] = flush[e],
           \A c \in drained' : queuedAt'[c] # 0,
           \A c \in drained' \cap queue' : Told(d, c)',
           \A c \in drained' \cap flush'[d].todo : Told(d, c)'
    PROVE  OneDrain' /\ DrainedOnce'
  <1>1. \A e \in Drains \ {d} : flush'[e].todo = {}
    BY DrainAlone
  <1> QED BY <1>1 DEF OneDrain, DrainedOnce

\* No step has two drains at work, or a clip drained twice.
LEMMA DrainsStep ==
    ASSUME IInv, [Next]_vars, TypeOK',
           \A c \in Clips : queuedAt[c] # 0 => queuedAt'[c] = queuedAt[c]
    PROVE  OneDrain' /\ DrainedOnce'
  <1> USE ClipQueueAssumption
  <1>1. TypeOK /\ flush \in [Flushers -> FlushStates] /\ drained \subseteq Clips
    BY DEF IInv, TypeOK, FlushStates
  <1>2. \A c \in drained : queuedAt[c] # 0
    BY DEF IInv, DrainedOnce
  <1>3. \A d \in Drains : Attempt(d) /\ flush[d].todo \subseteq Clips
    BY DEF IInv, Attempts, Flushers, TypeOK
  <1>4. ASSUME flush' = flush, drained' = drained PROVE OneDrain' /\ DrainedOnce'
    <2>1. drained \cap queue' \subseteq queue
      <3>1. ASSUME NEW c \in Clips, Queues(c) PROVE drained \cap queue' \subseteq queue
        <4>1. queue' \subseteq queue \union {c} /\ queuedAt[c] = 0
          BY <3>1, Enqueued DEF Queues, Store, IInv, Dated
        <4> QED BY <4>1, <1>2
      <3> QED BY <3>1, StoreSteps, <1>1 DEF Shrinks
    <2> QED BY <1>4, <2>1, DrainsKept
  <1>5. ASSUME NEW f \in Retries,
               drained' \subseteq drained, queue' \subseteq queue,
               \A g \in Flushers \ {f} : flush'[g] = flush[g]
        PROVE  OneDrain' /\ DrainedOnce'
    <2>1. \A d \in Drains : flush'[d] = flush[d]
      BY <1>5 DEF Flushers
    <2> QED BY <1>5, <2>1, DrainsKept
  <1>6. ASSUME NEW d \in Drains, flush[d].pc # "idle"
        PROVE  /\ \A e \in Drains \ {d} : flush[e].pc = "idle"
               /\ \A c \in drained \cap queue : Told(d, c)
               /\ \A c \in drained \cap flush[d].todo : Told(d, c)
    <2>1. \A e \in Drains \ {d} : flush[e].pc = "idle"
      BY <1>6 DEF IInv, OneDrain
    <2> QED BY <2>1, DrainAlone DEF IInv, DrainedOnce
  <1>7. ASSUME NEW d \in Drains, StartDrain(d) PROVE OneDrain' /\ DrainedOnce'
    <2>1. \A e \in Drains : flush[e].pc = "idle"
      BY <1>7 DEF StartDrain
    <2>2. /\ \A e \in Drains \ {d} : flush'[e] = flush[e]
          /\ flush'[d].todo = {}
          /\ UNCHANGED <<queue, queuedAt, drained>>
      BY <1>1, <1>3, <1>7, <2>1
         DEF StartDrain, Attempt, FlushStates, Flushers, store, history
    <2>3. drained \cap queue = {}
      BY <2>1, DrainAlone DEF Told
    <2> QED BY <1>2, <2>1, <2>2, <2>3, DrainMoves
  <1>8. ASSUME NEW f \in Retries, NEW u \in Urls \union {AnyUrl}, StartRetry(f, u)
        PROVE  OneDrain' /\ DrainedOnce'
    <2>1. \A g \in Flushers \ {f} : flush'[g] = flush[g]
      BY <1>1, <1>8 DEF StartRetry
    <2> QED BY <1>5, <1>8, <2>1 DEF StartRetry, store, history
  <1>9. ASSUME NEW f \in Flushers, ReadQueue(f) PROVE OneDrain' /\ DrainedOnce'
    <2>1. Wanted(f) \subseteq queue /\ Wanted(f) \in SUBSET Clips
      BY <1>1 DEF Wanted, TypeOK
    <2>2. /\ \A g \in Flushers \ {f} : flush'[g] = flush[g]
          /\ flush'[f].todo = Wanted(f)
          /\ UNCHANGED <<queue, queuedAt, drained>>
      BY <1>1, <1>9, <2>1, Continues DEF ReadQueue, store, history
    <2>3. CASE f \in Drains
      <3>1. flush[f].pc = "reading"
        BY <1>9 DEF ReadQueue
      <3>2. drained \cap queue = {}
        BY <1>6, <2>3, <3>1 DEF Told
      <3>3. \A e \in Drains \ {f} : flush[e].pc = "idle" /\ flush'[e] = flush[e]
        BY <1>6, <2>2, <2>3, <3>1 DEF Flushers
      <3> QED BY <1>2, <2>1, <2>2, <2>3, <3>2, <3>3, DrainMoves
    <2> QED BY <1>5, <2>2, <2>3 DEF Flushers
  <1>10. ASSUME NEW f \in Flushers, NEW r \in Answers, AnswerFlush(f, r)
         PROVE  OneDrain' /\ DrainedOnce'
    <2>1. flush' = [flush EXCEPT
                       ![f] = [flush[f] EXCEPT !.pc = "applying", !.result = r]]
      BY <1>10 DEF AnswerFlush
    <2>2. /\ flush'[f].pc = "applying" /\ flush'[f].result = r
          /\ flush'[f].todo = flush[f].todo
          /\ \A g \in Flushers \ {f} : flush'[g] = flush[g]
      BY <1>1, <2>1 DEF FlushStates
    <2>3. UNCHANGED <<queue, queuedAt>> /\ flush[f].pc = "posting"
      BY <1>10 DEF AnswerFlush, store
    <2>4. CASE f \in Drains
      <3>1. flush[f].todo # {}
        BY <1>3, <2>3, <2>4 DEF Attempt
      <3>2. /\ Current(f) \in flush[f].todo /\ Current(f) \in Clips
            /\ Current(f)' = Current(f)
        BY <1>1, <2>2, <3>1, CurrentIsLeft, CurrentKept
      <3>3. drained \cap queue = {} /\ drained \cap flush[f].todo = {}
        BY <1>6, <2>3, <2>4 DEF Told
      <3>4. /\ drained' \subseteq drained \union {Current(f)}
            /\ drained' # drained => r = "ok"
        BY <1>10 DEF AnswerFlush
      <3>5. \A c \in drained' : queuedAt'[c] # 0
        BY <1>2, <1>3, <2>3, <2>4, <3>2, <3>4 DEF Attempt
      <3>6. \A c \in drained' \ drained : Told(f, c)'
        BY <2>2, <3>2, <3>4 DEF Told
      <3>7. \A e \in Drains \ {f} : flush[e].pc = "idle" /\ flush'[e] = flush[e]
        BY <1>6, <2>2, <2>3, <2>4 DEF Flushers
      <3> QED BY <2>2, <2>3, <2>4, <3>3, <3>5, <3>6, <3>7, DrainMoves
    <2>5. CASE f \notin Drains
      <3>1. f \in Retries /\ drained' = drained
        BY <1>10, <2>5 DEF AnswerFlush, Flushers
      <3> QED BY <1>5, <2>2, <2>3, <3>1
    <2> QED BY <2>4, <2>5
  <1>11. ASSUME NEW f \in Flushers, Apply(f) PROVE OneDrain' /\ DrainedOnce'
    <2>1. PICK todo \in SUBSET (flush[f].todo \ {Current(f)}) : Continue(f, todo)
      BY <1>11 DEF Apply
    <2>2. /\ \A g \in Flushers \ {f} : flush'[g] = flush[g]
          /\ flush'[f].todo = todo
      <3>1. todo \in SUBSET Clips
        BY <1>1, <2>1 DEF FlushStates
      <3> QED BY <1>1, <2>1, <3>1, Continues
    <2>3. /\ queue' \subseteq queue /\ UNCHANGED <<queuedAt, drained>>
          /\ flush[f].pc = "applying"
          /\ flush[f].result = "ok" => Current(f) \notin queue'
      BY <1>11 DEF Apply, removeFromQueue, AtUrl, history
    <2>4. CASE f \in Drains
      <3>1. drained \cap queue' = {} /\ drained \cap todo = {}
        BY <1>6, <2>1, <2>3, <2>4 DEF Told
      <3>2. \A e \in Drains \ {f} : flush[e].pc = "idle" /\ flush'[e] = flush[e]
        BY <1>6, <2>2, <2>3, <2>4 DEF Flushers
      <3> QED BY <1>2, <2>2, <2>3, <2>4, <3>1, <3>2, DrainMoves
    <2> QED BY <1>5, <2>2, <2>3, <2>4 DEF Flushers
  <1>12. ASSUME NEW f \in Flushers, ApplyFails(f) PROVE OneDrain' /\ DrainedOnce'
    <2>1. /\ flush'[f] = Idle /\ \A g \in Flushers \ {f} : flush'[g] = flush[g]
          /\ drained' = drained \ {Current(f)} /\ UNCHANGED <<queue, queuedAt>>
          /\ flush[f].pc = "applying"
      BY <1>1, <1>12 DEF ApplyFails, store
    <2>2. CASE f \in Drains
      <3>1. drained' \cap queue = {} /\ flush'[f].todo = {}
        BY <1>6, <2>1, <2>2 DEF Told, Idle
      <3>2. \A e \in Drains \ {f} : flush[e].pc = "idle" /\ flush'[e] = flush[e]
        BY <1>6, <2>1, <2>2 DEF Flushers
      <3> QED BY <1>2, <2>1, <2>2, <3>1, <3>2, DrainMoves
    <2> QED BY <1>5, <2>1, <2>2 DEF Flushers
  <1>13. CASE Evict
    <2>1. drained' = {} /\ \A f \in Flushers : flush'[f] = Idle
      BY <1>13 DEF Evict
    <2>2. \A d \in Drains : flush'[d].pc = "idle"
      BY <2>1 DEF Flushers, Idle
    <2> QED BY <2>1, <2>2 DEF OneDrain, DrainedOnce
  <1>14. CASE UNCHANGED vars \/ PauseElapses \/ Repair
    BY <1>4, <1>14 DEF vars, PauseElapses, Repair, history
  <1>15. ASSUME NEW c \in Clips,
                StartClip(c) \/ QueueClip(c) \/ \E r \in Answers : AnswerClip(c, r)
         PROVE  OneDrain' /\ DrainedOnce'
    BY <1>4, <1>15 DEF StartClip, QueueClip, AnswerClip, history
  <1>16. ASSUME NEW u \in Urls, Remove(u) PROVE OneDrain' /\ DrainedOnce'
    BY <1>4, <1>16 DEF Remove
  <1> QED BY <1>7, <1>8, <1>9, <1>10, <1>11, <1>12, <1>13, <1>14, <1>15, <1>16
          DEF Next, Use, FlushStep

----------------------------------------------------------------------------
\* The invariant is kept by every step.
LEMMA InductiveStep == IInv /\ [Next]_vars => IInv'
  <1> SUFFICES ASSUME IInv, [Next]_vars PROVE IInv'
    OBVIOUS
  <1>1. TypeOK'
    BY TypeStep
  <1>2. /\ Dated' /\ InOrder' /\ Held'
        /\ \A c \in Clips : queuedAt[c] # 0 => queuedAt'[c] = queuedAt[c]
    BY <1>1, DatesStep DEF TypeOK
  <1>3. IsFiniteSet(queue)' /\ QueueShape'
    BY ShapeStep
  <1>4. Attempts' /\ OneDrain' /\ DrainedOnce'
    BY <1>1, <1>2, AttemptsStep, DrainsStep
  <1> QED BY <1>1, <1>2, <1>3, <1>4 DEF IInv

\* The invariant holds.
LEMMA Invariance == Spec => []IInv
  <1> QED BY InitInv, InductiveStep, PTL DEF Spec

\* An entry leaves the queue because the user or the cap let it go, because
\* its page was clipped again, or because a flush was told its page is saved.
LEMMA WhyGone ==
    ASSUME IInv, [Next]_vars, NEW c \in queue, c \notin queue'
    PROVE  \/ c \in released'
           \/ \E d \in Clips : Queues(d) /\ Url[d] = Url[c]
           \/ \E f \in Flushers : Apply(f) /\ flush[f].result = "ok"
                                  /\ Url[c] = Url[Current(f)]
  <1>1. CASE UNCHANGED queue
    BY <1>1
  <1>2. ASSUME NEW d \in Clips, Queues(d)
        PROVE  c \in released' \/ Url[d] = Url[c]
    BY <1>2 DEF Queues, Store, AtUrl
  <1>3. ASSUME NEW d \in Clips, QueueClip(d)
        PROVE  UNCHANGED queue \/ Queues(d)
    <2>1. UNCHANGED store \/ \E q \in SUBSET Clips : Store(d, q) /\ d \in q
      <3>1. /\ enqueue(queue, d) \in SUBSET Clips
            /\ d \in enqueue(queue, d)
        BY Enqueued DEF IInv, TypeOK
      <3>2. Shrinks \/ Queues(d)
        BY <1>3, QueueClipQueues DEF IInv
      <3>3. CASE Queues(d)
        BY <3>1, <3>3 DEF Queues
      <3>4. CASE Shrinks
        <4>1. ~Store(d, queue')
          BY <3>4 DEF Shrinks, Store, IInv, TypeOK
        <4>2. \A q : Store(d, q) => q = queue'
          BY DEF Store
        <4> QED BY <1>3, <4>1, <4>2 DEF QueueClip
      <3> QED BY <3>2, <3>3, <3>4
    <2>2. Shrinks \/ Queues(d)
      BY <1>3, QueueClipQueues DEF IInv
    <2>3. ASSUME Shrinks, NEW q, Store(d, q) PROVE FALSE
      BY <2>3 DEF Shrinks, Store, IInv, TypeOK
    <2> QED BY <2>1, <2>2, <2>3 DEF store
  <1>4. ASSUME NEW u \in Urls, Remove(u) PROVE c \in released'
    BY <1>4 DEF Remove, removeFromQueue
  <1>5. ASSUME NEW f \in Flushers, Apply(f)
        PROVE  flush[f].result = "ok" /\ Url[c] = Url[Current(f)]
    BY <1>5 DEF Apply, removeFromQueue, AtUrl
  <1>6. CASE UNCHANGED vars \/ PauseElapses \/ Repair \/ Evict
    BY <1>1, <1>6 DEF vars, PauseElapses, Repair, Evict, store
  <1>7. ASSUME NEW d \in Clips,
               StartClip(d) \/ \E r \in Answers : AnswerClip(d, r)
        PROVE  UNCHANGED queue
    BY <1>7 DEF StartClip, AnswerClip, store
  <1>8. ASSUME NEW d \in Drains, StartDrain(d) PROVE UNCHANGED queue
    BY <1>8 DEF StartDrain, store
  <1>9. ASSUME NEW f \in Retries, NEW u \in Urls \union {AnyUrl}, StartRetry(f, u)
        PROVE  UNCHANGED queue
    BY <1>9 DEF StartRetry, store
  <1>10. ASSUME NEW f \in Flushers,
                \/ ReadQueue(f) \/ ApplyFails(f)
                \/ \E r \in Answers : AnswerFlush(f, r)
         PROVE  UNCHANGED queue
    BY <1>10 DEF ReadQueue, ApplyFails, AnswerFlush, store
  <1> QED BY <1>1, <1>2, <1>3, <1>4, <1>5, <1>6, <1>7, <1>8, <1>9, <1>10
          DEF Next, Use, FlushStep

\* What is known of a clip that is gone stays known.
LEMMA StaysAccounted ==
    ASSUME IInv, [Next]_vars, TypeOK', NEW c \in Clips, queuedAt[c] # 0,
           \/ AccountedFor(c)
           \/ \E d \in saved : queuedAt[d] # 0 /\ Replaces(c, d)
    PROVE  \/ AccountedFor(c)'
           \/ (\E d \in saved : queuedAt[d] # 0 /\ Replaces(c, d))'
  <1>1. \A d \in Clips : queuedAt[d] # 0 => queuedAt'[d] = queuedAt[d]
    BY DatesStep DEF TypeOK
  <1>2. saved \subseteq saved' /\ released \subseteq released'
    BY HistoryGrows
  <1>3. saved \subseteq Clips /\ \A d \in Clips : queuedAt[d] \in Nat
    BY DEF IInv, TypeOK
  <1>4. CASE c \in saved \union released
    BY <1>2, <1>4 DEF AccountedFor
  <1>5. ASSUME NEW d \in Clips, Replaces(d, c) PROVE Replaces(d, c)'
    BY <1>1, <1>3, <1>5 DEF Replaces
  <1>6. ASSUME NEW d \in saved, queuedAt[d] # 0, Replaces(c, d)
        PROVE  d \in saved' /\ queuedAt'[d] # 0 /\ Replaces(c, d)'
    BY <1>1, <1>2, <1>3, <1>6 DEF Replaces
  <1> QED BY <1>4, <1>5, <1>6 DEF AccountedFor

\* A clip that goes is accounted for, or went in the race.
LEMMA GoneAccounted ==
    ASSUME IInv, [Next]_vars, TypeOK', NEW c \in queue, c \notin queue'
    PROVE  \/ AccountedFor(c)'
           \/ (\E d \in saved : queuedAt[d] # 0 /\ Replaces(c, d))'
  <1>1. \A d \in Clips : queuedAt[d] # 0 => queuedAt'[d] = queuedAt[d]
    BY DatesStep DEF TypeOK
  <1>2. c \in Clips /\ queuedAt[c] # 0 /\ \A d \in Clips : queuedAt[d] \in Nat
    BY DEF IInv, TypeOK, Held
  <1>3. CASE c \in released'
    BY <1>3 DEF AccountedFor
  <1>4. ASSUME NEW d \in Clips, Queues(d), Url[d] = Url[c]
        PROVE  Replaces(d, c)'
    <2>1. queuedAt'[d] = clock + 1 /\ clock \in Nat
      BY <1>4 DEF Queues, Store, IInv, TypeOK
    <2>2. queuedAt'[c] = queuedAt[c] /\ queuedAt[c] <= clock
      BY <1>1, <1>2 DEF IInv, Dated
    <2> QED BY <1>2, <1>4, <2>1, <2>2 DEF Replaces
  <1>5. ASSUME NEW f \in Flushers, Apply(f), flush[f].result = "ok",
               Url[c] = Url[Current(f)]
        PROVE  \/ AccountedFor(c)'
               \/ (\E d \in saved : queuedAt[d] # 0 /\ Replaces(c, d))'
    <2> DEFINE d == Current(f)
    <2>1. Attempt(f) /\ flush[f].pc = "applying"
      BY <1>5 DEF IInv, Attempts, Apply
    <2>2. d \in flush[f].todo /\ d \in Clips
      BY <2>1, CurrentIsLeft DEF Attempt, IInv
    <2>3. d \in saved /\ queuedAt[d] # 0
      BY <1>5, <2>1, <2>2 DEF Attempt
    <2>4. d \in saved' /\ queuedAt' = queuedAt
      BY <1>5, <2>3 DEF Apply, history
    <2> HIDE DEF d
    <2>5. CASE queuedAt[d] > queuedAt[c]
      BY <1>5, <2>2, <2>4, <2>5 DEF AccountedFor, Replaces, d
    <2>6. CASE queuedAt[c] > queuedAt[d]
      BY <1>5, <2>3, <2>4, <2>6 DEF Replaces, d
    <2>7. CASE queuedAt[c] = queuedAt[d]
      <3>1. c = d
        BY <1>2, <2>2, <2>7 DEF IInv, InOrder
      <3> QED BY <2>4, <3>1 DEF AccountedFor
    <2> QED BY <1>2, <2>2, <2>5, <2>6, <2>7
  <1> QED BY <1>3, <1>4, <1>5, WhyGone DEF AccountedFor

----------------------------------------------------------------------------
\* The variables keep their types: a flush at work posts an entry that exists.
THEOREM TypeCorrect == Spec => []TypeOK
  <1>1. IInv => TypeOK
    BY DEF IInv
  <1> QED BY <1>1, Invariance, PTL

\* One entry per page and never more than the cap, whatever order clips,
\* removals and flushes come in (shared/queue.ts:26-32).
THEOREM QueueShapeHolds == Spec => []QueueShape
  <1>1. IInv => QueueShape
    BY DEF IInv
  <1> QED BY <1>1, Invariance, PTL

\* No drain posts what a drain of this worker was told is saved
\* (service-worker.ts:226-230).
THEOREM NoDoubleDrainHolds == Spec => []NoDoubleDrain
  <1>1. IInv => NoDoubleDrain
    <2> SUFFICES ASSUME IInv, NEW d \in Drains, flush[d].pc = "posting"
                 PROVE  Current(d) \notin drained
      BY DEF NoDoubleDrain
    <2>1. d \in Flushers /\ flush[d].todo # {}
      BY DEF Flushers, IInv, Attempts, Attempt
    <2>2. Current(d) \in flush[d].todo
      BY <2>1, CurrentIsLeft DEF IInv
    <2> QED BY <2>2 DEF IInv, DrainedOnce, Told
  <1> QED BY <1>1, Invariance, PTL

\* Whatever a flush read before its POST, what left the queue meanwhile stays
\* out of it (queue-flush.ts:1-6).
THEOREM NeverResurrectedHolds == Spec => NeverResurrected
  <1> DEFINE Gone == \A c \in Clips : queuedAt[c] # 0 /\ c \notin queue
                                      => c \notin queue'
  <1>1. IInv /\ [Next]_vars => Gone
    <2> SUFFICES ASSUME IInv, [Next]_vars,
                        NEW c \in Clips, queuedAt[c] # 0, c \notin queue
                 PROVE  c \notin queue'
      OBVIOUS
    <2>1. CASE Shrinks
      BY <2>1 DEF Shrinks
    <2>2. ASSUME NEW d \in Clips, Queues(d) PROVE c \notin queue'
      <3>1. queue' \subseteq queue \union {d} /\ queuedAt[d] = 0
        BY <2>2, Enqueued DEF Queues, Store, IInv, Dated
      <3> QED BY <3>1
    <2> QED BY <2>1, <2>2, StoreSteps DEF IInv
  <1>2. IInv /\ [Next]_vars => [Gone]_vars
    BY <1>1
  <1> HIDE DEF Gone
  <1>3. Spec => [][Gone]_vars
    BY <1>2, Invariance, PTL DEF Spec
  <1> QED BY <1>3 DEF NeverResurrected, Gone

\* A queued clip disappears unsaved only when an older clip of its page was
\* being posted as it was queued, and was saved (queue-flush.ts:76-80).
THEOREM LossNeedsRaceHolds == Spec => []LossNeedsRace
  <1>1. Init => LossNeedsRace
    BY DEF Init, LossNeedsRace
  <1>2. IInv /\ LossNeedsRace /\ [Next]_vars /\ IInv' => LossNeedsRace'
    <2> SUFFICES ASSUME IInv, LossNeedsRace, [Next]_vars, IInv',
                        NEW c \in Clips, queuedAt'[c] # 0, c \notin queue'
                 PROVE  \/ AccountedFor(c)'
                        \/ (\E d \in saved : queuedAt[d] # 0 /\ Replaces(c, d))'
      BY DEF LossNeedsRace
    <2>1. TypeOK'
      BY DEF IInv
    <2>2. queuedAt[c] # 0
      <3>1. ASSUME NEW d \in Clips, Queues(d) PROVE queuedAt[c] # 0
        <4>1. d \in queue' /\ queuedAt' = [queuedAt EXCEPT ![d] = clock + 1]
          BY <3>1 DEF Queues, Store
        <4>2. c # d
          BY <4>1
        <4> QED BY <4>1, <4>2 DEF IInv, TypeOK
      <3> QED BY <3>1, StoreSteps DEF IInv, Shrinks
    <2>3. CASE c \in queue
      BY <2>1, <2>3, GoneAccounted
    <2>4. CASE c \notin queue
      <3>1. \/ AccountedFor(c)
            \/ \E d \in saved : queuedAt[d] # 0 /\ Replaces(c, d)
        BY <2>2, <2>4 DEF LossNeedsRace
      <3> QED BY <2>1, <2>2, <3>1, StaysAccounted
    <2> QED BY <2>3, <2>4
  <1> QED BY <1>1, <1>2, Invariance, PTL DEF Spec

----------------------------------------------------------------------------
\* Calm takes steps away and adds none: answers are fewer, trouble is over.
LEMMA LiveStep == [LiveNext]_liveVars => [Next]_vars
  <1> SUFFICES ASSUME [LiveNext]_liveVars PROVE [Next]_vars
    OBVIOUS
  <1>1. ASSUME NEW f \in Flushers, FlushStep(f, Answering) PROVE FlushStep(f, Answers)
    <2>1. Answering \subseteq Answers
      BY DEF Answering, Answers, Transient
    <2> QED BY <1>1, <2>1 DEF FlushStep
  <1>2. CASE Use \/ Repair \/ Evict \/ \E f \in Flushers : ApplyFails(f)
    BY <1>2 DEF Next
  <1>3. CASE \E f \in Flushers : FlushStep(f, Answering)
    BY <1>1, <1>3 DEF Next
  <1>4. CASE UNCHANGED vars
    BY <1>4
  <1> QED BY <1>2, <1>3, <1>4 DEF LiveNext, Calm, liveVars

\* The queue of the liveness claims, which may come to rest from trouble for good, is
\* the queue of the safety claims (service-worker.ts:226-262, queue-flush.ts:56-98).
THEOREM LiveImplements == LiveSpec => Spec
  <1>1. LiveInit => Init
    BY DEF LiveInit
  <1> QED BY <1>1, LiveStep, PTL DEF LiveSpec, Spec

\* So it loses, doubles and brings back no more than that: what EventuallyDrained
\* says leaves the queue in the end has left it in one of the ways LossNeedsRace names.
THEOREM LiveKeepsQueueSafe ==
    LiveSpec => [](QueueShape /\ NoDoubleDrain /\ LossNeedsRace) /\ NeverResurrected
  BY LiveImplements, QueueShapeHolds, NoDoubleDrainHolds, LossNeedsRaceHolds,
     NeverResurrectedHolds, PTL
=============================================================================
