----------------------------- MODULE FlushAlarm -----------------------------
(***************************************************************************)
(* What wakes the drain.  Whoever may have changed the offline queue ends  *)
(* by reconciling the flush alarm with it (syncQueueState): no alarm while *)
(* the queue is empty, the periodic one while it has work, a delayed one   *)
(* while a rate-limit pause is in force.  The worker is evicted when idle, *)
(* and only an alarm or a user wakes it.                                   *)
(*                                                                         *)
(* Of the queue only its length is kept; ClipQueue models its contents.    *)
(* The reconciliation awaits storage or the alarm API at every line; a     *)
(* step here is what it reads or writes between two awaits.                *)
(***************************************************************************)
EXTENDS Naturals, AlarmConstants

VARIABLES
    length,     \* how many clips the queue holds
    alarm,      \* the flush alarm
    paused,     \* the rate-limit pause is in force
    awake,      \* the worker is running
    task,       \* where each task of the worker stands
    faults,     \* the faults so far
    unarmed     \* why there may be no alarm although there is work

vars == <<length, alarm, paused, awake, task, faults, unarmed>>

Tasks == {"drain", "start"} \union Clippers \union Poppers
Flushers == {"drain"} \union Poppers

\* Before, and in, the reconciliation.
SyncPc == {"syncing", "clearing", "asking", "rearming", "checking", "creating"}

\* queued: a failing reconciliation still has an alarm to arm, for a clip that
\* was queued.
Idle == [pc |-> "idle", queued |-> FALSE]

TypeOK ==
    /\ length \in 0 .. MaxLength
    /\ alarm \in {"none", "periodic", "delayed"}
    /\ paused \in BOOLEAN /\ awake \in BOOLEAN
    /\ task \in [Tasks -> [pc     : {"idle", "flushing", "unpausing"} \union SyncPc,
                           queued : BOOLEAN]]
    /\ faults \in 0 .. MaxFaults
    /\ unarmed \in BOOLEAN

\* The worker is about to be started, over what an earlier one left.
Init ==
    /\ length \in 0 .. MaxLength
    /\ alarm \in {"none", "periodic"}
    /\ paused \in BOOLEAN
    /\ awake = FALSE
    /\ task = [t \in Tasks |-> Idle]
    /\ faults = 0
    /\ unarmed = TRUE

AllIdle == \A t \in Tasks : task[t].pc = "idle"

----------------------------------------------------------------------------
\* The single-flight drain is called; one in flight is joined.
CallDrain(tasks) ==
    IF tasks["drain"].pc = "idle" THEN [tasks EXCEPT !["drain"].pc = "flushing"]
                                  ELSE tasks

\* A task is through: the startup sequence goes on to drain.
Done(t) ==
    LET ended == [task EXCEPT ![t] = Idle]
    IN  task' = IF t = "start" THEN CallDrain(ended) ELSE ended

Goto(t, pc) == task' = [task EXCEPT ![t].pc = pc]

\* A clip is answered by the gateway.  Queued, it adds an entry or replaces one;
\* saved with a pause in force, it has ended the pause.
Clip(k) ==
    /\ awake
    /\ task[k].pc = "idle"
    /\ \/ /\ length' \in {length, length + 1} /\ length' \in 1 .. MaxLength
          /\ task' = [task EXCEPT ![k].pc = "syncing", ![k].queued = TRUE]
          /\ UNCHANGED paused
       \/ /\ paused
          /\ paused' = FALSE
          /\ Goto(k, "unpausing")
          /\ UNCHANGED length
       \/ Goto(k, "syncing") /\ UNCHANGED <<length, paused>>
    /\ UNCHANGED <<alarm, awake, faults, unarmed>>

\* The popup retries or removes: either may change the queue, a retry POSTs.
Pop(m) ==
    /\ awake
    /\ task[m].pc = "idle"
    /\ Goto(m, "flushing")
    /\ UNCHANGED <<length, alarm, paused, awake, faults, unarmed>>

\* A flush has taken an entry out.
Shorten(f) ==
    /\ task[f].pc = "flushing"
    /\ length > 0
    /\ length' = length - 1
    /\ UNCHANGED <<alarm, paused, awake, task, faults, unarmed>>

\* A flush's POST succeeds while a pause is in force: clearPause.
ClearPause(f) ==
    /\ task[f].pc = "flushing"
    /\ paused
    /\ paused' = FALSE
    /\ Goto(f, "unpausing")
    /\ UNCHANGED <<length, alarm, awake, faults, unarmed>>

\* endPause's other half: the alarm armed for the pause is dropped.
DropAlarm(t) ==
    /\ task[t].pc = "unpausing"
    /\ alarm' = "none"
    /\ Goto(t, IF t \in Clippers THEN "syncing" ELSE "flushing")
    /\ UNCHANGED <<length, paused, awake, faults, unarmed>>

\* A flush's round is over, or its gate was shut.  One that rejects reconciles
\* nothing: that is SyncFails at its first step.
EndFlush(f) ==
    /\ task[f].pc = "flushing"
    /\ Goto(f, "syncing")
    /\ UNCHANGED <<length, alarm, paused, awake, faults, unarmed>>

\* Some POST under way is answered 429.
Throttle ==
    /\ awake
    /\ ~paused
    /\ paused' = TRUE
    /\ UNCHANGED <<length, alarm, awake, task, faults, unarmed>>

PauseElapses ==
    /\ paused
    /\ paused' = FALSE
    /\ UNCHANGED <<length, alarm, awake, task, faults, unarmed>>

----------------------------------------------------------------------------
\* syncQueueState, an await at a time.

\* The length is read, and the badge painted with it on the way.
ReadLength(t) ==
    /\ task[t].pc = "syncing"
    /\ Goto(t, IF length = 0 THEN "clearing" ELSE "asking")
    /\ UNCHANGED <<length, alarm, paused, awake, faults, unarmed>>

\* Bug: an empty queue keeps its alarm.
MutantClear(t) ==
    /\ task[t].pc = "clearing"
    /\ Done(t)
    /\ UNCHANGED <<length, alarm, paused, awake, faults, unarmed>>

\* No work was seen: no alarm.
Clear(t) ==
    /\ task[t].pc = "clearing"
    /\ alarm' = "none"
    /\ unarmed' = (unarmed \/ length > 0)
    /\ Done(t)
    /\ UNCHANGED <<length, paused, awake, faults>>

AskPause(t) ==
    /\ task[t].pc = "asking"
    /\ Goto(t, IF paused THEN "rearming" ELSE "checking")
    /\ UNCHANGED <<length, alarm, paused, awake, faults, unarmed>>

\* rearmAlarm replaces whatever alarm there is.
Rearm(t) ==
    /\ task[t].pc = "rearming"
    /\ alarm' = "delayed"
    /\ unarmed' = FALSE
    /\ Done(t)
    /\ UNCHANGED <<length, paused, awake, faults>>

\* ensureAlarm leaves an alarm that exists alone.
CheckAlarm(t) ==
    /\ task[t].pc = "checking"
    /\ IF alarm = "none" THEN Goto(t, "creating") ELSE Done(t)
    /\ UNCHANGED <<length, alarm, paused, awake, faults, unarmed>>

CreateAlarm(t) ==
    /\ task[t].pc = "creating"
    /\ alarm' = "periodic"
    /\ unarmed' = FALSE
    /\ Done(t)
    /\ UNCHANGED <<length, paused, awake, faults>>

\* Bug: a clip whose reconciliation fails is left without a wakeup.
MutantSyncFails(t) ==
    /\ task[t].pc \in SyncPc
    /\ faults < MaxFaults
    /\ faults' = faults + 1
    /\ Done(t)
    /\ unarmed' = (unarmed \/ ~task[t].queued)
    /\ UNCHANGED <<length, alarm, paused, awake>>

\* A call of the reconciliation rejects.  Only a clip that was queued has a
\* fallback, the plain alarm (reconcileAfterClip), and it has it once.
SyncFails(t) ==
    /\ task[t].pc \in SyncPc
    /\ faults < MaxFaults
    /\ faults' = faults + 1
    /\ IF task[t].queued
       THEN /\ task' = [task EXCEPT ![t].pc = "checking", ![t].queued = FALSE]
            /\ UNCHANGED unarmed
       ELSE Done(t) /\ unarmed' = TRUE
    /\ UNCHANGED <<length, alarm, paused, awake>>

----------------------------------------------------------------------------
\* The alarm fires, and wakes the worker if it has to.
AlarmFires ==
    /\ alarm # "none"
    /\ alarm' = "periodic"
    /\ awake' = TRUE
    /\ task' = CallDrain(IF awake THEN task
                         ELSE [task EXCEPT !["start"].pc = "syncing"])
    /\ UNCHANGED <<length, paused, faults, unarmed>>

\* Bug: a worker that starts waits for its alarm.
MutantWake ==
    /\ ~awake
    /\ awake' = TRUE
    /\ UNCHANGED <<length, alarm, paused, task, faults, unarmed>>

\* Anything else wakes it: a message, a menu, the browser starting.
Wake ==
    /\ ~awake
    /\ awake' = TRUE
    /\ Goto("start", "syncing")
    /\ UNCHANGED <<length, alarm, paused, faults, unarmed>>

\* An idle worker is evicted.
GoIdle ==
    /\ awake
    /\ AllIdle
    /\ awake' = FALSE
    /\ UNCHANGED <<length, alarm, paused, task, faults, unarmed>>

\* So may be one at work, and what it was doing is gone.
Evict ==
    /\ awake
    /\ ~AllIdle
    /\ faults < MaxFaults
    /\ faults' = faults + 1
    /\ awake' = FALSE
    /\ task' = [t \in Tasks |-> Idle]
    /\ unarmed' = TRUE
    /\ UNCHANGED <<length, alarm, paused>>

SyncStep(t) ==
    \/ ReadLength(t) \/ Clear(t) \/ AskPause(t)
    \/ Rearm(t) \/ CheckAlarm(t) \/ CreateAlarm(t)

Next ==
    \/ \E k \in Clippers : Clip(k)
    \/ \E m \in Poppers : Pop(m)
    \/ \E f \in Flushers : Shorten(f) \/ ClearPause(f) \/ EndFlush(f)
    \/ \E t \in Tasks : DropAlarm(t) \/ SyncStep(t) \/ SyncFails(t)
    \/ Throttle
    \/ PauseElapses
    \/ AlarmFires
    \/ Wake
    \/ GoIdle
    \/ Evict

Spec == Init /\ [][Next]_vars

\* Storage and alarm calls settle; a round is over its snapshot, so it ends
\* however often a pause ends and starts meanwhile; an alarm that is armed again
\* and again fires some time (re-arming keeps the pause's deadline, and
\* ensureAlarm the countdown); an idle worker is evicted, and an evicted one is
\* woken some day by its user.
Fairness ==
    /\ \A t \in Tasks : WF_vars(SyncStep(t)) /\ WF_vars(DropAlarm(t))
    /\ \A f \in Flushers : SF_vars(EndFlush(f))
    /\ SF_vars(AlarmFires)
    /\ WF_vars(GoIdle)
    /\ WF_vars(Wake)

----------------------------------------------------------------------------
\* A worker at rest with work in the queue has an alarm to wake it, or else a
\* reconciliation cleared it as a clip was queued behind its back, failed
\* without a fallback, or was cut short by an eviction: nothing else loses the
\* wakeup (service-worker.ts:260-294).
WakeupLostOnlyToRace ==
    awake /\ AllIdle /\ length > 0 => alarm # "none" \/ unarmed

\* "Concurrent callers can therefore race here harmlessly" - at worst the alarm
\* fires early (service-worker.ts:237-241).  The code breaks it.
WakeupArmed ==
    awake /\ AllIdle /\ length > 0 => alarm # "none"

\* Work is found again whatever was lost: the next start of the worker drains.
WorkIsFound == length > 0 ~> (task["drain"].pc = "flushing" \/ length = 0)

\* The alarm exists only while there is work: one armed from stale state, with
\* the queue empty, goes once it fires ("no idle wakeups").
IdleWakeupsStop == (length = 0 /\ alarm # "none") ~> (length > 0 \/ alarm = "none")
=============================================================================
