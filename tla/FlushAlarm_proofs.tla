-------------------------- MODULE FlushAlarm_proofs --------------------------
(***************************************************************************)
(* How a queue with work may be left without a wakeup, for any number of   *)
(* clips and popup messages in hand, any length of the queue and any       *)
(* number of faults.                                                       *)
(***************************************************************************)
EXTENDS FlushAlarm, TLAPS

\* The steps from which a task goes on to find an alarm, or to arm one, if the
\* queue has work by then.
Owing == {"flushing", "unpausing", "syncing", "asking", "rearming", "checking",
          "creating"}

\* Whenever a running worker has work, no alarm, and no race or fault to blame
\* for it, some task still owes the alarm.
SomebodyOwes ==
    awake /\ length > 0 /\ alarm = "none" /\ ~unarmed
        => \E t \in Tasks : task[t].pc \in Owing

IInv == TypeOK /\ SomebodyOwes

Pcs == {"idle", "flushing", "unpausing"} \union SyncPc
Stands == [pc : Pcs, queued : BOOLEAN]

\* Moving one task leaves the others where they are.
LEMMA GotoTypes ==
    ASSUME NEW t \in Tasks, NEW pc \in Pcs, task \in [Tasks -> Stands], Goto(t, pc)
    PROVE  /\ task' \in [Tasks -> Stands]
           /\ task'[t].pc = pc
           /\ \A u \in Tasks : u # t => task'[u] = task[u]
  BY DEF Goto, Stands

\* Calling the drain leaves the tasks typed and takes nobody's debt away.
LEMMA CallDrainTypes ==
    ASSUME NEW s \in [Tasks -> Stands]
    PROVE  /\ CallDrain(s) \in [Tasks -> Stands]
           /\ \A u \in Tasks : s[u].pc \in Owing => CallDrain(s)[u].pc \in Owing
  BY DEF CallDrain, Stands, Pcs, Tasks, Owing

\* A task that is through leaves the others' debts as they are.
LEMMA DoneTypes ==
    ASSUME NEW t \in Tasks, task \in [Tasks -> Stands], Done(t)
    PROVE  /\ task' \in [Tasks -> Stands]
           /\ \A u \in Tasks : u # t /\ task[u].pc \in Owing => task'[u].pc \in Owing
  <1> DEFINE ended == [task EXCEPT ![t] = Idle]
  <1>1. /\ ended \in [Tasks -> Stands]
        /\ \A u \in Tasks : u # t => ended[u] = task[u]
    BY DEF Idle, Stands, Pcs
  <1>2. task' = ended \/ task' = CallDrain(ended)
    BY DEF Done
  <1> HIDE DEF ended
  <1> QED BY <1>1, <1>2, CallDrainTypes

\* At start the worker is not running yet.
LEMMA InitInv == Init => IInv
  <1> SUFFICES ASSUME Init PROVE IInv
    OBVIOUS
  <1>1. Idle \in [pc : {"idle", "flushing", "unpausing"} \union SyncPc, queued : BOOLEAN]
    BY DEF Idle
  <1>2. 0 \in 0 .. MaxFaults
    BY FlushAlarmAssumption
  <1>3. TypeOK
    BY <1>1, <1>2 DEF Init, TypeOK
  <1>4. SomebodyOwes
    BY DEF Init, SomebodyOwes
  <1> QED BY <1>3, <1>4 DEF IInv

\* The types are kept by every step.
LEMMA StepTypes == TypeOK /\ [Next]_vars => TypeOK'
  <1> SUFFICES ASSUME TypeOK, [Next]_vars PROVE TypeOK'
    OBVIOUS
  <1> USE FlushAlarmAssumption
  <1>0. task \in [Tasks -> Stands] /\ Flushers \subseteq Tasks
    BY DEF TypeOK, Stands, Pcs, Flushers, Tasks
  <1>T. ASSUME task' \in [Tasks -> Stands], length' \in 0 .. MaxLength,
               alarm' \in {"none", "periodic", "delayed"}, paused' \in BOOLEAN,
               awake' \in BOOLEAN, faults' \in 0 .. MaxFaults, unarmed' \in BOOLEAN
        PROVE  TypeOK'
    BY <1>T DEF TypeOK, Stands, Pcs
  <1>F. faults < MaxFaults => faults + 1 \in 0 .. MaxFaults
    BY DEF TypeOK
  <1>1. ASSUME NEW k \in Clippers, Clip(k) PROVE TypeOK'
    <2>1. task' \in [Tasks -> Stands] /\ length' \in 0 .. MaxLength /\ paused' \in BOOLEAN
      <3>1. k \in Tasks
        BY DEF Tasks
      <3>2. CASE task' = [task EXCEPT ![k].pc = "syncing", ![k].queued = TRUE]
                 /\ length' \in 1 .. MaxLength /\ UNCHANGED paused
        <4>1. [task[k] EXCEPT !.pc = "syncing", !.queued = TRUE] \in Stands
          BY <1>0, <3>1 DEF Stands, Pcs, SyncPc
        <4>2. task' \in [Tasks -> Stands]
          BY <1>0, <3>1, <3>2, <4>1 DEF Stands
        <4>3. length' \in 0 .. MaxLength
          BY <3>2
        <4> QED BY <3>2, <4>2, <4>3 DEF TypeOK
      <3>3. CASE paused' = FALSE /\ Goto(k, "unpausing") /\ UNCHANGED length
        BY <1>0, <3>1, <3>3, GotoTypes DEF TypeOK, Pcs
      <3>4. CASE Goto(k, "syncing") /\ UNCHANGED <<length, paused>>
        BY <1>0, <3>1, <3>4, GotoTypes DEF TypeOK, Pcs, SyncPc
      <3> QED BY <1>1, <3>2, <3>3, <3>4 DEF Clip
    <2> QED BY <1>1, <2>1, <1>T DEF Clip, TypeOK
  <1>2. ASSUME NEW m \in Poppers, Pop(m) PROVE TypeOK'
    <2>1. task' \in [Tasks -> Stands]
      BY <1>0, <1>2, GotoTypes DEF Pop, Tasks, Pcs
    <2> QED BY <1>2, <2>1, <1>T DEF Pop, TypeOK
  <1>3. ASSUME NEW f \in Flushers, Shorten(f) PROVE TypeOK'
    BY <1>0, <1>3, <1>T DEF Shorten, TypeOK
  <1>4. ASSUME NEW f \in Flushers, ClearPause(f) PROVE TypeOK'
    <2>1. task' \in [Tasks -> Stands]
      BY <1>0, <1>4, GotoTypes DEF ClearPause, Pcs
    <2> QED BY <1>4, <2>1, <1>T DEF ClearPause, TypeOK
  <1>5. ASSUME NEW f \in Flushers, EndFlush(f) PROVE TypeOK'
    <2>1. task' \in [Tasks -> Stands]
      BY <1>0, <1>5, GotoTypes DEF EndFlush, Pcs, SyncPc
    <2> QED BY <1>5, <2>1, <1>T DEF EndFlush, TypeOK
  <1>6. ASSUME NEW t \in Tasks, DropAlarm(t) PROVE TypeOK'
    <2>1. task' \in [Tasks -> Stands]
      <3>1. Goto(t, "syncing") \/ Goto(t, "flushing")
        BY <1>6 DEF DropAlarm
      <3> QED BY <1>0, <3>1, GotoTypes DEF Pcs, SyncPc
    <2> QED BY <1>6, <2>1, <1>T DEF DropAlarm, TypeOK
  <1>7. ASSUME NEW t \in Tasks, SyncStep(t) PROVE TypeOK'
    <2>1. task' \in [Tasks -> Stands]
      <3>1. \/ Done(t)
            \/ \E pc \in SyncPc : Goto(t, pc)
        BY <1>7 DEF SyncStep, ReadLength, Clear, AskPause, Rearm, CheckAlarm,
                    CreateAlarm, SyncPc
      <3> QED BY <1>0, <3>1, GotoTypes, DoneTypes DEF Pcs
    <2>2. /\ length' = length /\ paused' = paused /\ awake' = awake /\ faults' = faults
          /\ alarm' \in {alarm, "none", "periodic", "delayed"}
          /\ unarmed' \in BOOLEAN
      BY <1>7 DEF SyncStep, ReadLength, Clear, AskPause, Rearm, CheckAlarm,
                  CreateAlarm, TypeOK
    <2> QED BY <2>1, <2>2, <1>T DEF TypeOK
  <1>8. ASSUME NEW t \in Tasks, SyncFails(t) PROVE TypeOK'
    <2>1. task' \in [Tasks -> Stands]
      <3>1. \/ Done(t)
            \/ task' = [task EXCEPT ![t].pc = "checking", ![t].queued = FALSE]
        BY <1>8 DEF SyncFails
      <3>2. CASE task' = [task EXCEPT ![t].pc = "checking", ![t].queued = FALSE]
        BY <1>0, <3>2 DEF Stands, Pcs, SyncPc
      <3> QED BY <1>0, <3>1, <3>2, DoneTypes
    <2>2. unarmed' \in BOOLEAN /\ faults' \in 0 .. MaxFaults
      BY <1>8, <1>F DEF SyncFails, TypeOK
    <2> QED BY <1>8, <2>1, <2>2, <1>T DEF SyncFails, TypeOK
  <1>9. CASE Throttle
    BY <1>0, <1>9, <1>T DEF Throttle, TypeOK
  <1>10. CASE PauseElapses
    BY <1>0, <1>10, <1>T DEF PauseElapses, TypeOK
  <1>11. CASE AlarmFires
    <2>1. task' \in [Tasks -> Stands]
      <3>1. [task EXCEPT !["start"].pc = "syncing"] \in [Tasks -> Stands]
        BY <1>0 DEF Stands, Pcs, SyncPc, Tasks
      <3> QED BY <1>0, <1>11, <3>1, CallDrainTypes DEF AlarmFires
    <2> QED BY <1>11, <2>1, <1>T DEF AlarmFires, TypeOK
  <1>12. CASE Wake
    <2>1. task' \in [Tasks -> Stands]
      BY <1>0, <1>12, GotoTypes DEF Wake, Pcs, SyncPc, Tasks
    <2> QED BY <1>12, <2>1, <1>T DEF Wake, TypeOK
  <1>13. CASE GoIdle
    BY <1>0, <1>13, <1>T DEF GoIdle, TypeOK
  <1>14. CASE Evict
    <2>1. task' \in [Tasks -> Stands]
      BY <1>14 DEF Evict, Idle, Stands, Pcs
    <2> QED BY <1>14, <2>1, <1>T, <1>F DEF Evict, TypeOK
  <1>15. CASE UNCHANGED vars
    BY <1>15 DEF vars, TypeOK
  <1> QED BY <1>1, <1>2, <1>3, <1>4, <1>5, <1>6, <1>7, <1>8, <1>9, <1>10, <1>11, <1>12,
             <1>13, <1>14, <1>15 DEF Next

\* Every step that ends a debt arms an alarm, finds one, or is on record as the
\* race or the fault it is.
LEMMA StepOwes == IInv /\ [Next]_vars => SomebodyOwes'
  <1> SUFFICES ASSUME IInv, [Next]_vars,
                      awake', length' > 0, alarm' = "none", ~unarmed'
               PROVE  \E t \in Tasks : task'[t].pc \in Owing
    BY DEF SomebodyOwes
  <1> USE FlushAlarmAssumption
  <1>0. task \in [Tasks -> Stands] /\ Flushers \subseteq Tasks
    BY DEF IInv, TypeOK, Stands, Pcs, Flushers, Tasks
  \* A task that moves on to a step from which it owes.
  <1>G. ASSUME NEW t \in Tasks, NEW pc \in Owing, Goto(t, pc)
        PROVE  \E u \in Tasks : task'[u].pc \in Owing
    BY <1>0, <1>G, GotoTypes DEF Owing, Pcs, SyncPc
  \* A debt of before the step that is nobody's but t's.
  <1>D. ASSUME awake, length > 0, alarm = "none", ~unarmed
        PROVE  \E t \in Tasks : task[t].pc \in Owing
    BY <1>D DEF IInv, SomebodyOwes
  <1>1. ASSUME NEW k \in Clippers, Clip(k) PROVE \E t \in Tasks : task'[t].pc \in Owing
    <2>1. k \in Tasks
      BY DEF Tasks
    <2>2. CASE task' = [task EXCEPT ![k].pc = "syncing", ![k].queued = TRUE]
      BY <1>0, <2>1, <2>2 DEF Owing, Stands
    <2>3. CASE Goto(k, "unpausing") \/ Goto(k, "syncing")
      BY <2>1, <2>3, <1>G DEF Owing
    <2> QED BY <1>1, <2>2, <2>3 DEF Clip
  <1>2. ASSUME NEW m \in Poppers, Pop(m) PROVE \E t \in Tasks : task'[t].pc \in Owing
    BY <1>2, <1>G DEF Pop, Tasks, Owing
  <1>3. ASSUME NEW f \in Flushers, Shorten(f) PROVE \E t \in Tasks : task'[t].pc \in Owing
    BY <1>0, <1>3 DEF Shorten, Owing
  <1>4. ASSUME NEW f \in Flushers, ClearPause(f) PROVE \E t \in Tasks : task'[t].pc \in Owing
    BY <1>0, <1>4, <1>G DEF ClearPause, Owing
  <1>5. ASSUME NEW f \in Flushers, EndFlush(f) PROVE \E t \in Tasks : task'[t].pc \in Owing
    BY <1>0, <1>5, <1>G DEF EndFlush, Owing
  <1>6. ASSUME NEW t \in Tasks, DropAlarm(t) PROVE \E u \in Tasks : task'[u].pc \in Owing
    <2>1. Goto(t, "syncing") \/ Goto(t, "flushing")
      BY <1>6 DEF DropAlarm
    <2> QED BY <2>1, <1>G DEF Owing
  <1>7. ASSUME NEW t \in Tasks, SyncStep(t) PROVE \E u \in Tasks : task'[u].pc \in Owing
    <2>1. CASE ReadLength(t)
      <3>1. Goto(t, "asking")
        BY <2>1 DEF ReadLength
      <3> QED BY <3>1, <1>G DEF Owing
    <2>2. CASE Clear(t)
      BY <2>2 DEF Clear
    <2>3. CASE AskPause(t)
      <3>1. Goto(t, "rearming") \/ Goto(t, "checking")
        BY <2>3 DEF AskPause
      <3> QED BY <3>1, <1>G DEF Owing
    <2>4. CASE Rearm(t)
      BY <2>4 DEF Rearm
    <2>5. CASE CheckAlarm(t)
      <3>1. Goto(t, "creating")
        BY <2>5 DEF CheckAlarm
      <3> QED BY <3>1, <1>G DEF Owing
    <2>6. CASE CreateAlarm(t)
      BY <2>6 DEF CreateAlarm
    <2> QED BY <1>7, <2>1, <2>2, <2>3, <2>4, <2>5, <2>6 DEF SyncStep
  <1>8. ASSUME NEW t \in Tasks, SyncFails(t) PROVE \E u \in Tasks : task'[u].pc \in Owing
    <2>1. task' = [task EXCEPT ![t].pc = "checking", ![t].queued = FALSE]
      BY <1>8 DEF SyncFails
    <2> QED BY <1>0, <2>1 DEF Owing, Stands
  <1>9. CASE Throttle
    BY <1>9, <1>D DEF Throttle
  <1>10. CASE PauseElapses
    BY <1>10, <1>D DEF PauseElapses
  <1>11. CASE AlarmFires
    BY <1>11 DEF AlarmFires
  <1>12. CASE Wake
    BY <1>12, <1>G DEF Wake, Tasks, Owing
  <1>13. CASE GoIdle
    BY <1>13 DEF GoIdle
  <1>14. CASE Evict
    BY <1>14 DEF Evict
  <1>15. CASE UNCHANGED vars
    BY <1>15, <1>D DEF vars
  <1> QED BY <1>1, <1>2, <1>3, <1>4, <1>5, <1>6, <1>7, <1>8, <1>9, <1>10, <1>11, <1>12,
             <1>13, <1>14, <1>15 DEF Next

\* The invariant holds throughout.
LEMMA SpecInv == Spec => []IInv
  <1>1. IInv /\ [Next]_vars => IInv'
    BY StepTypes, StepOwes DEF IInv
  <1> QED BY InitInv, <1>1, PTL DEF Spec

\* Tasks, alarm and length keep their types; in particular the length never
\* goes below zero, however many flushes take entries out.
THEOREM TypeCorrect == Spec => []TypeOK
  <1>1. IInv => TypeOK
    BY DEF IInv
  <1> QED BY <1>1, SpecInv, PTL

\* A worker at rest with work in its queue has an alarm to wake it, but for the
\* clear behind a clip's back, the failure without a fallback and the eviction
\* (service-worker.ts:260-294).
THEOREM WakeupHolds == Spec => []WakeupLostOnlyToRace
  <1>1. IInv => WakeupLostOnlyToRace
    BY DEF IInv, TypeOK, SomebodyOwes, WakeupLostOnlyToRace, AllIdle, Owing
  <1> QED BY <1>1, SpecInv, PTL
=============================================================================
