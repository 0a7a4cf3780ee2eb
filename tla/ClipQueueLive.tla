--------------------------- MODULE ClipQueueLive ---------------------------
(***************************************************************************)
(* What the offline queue promises once nothing stands in its way.  The    *)
(* queue of ClipQueue lives through any trouble first: evictions, storage  *)
(* that takes no writes, a gateway that fails or throttles, a user who     *)
(* unpairs.  At some point, with a pairing, the trouble may end for good;  *)
(* from then on every flush is answered with success or refusal, and users *)
(* may still clip, retry and remove.                                       *)
(***************************************************************************)
EXTENDS ClipQueue

VARIABLE calm    \* the trouble is over

liveVars == <<vars, calm>>

LiveInit == Init /\ calm = FALSE

Calm ==
    /\ paired
    /\ calm' = TRUE
    /\ UNCHANGED vars

Answering == IF calm THEN {"ok", "refused"} ELSE Answers

LiveNext ==
    \/ Use /\ UNCHANGED calm
    \/ \E f \in Flushers : FlushStep(f, Answering) /\ UNCHANGED calm
    \/ ~calm /\ (Repair \/ Evict \/ \E f \in Flushers : ApplyFails(f)) /\ UNCHANGED calm
    \/ Calm

\* The alarm keeps calling the drain, a drain's awaits settle and a pause runs
\* out; nobody has to clip, retry, remove or pair, and trouble need not end.
LiveSpec ==
    /\ LiveInit /\ [][LiveNext]_liveVars
    /\ WF_liveVars((\E d \in Drains : StartDrain(d)) /\ UNCHANGED calm)
    /\ \A f \in Drains : WF_liveVars(FlushStep(f, Answering) /\ UNCHANGED calm)
    /\ WF_liveVars(PauseElapses /\ UNCHANGED calm)

----------------------------------------------------------------------------
\* Once the trouble is over every entry leaves the queue or is marked as one
\* that only the user can retry: no entry holds up another, and no round ends
\* for good with work left (queue-flush.ts:56-70).
EventuallyDrained ==
    <>calm => \A c \in Clips : c \in queue ~> (c \notin queue \/ c \in terminal)
=============================================================================
