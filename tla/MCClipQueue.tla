---------------------------- MODULE MCClipQueue ----------------------------
(* ClipQueue with two clips of one page and one of another, so that a newer  *)
(* clip meets an older one in flight, with a drain and a retry at work.  A   *)
(* behaviour has room for both pages or, when tight, for one of them, so     *)
(* that the cap is met as well.                                              *)
EXTENDS ClipQueue, TLC

CONSTANTS c1, c2, c3, u1, u2, alarm, retry

VARIABLE tight      \* the queue has room for one entry only

MCClips == {c1, c2, c3}
MCUrls == {u1, u2}
MCUrl == c1 :> u1 @@ c2 :> u1 @@ c3 :> u2
MCDrains == {alarm}
MCRetries == {retry}

Tight == INSTANCE ClipQueue WITH MaxQueue <- 1

MCInit == tight \in BOOLEAN /\ Init

MCNext ==
    /\ UNCHANGED tight
    /\ \/ ~tight /\ Next
       \/ tight /\ Tight!Next

MCSpec == MCInit /\ [][MCNext]_<<tight, vars>>

\* Two clips of one page are interchangeable.
Symmetric == Permutations({c1, c2})
----------------------------------------------------------------------------
\* One entry per page, and no more of them than there is room for
\* (shared/queue.ts:26-32).
QueueShapeAtCap == IF tight THEN Tight!QueueShape ELSE QueueShape
============================================================================
