---- MODULE MCClipQueueLive ----
(* ClipQueueLive with three pages, room for two and both triggers of the     *)
(* drain, so that the cap and a round of several entries are met.            *)
EXTENDS ClipQueueLive, TLC

CONSTANTS c1, c2, c3, u1, u2, u3, alarm, start

MCClips == {c1, c2, c3}
MCUrls == {u1, u2, u3}
MCUrl == c1 :> u1 @@ c2 :> u2 @@ c3 :> u3
MCDrains == {alarm, start}
====
