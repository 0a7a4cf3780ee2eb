--------------------------- MODULE AlarmConstants ---------------------------
(* Who calls upon a FlushAlarm, and how far it is followed.                 *)
EXTENDS Naturals

CONSTANTS
    Clippers,   \* the clips that may be in hand at once
    Poppers,    \* the popup's retries and removals that may be
    MaxLength,  \* bound: the longest queue followed
    MaxFaults   \* bound: rejected storage and alarm calls, evictions at work

ASSUME FlushAlarmAssumption ==
    /\ MaxLength \in Nat \ {0} /\ MaxFaults \in Nat
    /\ Clippers \cap Poppers = {}
    /\ {"drain", "start"} \cap (Clippers \union Poppers) = {}
=============================================================================
