---------------------------- MODULE SerialStore ----------------------------
(***************************************************************************)
(* What a promise chain makes of a storage key, whoever links edits on it: *)
(* they take effect one after the other, in the order they were linked,    *)
(* each whole and on the contents that the one before it left, or not at   *)
(* all.  An evicted worker takes the edits not yet made with it; the first *)
(* of them may already have been on its way to disk.                       *)
(***************************************************************************)
EXTENDS Sequences

CONSTANTS
    Edits,          \* what callers may link, any of it any number of times
    Values,         \* the well-formed contents of the key
    Result(_, _)    \* Result(edit, v): what the edit makes of contents v

VARIABLES
    value,      \* the contents a reader of the key sees
    pending     \* the edits linked and neither made nor given up

serial == <<value, pending>>

SerialInit == value \in Values /\ pending = <<>>

Link(edit) == pending' = Append(pending, edit) /\ UNCHANGED value

\* The next edit is made, in one instant.
Land ==
    /\ pending # <<>>
    /\ value' = Result(Head(pending), value)
    /\ pending' = Tail(pending)

\* It is given up and leaves no trace.
Drop == pending # <<>> /\ pending' = Tail(pending) /\ UNCHANGED value

\* The worker dies.
Lose ==
    /\ pending' = <<>>
    /\ \/ UNCHANGED value
       \/ pending # <<>> /\ value' = Result(Head(pending), value)

SerialNext == (\E edit \in Edits : Link(edit)) \/ Land \/ Drop \/ Lose

SerialSpec == SerialInit /\ [][SerialNext]_serial
=============================================================================
