---------------------------- MODULE AtomicStore ----------------------------
(***************************************************************************)
(* What a persisted store of the service worker promises its callers.      *)
(*                                                                         *)
(* Every store (clip queue, connection, agent runs, brief runs, passages,  *)
(* disclosure log, service bindings) is one storage key that several       *)
(* tasks of the worker edit.  The promise: the edits are serial, and a     *)
(* caller whose promise resolves has seen its own edit made, one whose     *)
(* promise rejects has made none.  A caller that dies with its worker is   *)
(* not told.                                                               *)
(***************************************************************************)
EXTENDS SerialStore

VARIABLE settled    \* what became of each edit, as its caller sees it

vars == <<serial, settled>>

\* "new": not submitted; "waiting": its promise is pending; then resolved,
\* rejected, or gone with the worker that held the promise.
Outcome == {"new", "waiting", "resolved", "rejected", "gone"}

TypeOK ==
    /\ value \in Values
    /\ pending \in Seq(Edits)
    /\ settled \in [Edits -> Outcome]

Init ==
    /\ SerialInit
    /\ settled = [op \in Edits |-> "new"]

\* Each edit is submitted once at most.
Submit(op) ==
    /\ settled[op] = "new"
    /\ Link(op)
    /\ settled' = [settled EXCEPT ![op] = "waiting"]

\* Its caller is told that the edit has landed ...
Commit == Land /\ settled' = [settled EXCEPT ![Head(pending)] = "resolved"]

\* ... or that it is refused.
Refuse == Drop /\ settled' = [settled EXCEPT ![Head(pending)] = "rejected"]

\* No waiting caller learns anything.
Evict ==
    /\ Lose
    /\ settled' = [op \in Edits |->
                      IF settled[op] = "waiting" THEN "gone" ELSE settled[op]]

Next == (\E op \in Edits : Submit(op)) \/ Commit \/ Refuse \/ Evict

Spec == Init /\ [][Next]_vars
=============================================================================
