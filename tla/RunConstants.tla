---------------------------- MODULE RunConstants ----------------------------
(* What a RunStore is of: its runs, its questions and its budgets.          *)
EXTENDS Naturals

CONSTANTS
    Runs,       \* the run ids
    Keys,       \* the questions: a subject and a lane
    Terms,      \* those whose subject is a term
    Owners,     \* where a run may have been invoked
    NoRun,      \* no run
    MaxStored,  \* MAX_STORED_RUNS
    MaxTerms    \* MAX_STORED_TERM_RUNS

ASSUME RunStoreAssumption ==
    /\ Terms \subseteq Keys /\ NoRun \notin Runs
    /\ MaxStored \in Nat \ {0} /\ MaxTerms \in Nat \ {0}
=============================================================================
