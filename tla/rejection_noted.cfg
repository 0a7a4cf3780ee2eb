SPECIFICATION Spec
INVARIANTS
    RejectionIsNoted
CHECK_DEADLOCK FALSE
