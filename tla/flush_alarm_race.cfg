SPECIFICATION Spec
CONSTANTS
    Clippers = {clip}
    Poppers = {popup}
    MaxLength = 1
    MaxFaults = 0
INVARIANTS
    WakeupArmed
