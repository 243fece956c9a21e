SPECIFICATION Spec
CONSTANTS
    Teams = {"t1"}
    KeepUpstreamGroups = FALSE
    MaxEdits = 2
    MaxFaults = 0
INVARIANTS
    ApplyIsIdempotent
CHECK_DEADLOCK FALSE
