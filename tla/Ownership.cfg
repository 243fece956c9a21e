SPECIFICATION FairSpec
CONSTANTS
    Teams = {"t1", "t2"}
    KeepUpstreamGroups = TRUE
    MaxEdits = 2
    MaxFaults = 1
INVARIANTS
    OwnershipSafe
PROPERTIES
    PropagationFollows
    OwnershipFollows
CHECK_DEADLOCK FALSE
