SPECIFICATION FairAdmissionSpec
CONSTANT MaxChanges = 3
INVARIANTS
    StoredIsAdmissible
PROPERTIES
    ReleaseStays
    DefaultsFollow
CHECK_DEADLOCK FALSE
