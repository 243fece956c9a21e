SPECIFICATION FairSpec
CONSTANTS
    Resources = {r1, r2}
    Kinds = {{"suspendable"}, {"foreign"}}
    MaxLag = 2
    MaxDisturbances = 3
INVARIANTS
    TypeOK
    NoLeak
    DeletedMeansClean
PROPERTIES
    SuspensionBlocks
    DeletionCompletes
    ImplementsManagedResource
CHECK_DEADLOCK TRUE
