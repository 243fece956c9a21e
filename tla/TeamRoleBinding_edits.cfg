SPECIFICATION FairSpec
CONSTANTS
    b1 = b1
    b2 = b2
    c1 = c1
    c2 = c2
    n1 = n1
    n2 = n2
    Bindings <- OneBinding
    Clusters <- TwoClusters
    Namespaces <- TwoNamespaces
    Namespaced <- First
    Selectors <- ByLabelsOrName
    Removable <- None
    MaxLag = 1
    MaxEdits = 2
    MaxFaults = 1
    MaxCrashes = 1
INVARIANTS
    TypeOK
    NoOrphans
PROPERTIES
    Converges
    ImplementsManagedResource
CHECK_DEADLOCK FALSE
