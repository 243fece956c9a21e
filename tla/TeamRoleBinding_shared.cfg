SPECIFICATION FairSpec
CONSTANTS
    b1 = b1
    b2 = b2
    c1 = c1
    c2 = c2
    n1 = n1
    n2 = n2
    Bindings <- TwoBindings
    Clusters <- OneCluster
    Namespaces <- NoNamespace
    Namespaced <- None
    Selectors <- ByLabels
    Removable <- OneCluster
    MaxLag = 0
    MaxEdits = 3
    MaxFaults = 1
    MaxCrashes = 1
INVARIANTS
    NoDanglingBindings
PROPERTIES
    DeletionCompletes
CHECK_DEADLOCK FALSE
