SPECIFICATION FairSpec
CONSTANTS
    Source = {"s1"}
    Overridden = {"s1"}
    Definition = {"s1"}
    MaxDigest = 3
    MaxVersion = 3
    MaxMishaps = 1
    Without = {}
    Optionless = {}
    Chartless = {2}
    Mirror = "mirror"
    MaxEdits = 2
INVARIANTS
    DeliverySafe
PROPERTIES
    InventoryObeyed
    CatalogRecovers
    DefinitionRecovers
CHECK_DEADLOCK FALSE
