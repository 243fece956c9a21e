SPECIFICATION FairSpec
CONSTANTS
    Orgs = {"greenhouse", "acme"}
    Default = "greenhouse"
    TeamOrg = "acme"
    Users = {"ann"}
    MaxMishaps = 1
    MaxEdits = 2
INVARIANTS
    DexSafe
PROPERTIES
    OrganizationsSettle
    TeamFollows
CHECK_DEADLOCK FALSE
