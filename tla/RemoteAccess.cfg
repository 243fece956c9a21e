SPECIFICATION FairSpec
CONSTANTS
    MaxTokenValidity = 3
    RenewAfter = 2
    BootstrapValidity = 1
    CommandValidity = 1
    Services = {"grafana"}
    Requests = {"r1"}
    MaxEdits = 1
    MaxMishaps = 1
INVARIANTS
    CredentialsSafe
PROPERTIES
    AccessRecovers
    DerivedFollows
    RequestsAnswered
