SPECIFICATION FairSpec
CONSTANTS
    Clusters = {"c1"}
    Leaving = {"c1"}
    UserPlugins <- NoPlugins
    RetainPlugins <- NoPlugins
    Policies = {"Delete"}
    Lagging = {"cluster", "plugin"}
    MaxUid = 1
    MaxEdits = 4
    MaxOutages = 1
    MaxRestarts = 0
PROPERTIES
    OffboardingCompletes
    PresetConverges
CHECK_DEADLOCK FALSE
