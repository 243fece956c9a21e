SPECIFICATION FairSpec
CONSTANTS
    Clusters = {"c1"}
    Leaving = {"c1"}
    UserPlugins <- OwnPlugins
    RetainPlugins <- PresetPlugins
    Policies = {"Delete", "Retain"}
    Lagging = {"cluster", "preset"}
    MaxUid = 1
    MaxEdits = 4
    MaxOutages = 1
    MaxRestarts = 1
INVARIANTS
    HubSafe
    OffboardingUninstalls
    PluginWaitsForUninstall
PROPERTIES
    RetainKeepsPlugins
    RetainedReleaseStays
CHECK_DEADLOCK FALSE
