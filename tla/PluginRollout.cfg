SPECIFICATION FairSpec
CONSTANTS
    MaxEdits = 1
    MaxMishaps = 1
INVARIANTS
    RolloutSafe
PROPERTIES
    PluginSettles
    PresetSettles
