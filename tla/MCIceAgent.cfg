CONSTANTS
    MaxBinding = 0
    Settings <- MCSettings
SPECIFICATION FairSpec
INVARIANTS
    SelectedChecked
    OneSelection
PROPERTIES
    NoPanic
    Connect
CHECK_DEADLOCK FALSE
