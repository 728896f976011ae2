SPECIFICATION Spec
CONSTANTS
    Streams = {1, 2}
    Configs <- MCConfigs
    SsnMod = 4
INVARIANTS
    Accounted
    NeverStuck
PROPERTIES
    ServiceSpec
CHECK_DEADLOCK FALSE
