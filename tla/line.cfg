SPECIFICATION Spec
CONSTANTS
    A = A
    B = B
    Stations = {A, B}
    NoStation = NoStation
    MaxUnits = 3
    Retries = 1
    Configs <- MCConfigs
INVARIANTS PassIsGenuine
PROPERTIES IsLineJob NeverReflashed UnitsAreRecorded StopEnds
CHECK_DEADLOCK FALSE
