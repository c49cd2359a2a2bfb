SPECIFICATION Spec
CONSTANTS
    A = A
    B = B
    Stations = {A, B}
    NoStation = NoStation
    MaxUnits = 3
    Retries = 1
    Configs <- AtOnlyConfigs
INVARIANTS PassIsGenuine
CHECK_DEADLOCK FALSE
