SPECIFICATION Spec
CONSTANTS
    A = A
    B = B
    Stations = {A, B}
    NoStation = NoStation
    MaxUnits = 3
    Retries = 1
    Configs <- NoVerifyConfigs
PROPERTIES NeverReflashed
CHECK_DEADLOCK FALSE
