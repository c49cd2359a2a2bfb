SPECIFICATION Spec
CONSTANTS
    A = A
    B = B
    Stations = {A, B}
    Nobody = Nobody
    Keep = 2
    Configs <- MCConfigs
INVARIANTS TypeOK SummaryAddsUp LossIsBounded
PROPERTIES MesIsFaithful RunReturns
CHECK_DEADLOCK FALSE
