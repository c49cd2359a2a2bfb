SPECIFICATION Spec
CONSTANTS
    Fdl1 = 2
    Fdl2 = 2
    Baud = TRUE
    MaxKicks = 2
    MaxLosses = 1
    Configs <- MCConfigs
INVARIANTS TypeOK OkMeansBroughtUp LoaderInStep
PROPERTIES Terminates StuckIsRecovered
