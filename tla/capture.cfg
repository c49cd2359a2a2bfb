SPECIFICATION Spec
CONSTANTS
    Commands <- MCCommands
    Disks <- MCDisks
    Flash <- MCFlash
    LogicalBase = 50
    FdlPrefixed = {"FDL1", "FDL2"}
    Fdl2Prefixed = {"FDL2"}
    FormatNames = {"FMT_FSSYS", "FLASH"}
INVARIANTS NeverPanics TornIsRefused WrittenIsCaptured
CHECK_DEADLOCK FALSE
