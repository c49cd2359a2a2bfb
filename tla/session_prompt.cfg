SPECIFICATION Spec
CONSTANTS
    Pac <- MCPac
    LogicalBase = 100
    FdlPrefixed <- MCFdlPrefixed
    Fdl2Prefixed <- MCFdl2Prefixed
    FormatNames <- MCFormatNames
    Partitions <- PlanPartitions
    Erases <- EraseOps
    Markers <- DataMarkers
    NvEntry = "NV"
    Size <- MCSize
    Overlaps <- PacOverlaps
    Format = TRUE
    VerifyReadback = TRUE
    Reset = TRUE
    Chunk = 4
    MinChunk = 1
    ReadChunk = 2
    Faults = {"loss", "refuse", "port", "payload"}
    MaxLosses = 5
INVARIANTS OkMeansFlashed PacIsFlashed BootsOnlyFlashed BufferIsPrefix PromptInv
PROPERTIES IsFlashJob StallsAreSurvived Terminates
