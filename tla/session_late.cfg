SPECIFICATION Spec
CONSTANTS
    Pac <- MCPac
    LogicalBase = 100
    FdlPrefixed <- MCFdlPrefixed
    Fdl2Prefixed <- MCFdl2Prefixed
    FormatNames <- MCFormatNames
    Partitions <- PlanPartitions
    Erases <- EraseOps
    Markers <- DataMarkers
    NvEntry = "NV"
    Size <- MCSize
    Overlaps <- PacOverlaps
    Format = FALSE
    VerifyReadback = TRUE
    Reset = TRUE
    Chunk = 4
    MinChunk = 1
    ReadChunk = 2
    Faults = {"loss", "late", "refuse", "badcell"}
    MaxLosses = 2
INVARIANTS OkMeansReadBack
