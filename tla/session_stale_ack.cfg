SPECIFICATION Spec
CONSTANTS
    Pac <- MCPac
    LogicalBase = 100
    FdlPrefixed <- MCFdlPrefixed
    Fdl2Prefixed <- MCFdl2Prefixed
    FormatNames <- MCFormatNames
    Partitions <- PlanPartitions
    Erases <- EraseOps
    Markers <- DataMarkers
    NvEntry = "NV"
    Size <- MCSize
    Overlaps <- PacOverlaps
    Format = FALSE
    VerifyReadback = FALSE
    Reset = TRUE
    Chunk = 4
    MinChunk = 2
    ReadChunk = 2
    Faults = {"late", "refuse"}
    MaxLosses = 0
INVARIANTS OkMeansFlashed
