SPECIFICATION Spec
CONSTANTS
    Block = 4
    Lengths <- MCLengths
    ImageSizes <- MCImageSizes
    Packs <- MCPacks
    Gens <- MCGens
INVARIANTS TypeOK Tiling CodeIsWhole NothingWrittenIsLost CodeIsFound LiveFsIsLongest
