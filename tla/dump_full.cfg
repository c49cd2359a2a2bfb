SPECIFICATION Spec
CONSTANTS
    Chips <- MCChips
    Block = 2
    First = 2
    Cap = 8
    ReadChunk = 3
    Faults = {"fail", "short", "empty"}
INVARIANTS DumpInv SizeIsRight ImageIsFlash OkMeansWhole
PROPERTIES Terminates
