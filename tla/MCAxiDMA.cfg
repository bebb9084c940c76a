CONSTANTS
    MaxSize = 7
    Align = 2
    Sizes = {3, 5, 13}
    None = None
CONSTRAINT Narrow
SPECIFICATION DmaSpec
INVARIANTS WaitMeansDone MemoryHeld TransferTiled
PROPERTY WaitEnds
