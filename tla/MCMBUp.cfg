CONSTANTS
    None = None
    Rubbish = Rubbish
    L = 3
    Byte = {0, 1}
    Zero = 0
    MaxBlock = 3
    Blocks <- MCUpBlocks
    Sizes <- MCPySizes
    PyWrites = FALSE
    Collisions = TRUE
    MaxNested = 1
CONSTRAINT Fresh
SPECIFICATION FairSpec
PROPERTIES
    ImplementsQueue
    CallsReturn
