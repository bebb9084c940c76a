CONSTANTS
    None = None
    Rubbish = Rubbish
    L = 3
    Byte = {0, 1}
    Zero = 0
    MaxBlock = 3
    Blocks <- MCBlocks
    Sizes <- MCCSizes
    PyWrites = TRUE
    Collisions = TRUE
    MaxNested = 1
SPECIFICATION Spec
INVARIANTS
    TypeOK
    Disjoint
PROPERTIES
    ImplementsQueue
