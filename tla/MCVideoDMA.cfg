CONSTANTS
    None = None
    N = 3
    Frame = {1, 2, 3, 4, 5, 6, 7, 8, 9, 10, 11, 12, 13, 14}
    IrqFrames = 2
    MaxHeld = 1
SPECIFICATION Spec
VIEW View
INVARIANTS
    TypeOK
    SingleOwner
    InputOwned
PROPERTIES
    OutputOwned
