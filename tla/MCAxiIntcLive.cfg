CONSTANTS
    None = None
    root = root
    leaf = leaf
    uio = uio
    uio2 = uio2
    pinLeaf = pinLeaf
    pinOther = pinOther
    iLeaf = iLeaf
    iOther = iOther
    t1 = t1
    t2 = t2
    Ctrl = {root, leaf}
    Uio = {uio, uio2}
    Line = {0, 1}
    Parent <- MCParent
    Number <- MCNumber
    Above <- MCAbove
    Pin = {pinLeaf, pinOther}
    PinNode <- OnUio
    PinLine <- MCPinLine
    Intr = {iLeaf, iOther}
    IntrPin <- MCIntrPin
    Task = {t1, t2}
    Slot = {1}
SPECIFICATION FairSpec
PROPERTY LatchedWakes
