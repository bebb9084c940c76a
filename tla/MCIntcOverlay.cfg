CONSTANTS
    Unset = Unset
    Intr = {i1, i2}
    Line = {0, 1}
    MaxEpoch = 2
SPECIFICATION FairSpec
INVARIANTS
    Invalidated
PROPERTIES
    FreshWaitReturns
