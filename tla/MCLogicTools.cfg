CONSTANTS
    Pin = {d0, d1, d2}
    MaxPins = 1
    Samples = {1, 2}
    MaxSteps = 1
    MaxOdd = 2
    Unconnected = Unconnected
CONSTRAINT Followed
SPECIFICATION LogicSpec
VIEW LTView
SYMMETRY LTSymmetry
INVARIANTS PinsExclusive StatusRight ConnectedWhileRunning SwitchRight TraceInBounds
CHECK_DEADLOCK FALSE
