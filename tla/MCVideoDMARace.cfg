CONSTANTS
    None = None
    N = 3
    Frame = {1, 2, 3, 4, 5, 6}
    IrqFrames = 4
    MaxHeld = 1
VIEW FilledView
CONSTRAINT Quick
SPECIFICATION Spec
INVARIANT CapturedWhole
