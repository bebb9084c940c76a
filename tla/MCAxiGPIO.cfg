CONSTANTS
    Task = {t1, t2, t3}
    Value = {0, 1}
    MaxCancels = 1
    None = None
    Irpt = Irpt
SPECIFICATION GpioSpec
INVARIANTS NothingMissed EnabledForWaiters
PROPERTY ValueSeen
