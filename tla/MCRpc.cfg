CONSTANTS
    Fn = {"poke", "work", "get", "log"}
    Blocking = {"get"}
    Args <- MCArgs
    Prints = {"get", "log"}
    TextLen = 3
    Yields = {"work"}
    DownSize = 6
    UpSize = 2
    MaxBehind = 3
CONSTRAINT Unmixed
SPECIFICATION FairSpec
INVARIANTS
    Framed
PROPERTIES
    CallReturns
    ServiceEnds
