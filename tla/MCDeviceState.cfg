CONSTANTS
    o1 = o1
    o2 = o2
    o3 = o3
    p1 = p1
    p2 = p2
    Design = {dA, dB}
    Overlay = {o1, o2, o3}
    Process = {p1, p2}
    Home <- MCHome
    None = None
    Torn = Torn
CONSTRAINT OneGap
SPECIFICATION DevSpec
INVARIANTS CacheRight StateExplained ShutdownRight LoadedRight
PROPERTY MetadataRight
CHECK_DEADLOCK FALSE
SYMMETRY Symmetry
VIEW View
