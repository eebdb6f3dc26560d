\* Two class paths, requests that use one module, two, or one in the package.
CONSTANTS
    a = a  b = b  M = M  N = N  O = O
    Root = {a, b}
    Module = {M, N, O}
    InPackage = {O}
    ClassPaths <- Both
    Programs <- Uses
    Missing = Missing
    Failed = Failed
    MaxClock = 3
    MaxRequests = 4
SPECIFICATION MCSpec
INVARIANTS
    Consistent
    ShadowIsFound
