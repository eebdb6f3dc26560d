\* Display requests between compilations, with the module checks of display
\* requests switched off.
CONSTANTS
    A = A  B = B  C = C
    v1 = v1  v2 = v2  bad = bad
    NoDecl = NoDecl  NoPath = NoPath  Failed = Failed
    Path = {A, B, C}
    Main = A
    Decl = {v1, v2}
    Broken = {}
    Imports <- MCImports
    Policy <- NoPolicy
    DisplayRequests = {B}
    Explores = TRUE
    NoModuleChecks = TRUE
    EditsDuringBuild = TRUE
    SameSecondEdits = FALSE
    MaxModules = 7
    MaxClock = 2
    MaxStep = 6
SPECIFICATION MCSpec
INVARIANTS
    QuietBuildIsFresh
    OneObjectPerPath
    CachedGraphIsCoherent
PROPERTIES
    SupersededIsDirty
    RequestTerminates
