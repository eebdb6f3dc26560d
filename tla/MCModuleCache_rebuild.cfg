\* Full compilations with edits between them; B is checked by content, and files need
\* not type.
CONSTANTS
    A = A  B = B  C = C
    v1 = v1  v2 = v2  bad = bad
    NoDecl = NoDecl  NoPath = NoPath  Failed = Failed
    Path = {A, B, C}
    Main = A
    Decl = {v1, v2, bad}
    Broken = {bad}
    Imports <- MCImports
    Policy <- ContentPolicy
    DisplayRequests = {}
    Explores = FALSE
    NoModuleChecks = FALSE
    EditsDuringBuild = FALSE
    SameSecondEdits = FALSE
    MaxModules = 7
    MaxClock = 4
    MaxStep = 6
SPECIFICATION MCSpec
INVARIANTS
    TypeOK
    ReusedGraphIsClean
    BlameIsReachable
PROPERTY ImplementsFreshBuild
