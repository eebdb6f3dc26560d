\* Toplevel completion refreshes the parser cache a content check compares with.
CONSTANTS
    A = A  B = B  C = C
    v1 = v1  v2 = v2  bad = bad
    NoDecl = NoDecl  NoPath = NoPath  Failed = Failed
    Path = {A, B, C}
    Main = A
    Decl = {v1, v2}
    Broken = {}
    Imports <- MCImports
    Policy <- ContentPolicy
    DisplayRequests = {C}
    Explores = TRUE
    NoModuleChecks = FALSE
    EditsDuringBuild = FALSE
    SameSecondEdits = FALSE
    MaxModules = 7
    MaxClock = 3
    MaxStep = 7
SPECIFICATION MCSpec
INVARIANTS
    QuietBuildIsFresh
