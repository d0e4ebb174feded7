CONSTANTS
    File = {a, b}
    VarName = {x, y}
    FuncName = {f, Print}
    StdFunction = {Print}
    MaxArgs = 2
    MaxImports = 1
    MaxVars = 3
    MaxFuncs = 2
    MaxScopes = 3
    MaxDepth = 3
SYMMETRY Names
SPECIFICATION Spec
INVARIANT
    GlobalsBelongToProgram
CHECK_DEADLOCK FALSE
