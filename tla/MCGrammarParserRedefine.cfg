CONSTANTS
    File = {a, b}
    VarName = {x, y}
    FuncName = {f, Print}
    StdFunction = {Print}
    MaxArgs = 1
    MaxImports = 0
    MaxVars = 1
    MaxFuncs = 3
    MaxScopes = 4
    MaxDepth = 3
SYMMETRY Names
SPECIFICATION Spec
INVARIANT
    RedefinitionRejected
CHECK_DEADLOCK FALSE
