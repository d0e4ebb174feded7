CONSTANTS
    File = {a, b}
    VarName = {x, y}
    FuncName = {f, Print}
    StdFunction = {Print}
    MaxArgs = 2
    MaxImports = 1
    MaxVars = 2
    MaxFuncs = 2
    MaxScopes = 3
    MaxDepth = 4
SYMMETRY Names
SPECIFICATION Spec
INVARIANTS
    TypeOK
    ScopesFollowBlocks
    BindingIsLexical
    CallFindsFunction
    NoDuplicateAlongImports
    NodesFollowNesting
CHECK_DEADLOCK FALSE
