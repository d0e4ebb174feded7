CONSTANTS
    File = {f1, f2}
    NoFile = NoFile
    Old = Old
    MaxArgs = 2
    MaxImports = 1
SPECIFICATION MCSpec
INVARIANT
    ZeroMeansSuccess
CHECK_DEADLOCK FALSE
