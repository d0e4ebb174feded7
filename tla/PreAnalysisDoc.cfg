CONSTANTS
    File = {f1, f2}
    NoFile = NoFile
    MaxArgs = 1
    MaxImports = 1
SPECIFICATION Spec
INVARIANTS
    AcceptedIsDag
CHECK_DEADLOCK FALSE
