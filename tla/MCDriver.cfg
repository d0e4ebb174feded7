CONSTANTS
    File = {f1, f2, f3}
    NoFile = NoFile
    Old = Old
    MaxArgs = 2
    MaxImports = 2
SPECIFICATION MCSpec
INVARIANTS
    TypeOK
    OneProgramPerFile
    GraphMatchesSources
    VerdictIsRight
    ReportIsRealCycle
    CalleesAreBuilt
    RunsWhatItBuilt
    ZeroMeansBuilt
PROPERTIES
    CompilationEnds
CHECK_DEADLOCK FALSE
