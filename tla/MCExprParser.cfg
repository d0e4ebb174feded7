CONSTANTS
    Trees <- MCTrees
    Tokens <- MCTokens
    Junk <- MCJunk
    Used = {"*", "/", "-", "<<", "==", "|", "||"}
    MaxToks = 3
SPECIFICATION ExprSpec
INVARIANTS
    MeansWhatTheTableSays
CHECK_DEADLOCK FALSE
