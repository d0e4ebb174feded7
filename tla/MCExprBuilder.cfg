CONSTANTS
    IntType = {"Bool", "UChar", "Int", "Long", "ULong"}
    Size <- MCSize
    Content <- MCContent
    Variables = {"Bool", "UChar", "Int", "ULong", "Double"}
    Forms = {"Long", "ULong", "Double"}
    Literal = {2}
    Ops <- MCOps
    Kinds <- MCKinds
    Returns = {"Long", "Void"}
    ParamType = {"UChar"}
    Contexts = {"stmt", "cond", "UChar"}
    MaxNodes = 5
SPECIFICATION BuilderSpec
INVARIANTS
    GarbageStaysInConstants
    FallsOffOnConstantsOnly
    ExactOnNonNegatives
    ConstantsAgree
    IntegersAreWellTyped
CHECK_DEADLOCK FALSE
