CONSTANTS
    Dims <- MCDims
    Params = {"p"}
    MaxNum = 2
    MaxVisits = 4
    MaxArgs = 2
SPECIFICATION Spec
INVARIANTS
    AddressesReachTargets
    StoresHitTheElement
CHECK_DEADLOCK FALSE
