SPECIFICATION Spec
CONSTANTS
    Capacity = 5
    MaxVisits = 3
    MaxArgs = 3
INVARIANTS
    TypeOK
    TextIsDelivered
    IndentFollowsBraces
    SimpleListsAreSeparated
\* the program ends
CHECK_DEADLOCK FALSE
