CONSTANTS
    Char <- MCChar
    Keyword <- MCKeyword
    MaxLen = 4
    MaxAhead = 2
SPECIFICATION Spec
INVARIANTS
    LineInfoIsRight
    OnlyBlanksAreSkipped
    NameIsCurrent
    OnlyOpenStringsHang
PROPERTIES
    LookUpIsHonest
CHECK_DEADLOCK FALSE
