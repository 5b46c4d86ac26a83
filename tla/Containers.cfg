\* Scripts that assign to no element of the first quarter of a list that is more than half full.
SPECIFICATION Spec
CONSTANTS
    Values = {1, 2}
    Null = Null
    Keys <- MCKeys
    Hash <- MCHash
    Literals <- MCLiterals
    MaxLength = 7
    MaxMixed = 3
    Half = 4
    Depth = 4
    Meaning <- MCMeaning
    Careless = FALSE
INVARIANTS TypeOK Fits KeysOnce PartsOf Copies RoundTrip EqualBothWays
PROPERTY Implements
