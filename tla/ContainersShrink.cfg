\* Scripts that assign to any element.
SPECIFICATION Spec
CONSTANTS
    Values = {1, 2}
    Null = Null
    Keys <- MCKeys
    Hash <- MCHash
    Literals <- MCLiterals
    MaxLength = 8
    MaxMixed = 8
    Half = 4
    Depth = 4
    Meaning <- MCMeaning
    Careless = TRUE
INVARIANT Fits
