\* A restriction written in braces, on the second lookup.
SPECIFICATION Spec
CONSTANTS
    a = "a"
    b = "b"
    id = "id"
    mail = "mail"
    person = "person"
    Depth = 2
    Classes <- ClassNames
    KeyFilters <- KeyLiterals
    Literals <- LiteralSet
    Restrictions <- Braced
INVARIANT RestrictionKept
