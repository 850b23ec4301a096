\* Every restriction up to two terms, nested up to two deep.
SPECIFICATION Spec
CONSTANTS
    a = "a"
    b = "b"
    id = "id"
    mail = "mail"
    person = "person"
    Depth = 2
    Classes <- ClassNames
    KeyFilters <- KeyLiterals
    Literals <- LiteralSet
    Restrictions <- RestrictionSet
INVARIANTS FilterMeans LookupSelective
