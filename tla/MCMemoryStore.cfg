SPECIFICATION Spec
CONSTANTS
    t1 = t1
    t2 = t2
    t3 = t3
    t4 = t4
    s1 = s1
    g1 = g1
    g2 = g2
    NoGrant = NoGrant
    Ids <- Keys
    Grants <- GrantIds
    GrantOf <- Issued
INVARIANTS TypeOK GrantListExact
PROPERTY ImplementsContract
