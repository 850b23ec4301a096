\* Two destroys among the tokens of two grants and a session.
SPECIFICATION Spec
CONSTANTS
    t1 = t1
    t2 = t2
    t3 = t3
    s1 = s1
    g1 = g1
    g2 = g2
    p1 = p1
    p2 = p2
    NoGrant = NoGrant
    NoId = NoId
    Ids <- Keys
    Grants <- GrantIds
    GrantOf <- Issued
    Dumped <- Sessions
    Procs <- TwoDestroys
SYMMETRY Symmetry
VIEW WithoutGone
INVARIANTS TypeOK GrantListCovers
PROPERTIES OnlyKinRemoved DestroyRemovesOwed
