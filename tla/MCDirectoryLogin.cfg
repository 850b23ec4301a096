\* Two callers log in, look accounts up and connect; entries come and go.
SPECIFICATION LoginFairSpec
CONSTANTS
    c1 = c1
    c2 = c2
    u1 = u1
    u2 = u2
    u3 = u3
    svc = svc
    la = la
    star = star
    i1 = i1
    i2 = i2
    None = None
    Callers <- TwoCallers
    Users <- ThreeUsers
    Service = svc
    Direct <- ServerDirect
    HasBase = TRUE
    ByLogin <- LoginTable
    ById <- IdFilterTable
    IdOf <- IdTable
    InScope <- ThreeUsers
    OrgBase = FALSE
    Credentials <- CredentialPairs
    Changing <- TwoUsers
INVARIANTS LoginTypeOK AccountProven
PROPERTIES CallsSettleOrWedge LoginsSettle
\* A caller whose promise is lost stops for good, and so may all of them; a
\* process that has ended stops altogether.
CHECK_DEADLOCK FALSE
