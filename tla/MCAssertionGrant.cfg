\* Three requests of two users whose device keys share a kid.
SPECIFICATION Spec
CONSTANTS
    r1 = r1
    r2 = r2
    r3 = r3
    ta = ta
    rp = rp
    inst = inst
    uri = uri
    ck = ck
    d1 = d1
    d2 = d2
    d0 = d0
    kc = kc
    kd = kd
    a1 = a1
    a2 = a2
    l1 = l1
    any = any
    None = None
    Null = Null
    NotString = NotString
    Wrong = Wrong
    NoRec = NoRec
    Clients <- ClientIds
    Parties <- PartyIds
    Keys <- KeyPairs
    Kids <- KeyIds
    Accounts <- AccountIds
    Names <- NameSet
    KidOf <- KidTable
    ClientKeys <- JwksTable
    RedirectUris <- RedirectTable
    Refreshing <- RefreshingClients
    ByLogin <- LoginTable
    MaxAge = 2
    Requests <- ThreeRequests
    SubOf <- PlainSubs
    Assertions <- CoreAssertions
    MaxNow = 1
SYMMETRY RequestSymmetry
INVARIANTS SubjectProven RelayAuthorized KeysProven
\* Every request ends answered, and the directory may have emptied.
CHECK_DEADLOCK FALSE
