\* Timestamps without exp, against requirement 3.1.6.
SPECIFICATION Spec
CONSTANTS
    r1 = r1
    r2 = r2
    r3 = r3
    ta = ta
    rp = rp
    inst = inst
    uri = uri
    ck = ck
    d1 = d1
    d2 = d2
    d0 = d0
    kc = kc
    kd = kd
    a1 = a1
    a2 = a2
    l1 = l1
    any = any
    None = None
    Null = Null
    NotString = NotString
    Wrong = Wrong
    NoRec = NoRec
    Clients <- ClientIds
    Parties <- PartyIds
    Keys <- KeyPairs
    Kids <- KeyIds
    Accounts <- AccountIds
    Names <- NameSet
    KidOf <- KidTable
    ClientKeys <- JwksTable
    RedirectUris <- RedirectTable
    Refreshing <- RefreshingClients
    ByLogin <- LoginTable
    MaxAge = 2
    Requests <- OneRequest
    SubOf <- PlainSubs
    Assertions <- DatedAssertions
    MaxNow = 6
INVARIANT UndatedNotOld
\* Every request ends answered, and the directory may have emptied.
CHECK_DEADLOCK FALSE
