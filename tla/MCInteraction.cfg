\* Two requests in two interactions, with failures and restarts; no symmetry.
SPECIFICATION FairSpec
CONSTANTS
    i1 = i1
    i2 = i2
    a1 = a1
    a2 = a2
    r1 = r1
    r2 = r2
    None = None
    Uuids <- TwoInteractions
    Accounts <- TwoAccounts
    Requests <- TwoRequests
    Reason <- Reasons
INVARIANTS TypeOK ResultProven LoginAwaitsConsent SpentStaysSpent
PROPERTIES RequestsAnswered ConfirmSpends
CHECK_DEADLOCK FALSE
