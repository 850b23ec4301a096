\* Safety: three callers, two users; connect() is also called from outside,
\* with the service's credentials and with a user's.
SPECIFICATION Spec
CONSTANTS
    c1 = c1
    c2 = c2
    c3 = c3
    u1 = u1
    u2 = u2
    svc = svc
    None = None
    Callers <- ThreeCallers
    Users <- TwoUsers
    Service = svc
    Direct <- TestDirect
    HasBase = TRUE
SYMMETRY CallerSymmetry
INVARIANTS TypeOK NoLostWaiter SingleRootAttempt LoginProven
PROPERTY RootSetOnce
\* A caller whose promise is lost stops for good, and so may all of them; a
\* process that has ended stops altogether.
CHECK_DEADLOCK FALSE
