--------------------------- MODULE LdapConnection ---------------------------
(***************************************************************************)
(* One LDAPAdapter of provider/adapters/ldapconnection.js, shared by every *)
(* request that reads the directory.  The adapter lazily opens one         *)
(* persistent "root" connection; a find that arrives before that           *)
(* connection is bound parks a closure on this.wait and is resumed when    *)
(* the bind is answered.  findAndBind searches over the root connection    *)
(* and then binds a second connection with the caller's password.          *)
(*                                                                         *)
(* A step is one uninterrupted piece of JavaScript: a call up to its first *)
(* await, or one callback of the LDAP client.  Rows, filters, scopes and   *)
(* attribute transformers are data and are left out; the DN of a row and   *)
(* the DN whose password a caller presents are kept.                       *)
(***************************************************************************)
CONSTANTS Callers,  \* concurrent calls on this adapter
          Users,    \* DNs of user entries the directory may return
          Service,  \* opts.bind: the DN the root connection binds as
          Direct,   \* DNs with which connect() itself is called from outside
          HasBase,  \* is opts.base configured?
          None      \* no DN

DNs == Users \cup {Service}

ASSUME DNAssumption == /\ Service \notin Users
                       /\ None \notin DNs
                       /\ Direct \subseteq DNs
                       /\ HasBase \in BOOLEAN

VARIABLES root,      \* this.rootConnection: the DN it is bound as, or None
          alive,     \* the directory still answers on the root connection
          attempt,   \* this.connectAttempt
          wait,      \* callers with a closure on this.wait
          dropped,   \* `delete this.wait` has run
          flushing,  \* between Promise.all(this.wait...) and that delete
          pending,   \* binds the directory has not answered: <<caller, DN>>
          pc,        \* where each call is suspended
          call,      \* what each caller asked for
          entry,     \* the first row of the search, findAndBind only
          out        \* what each settled call returned

vars == <<root, alive, attempt, wait, dropped, flushing, pending, pc, call,
          entry, out>>
connVars == <<root, alive, attempt, wait, dropped, flushing, pending>>

(* "waiting": parked in raw_find; "searching": the search is under way;    *)
(* "binding": findAndBind awaits the user's bind; "connecting": connect()  *)
(* awaits its bind; "flushing": connect() awaits the resumed closures;     *)
(* "lost": the promise can no longer settle; "ended": the process is gone. *)
Stages == {"idle", "waiting", "searching", "binding", "connecting",
           "flushing", "done", "lost", "ended"}

(* pass is the DN whose password the caller presents, None for a wrong     *)
(* one; based says whether the search has a base DN to start from.         *)
Calls == [op : {"none", "find", "findAndBind", "connect"},
          pass : DNs \cup {None}, based : BOOLEAN]
NoCall == [op |-> "none", pass |-> None, based |-> FALSE]

Outcomes == [kind : {"none", "rows", "conn", "null", "error"},
             dn : DNs \cup {None}]
Outcome(kind, dn) == [kind |-> kind, dn |-> dn]
Unsettled == Outcome("none", None)

TypeOK == /\ root \in DNs \cup {None}
          /\ alive \in BOOLEAN /\ attempt \in BOOLEAN
          /\ dropped \in BOOLEAN /\ flushing \in BOOLEAN
          /\ wait \subseteq Callers
          /\ pending \subseteq Callers \X DNs
          /\ pc \in [Callers -> Stages]
          /\ call \in [Callers -> Calls]
          /\ entry \in [Callers -> Users \cup {None}]
          /\ out \in [Callers -> Outcomes]

(* The constructor: without a connection, or, for a clone made by          *)
(* cloneWithConnection, around the connection of the user who logged in.   *)
Init == /\ root \in Users \cup {None}
        /\ alive = (root # None)
        /\ attempt = FALSE
        /\ wait = {}
        /\ dropped = FALSE
        /\ flushing = FALSE
        /\ pending = {}
        /\ pc = [c \in Callers |-> "idle"]
        /\ call = [c \in Callers |-> NoCall]
        /\ entry = [c \in Callers |-> None]
        /\ out = [c \in Callers |-> Unsettled]

-----------------------------------------------------------------------------
(* connect() up to its await: without a root connection only the first     *)
(* attempt dials, and the flag is raised; a later one gives up at once.    *)
MayDialAlways == TRUE  \* mutant: the check of connectAttempt is dropped
MayDial == root # None \/ ~attempt

Dials(c, dn) ==
    /\ MayDial
    /\ attempt' = (attempt \/ root = None)
    /\ pending' = pending \cup {<<c, dn>>}

(* raw_find once a root connection exists: the search starts, or the       *)
(* missing base DN is thrown.                                              *)
Resumed(based) == IF based THEN "searching" ELSE "done"
ResumedOut(based) == IF based THEN Unsettled ELSE Outcome("error", None)

(* The inputs of a find: find() takes a base DN of its own or falls back   *)
(* to opts.base, findAndBind always searches from opts.base.               *)
Requests == [op : {"find"}, pass : {None}, based : {HasBase, TRUE}]
            \cup [op : {"findAndBind"}, pass : Users \cup {None},
                  based : {HasBase}]

(* raw_find without a root connection: the closure is parked and           *)
(* connect() is called with its promise ignored.                           *)
FindParks(c, req) ==
    /\ pc[c] = "idle"
    /\ root = None
    /\ wait' = wait \cup {c}
    /\ \/ Dials(c, Service)
       \/ ~MayDial /\ UNCHANGED <<attempt, pending>>
    /\ pc' = [pc EXCEPT ![c] = "waiting"]
    /\ call' = [call EXCEPT ![c] = req]
    /\ UNCHANGED <<root, alive, dropped, flushing, entry, out>>

FindSearches(c, req) ==
    /\ pc[c] = "idle"
    /\ root # None
    /\ pc' = [pc EXCEPT ![c] = Resumed(req.based)]
    /\ out' = [out EXCEPT ![c] = ResumedOut(req.based)]
    /\ call' = [call EXCEPT ![c] = req]
    /\ UNCHANGED <<connVars, entry>>

(* connect() called directly.  Without credentials it binds as Service and *)
(* returns an existing root connection at once.                            *)
ConnectReq(pass) == [op |-> "connect", pass |-> pass, based |-> FALSE]

ConnectDials(c, dn, pass) ==
    /\ pc[c] = "idle"
    /\ ~(root # None /\ dn = Service)
    /\ Dials(c, dn)
    /\ pc' = [pc EXCEPT ![c] = "connecting"]
    /\ call' = [call EXCEPT ![c] = ConnectReq(pass)]
    /\ UNCHANGED <<root, alive, wait, dropped, flushing, entry, out>>

ConnectReturns(c, dn, pass) ==
    /\ pc[c] = "idle"
    /\ (root # None /\ dn = Service) \/ ~MayDial
    /\ pc' = [pc EXCEPT ![c] = "done"]
    /\ call' = [call EXCEPT ![c] = ConnectReq(pass)]
    /\ out' = [out EXCEPT ![c] = IF root = None THEN Outcome("null", None)
                                 ELSE Outcome("conn", root)]
    /\ UNCHANGED <<connVars, entry>>

-----------------------------------------------------------------------------
(* The directory accepts the configured service password, and a user's     *)
(* bind only with that user's password.                                    *)
Accepts(c, dn) == dn = Service \/ call[c].pass = dn

(* A bind accepted while there is no root connection: the connection       *)
(* becomes the root, the flag is cleared and every parked closure runs.    *)
RootBindResumesNobody(c, dn) ==  \* mutant: this.wait is never run
    /\ <<c, dn>> \in pending
    /\ Accepts(c, dn)
    /\ root = None
    /\ root' = dn
    /\ alive' = TRUE
    /\ attempt' = FALSE
    /\ flushing' = TRUE
    /\ pending' = pending \ {<<c, dn>>}
    /\ pc' = [pc EXCEPT ![c] = IF @ = "connecting" THEN "flushing" ELSE @]
    /\ UNCHANGED <<wait, dropped, call, entry, out>>

RootBindOk(c, dn) ==
    /\ <<c, dn>> \in pending
    /\ Accepts(c, dn)
    /\ root = None
    /\ root' = dn
    /\ alive' = TRUE
    /\ attempt' = FALSE
    /\ flushing' = TRUE
    /\ pending' = pending \ {<<c, dn>>}
    /\ pc' = [d \in Callers |-> IF d \in wait THEN Resumed(call[d].based)
                                ELSE IF d = c THEN "flushing" ELSE pc[d]]
    /\ out' = [d \in Callers |-> IF d \in wait THEN ResumedOut(call[d].based)
                                 ELSE out[d]]
    /\ UNCHANGED <<wait, dropped, call, entry>>

(* Promise.all over the parked closures is fulfilled: the list is deleted  *)
(* and a connect() that opened the root connection returns it.             *)
FlushHangs ==  \* mutant: connect() never returns after resuming the others
    /\ flushing
    /\ flushing' = FALSE
    /\ wait' = {}
    /\ dropped' = TRUE
    /\ UNCHANGED <<root, alive, attempt, pending, pc, call, entry, out>>

FlushDone ==
    /\ flushing
    /\ flushing' = FALSE
    /\ wait' = {}
    /\ dropped' = TRUE
    /\ pc' = [c \in Callers |-> IF pc[c] = "flushing" THEN "done" ELSE pc[c]]
    /\ out' = [c \in Callers |-> IF pc[c] = "flushing"
                                 THEN Outcome("conn", root) ELSE out[c]]
    /\ UNCHANGED <<root, alive, attempt, pending, call, entry>>

(* A bind accepted while the root connection exists belongs to the caller  *)
(* alone: findAndBind clones the adapter around it, connect() returns it.  *)
UserBindTakesRoot(c, dn) ==  \* mutant: `if (!this.rootConnection)` dropped
    /\ <<c, dn>> \in pending
    /\ Accepts(c, dn)
    /\ root # None
    /\ root' = dn
    /\ pending' = pending \ {<<c, dn>>}
    /\ pc' = [pc EXCEPT ![c] = "done"]
    /\ out' = [out EXCEPT ![c] = Outcome("conn", dn)]
    /\ UNCHANGED <<alive, attempt, wait, dropped, flushing, call, entry>>

UserBindOk(c, dn) ==
    /\ <<c, dn>> \in pending
    /\ Accepts(c, dn)
    /\ root # None
    /\ pending' = pending \ {<<c, dn>>}
    /\ pc' = [pc EXCEPT ![c] = "done"]
    /\ out' = [out EXCEPT ![c] = Outcome("conn", dn)]
    /\ UNCHANGED <<root, alive, attempt, wait, dropped, flushing, call, entry>>

(* A refused bind: the error is swallowed and connect() returns null.  The *)
(* flag connectAttempt is not cleared, nobody is resumed.                  *)
BindFailsUnnoticed(c, dn) ==  \* mutant: `if (!testConnection)` dropped
    /\ <<c, dn>> \in pending
    /\ pending' = pending \ {<<c, dn>>}
    /\ IF pc[c] = "waiting" THEN UNCHANGED <<pc, out>>
       ELSE /\ pc' = [pc EXCEPT ![c] = "done"]
            /\ out' = [out EXCEPT ![c] = Outcome("conn", dn)]
    /\ UNCHANGED <<root, alive, attempt, wait, dropped, flushing, call, entry>>

BindFails(c, dn) ==
    /\ <<c, dn>> \in pending
    /\ pending' = pending \ {<<c, dn>>}
    /\ IF pc[c] = "waiting" THEN UNCHANGED <<pc, out>>
       ELSE /\ pc' = [pc EXCEPT ![c] = "done"]
            /\ out' = [out EXCEPT ![c] = Outcome("null", None)]
    /\ UNCHANGED <<root, alive, attempt, wait, dropped, flushing, call, entry>>

(* The directory never answers the bind; the client sets no timeout.       *)
BindUnanswered(c, dn) ==
    /\ <<c, dn>> \in pending
    /\ pending' = pending \ {<<c, dn>>}
    /\ pc' = [pc EXCEPT ![c] = IF @ = "waiting" THEN @ ELSE "lost"]
    /\ UNCHANGED <<root, alive, attempt, wait, dropped, flushing, call, entry,
                   out>>

-----------------------------------------------------------------------------
(* The search's "end" event; find() resolves with the rows.                *)
FindEnds(c) ==
    /\ pc[c] = "searching" /\ alive
    /\ call[c].op = "find"
    /\ pc' = [pc EXCEPT ![c] = "done"]
    /\ out' = [out EXCEPT ![c] = Outcome("rows", None)]
    /\ UNCHANGED <<connVars, call, entry>>

(* findAndBind takes the first row e, if there is one, and dials as it.    *)
LoginFound(c, e) ==
    /\ pc[c] = "searching" /\ alive
    /\ call[c].op = "findAndBind"
    /\ entry' = [entry EXCEPT ![c] = e]
    /\ Dials(c, e)
    /\ pc' = [pc EXCEPT ![c] = "binding"]
    /\ UNCHANGED <<root, alive, wait, dropped, flushing, call, out>>

LoginNotFoundDials(c) ==  \* mutant: `if (resultset.length && ...)` dropped
    /\ pc[c] = "searching" /\ alive
    /\ call[c].op = "findAndBind"
    /\ Dials(c, None)
    /\ pc' = [pc EXCEPT ![c] = "binding"]
    /\ UNCHANGED <<root, alive, wait, dropped, flushing, call, entry, out>>

LoginNotFound(c) ==
    /\ pc[c] = "searching" /\ alive
    /\ call[c].op = "findAndBind"
    /\ pc' = [pc EXCEPT ![c] = "done"]
    /\ out' = [out EXCEPT ![c] = Outcome("null", None)]
    /\ UNCHANGED <<connVars, call, entry>>

(* The client hands the search callback an error: raw_find rejects.        *)
SearchErrs(c) ==
    /\ pc[c] = "searching"
    /\ pc' = [pc EXCEPT ![c] = "done"]
    /\ out' = [out EXCEPT ![c] = Outcome("error", None)]
    /\ UNCHANGED <<connVars, call, entry>>

(* No "end" event comes over a connection that is closed or silent.        *)
SearchUnanswered(c) ==
    /\ pc[c] = "searching" /\ ~alive
    /\ pc' = [pc EXCEPT ![c] = "lost"]
    /\ UNCHANGED <<connVars, call, entry, out>>

(* The root connection closes, or the directory falls silent on it; the    *)
(* adapter keeps the object.                                               *)
ConnectionLost ==
    /\ root # None /\ alive
    /\ alive' = FALSE
    /\ UNCHANGED <<root, attempt, wait, dropped, flushing, pending, pc, call,
                   entry, out>>

(* A search that ends with an "error" event (a missing base DN, a size     *)
(* limit), or a client that emits one: nobody listens to it, so it is an   *)
(* uncaught exception, and nothing in the program catches those.  The      *)
(* process ends with every call; the search may be one of this adapter's,  *)
(* one on a user's connection or one of another adapter.  A restart is a   *)
(* new adapter.                                                            *)
ProcessEnds ==
    /\ \E c \in Callers : pc[c] # "ended"
    /\ pc' = [c \in Callers |-> "ended"]
    /\ pending' = {}
    /\ wait' = {}
    /\ flushing' = FALSE
    /\ attempt' = FALSE
    /\ alive' = FALSE
    /\ UNCHANGED <<root, dropped, call, entry, out>>

(* The caller has its result and may call the adapter again.               *)
Return(c) ==
    /\ pc[c] = "done"
    /\ pc' = [pc EXCEPT ![c] = "idle"]
    /\ call' = [call EXCEPT ![c] = NoCall]
    /\ entry' = [entry EXCEPT ![c] = None]
    /\ out' = [out EXCEPT ![c] = Unsettled]
    /\ UNCHANGED connVars

-----------------------------------------------------------------------------
Starts(c) == \/ \E req \in Requests : FindParks(c, req) \/ FindSearches(c, req)
             \/ \E dn \in Direct, pass \in DNs \cup {None} :
                   ConnectDials(c, dn, pass) \/ ConnectReturns(c, dn, pass)

BindAnswered(c) == \E dn \in DNs : \/ RootBindOk(c, dn)
                                   \/ UserBindOk(c, dn)
                                   \/ BindFails(c, dn)
                                   \/ BindUnanswered(c, dn)

SearchAnswered(c) == \/ FindEnds(c)
                     \/ \E e \in Users : LoginFound(c, e)
                     \/ LoginNotFound(c)
                     \/ SearchErrs(c)
                     \/ SearchUnanswered(c)

Next == \/ \E c \in Callers : \/ Starts(c)
                              \/ BindAnswered(c)
                              \/ SearchAnswered(c)
                              \/ Return(c)
        \/ FlushDone
        \/ ConnectionLost
        \/ ProcessEnds

Spec == Init /\ [][Next]_vars

-----------------------------------------------------------------------------
Waiting == {c \in Callers : pc[c] = "waiting"}

(* Exactly the parked callers have a closure on this.wait as long as there *)
(* is no root connection, and the list still exists for the next one; once *)
(* the root is bound nobody is left parked (connect, lines 151-156,        *)
(* against the push of raw_find, lines 214-223).                           *)
NoLostWaiter == /\ root = None => Waiting = wait /\ ~dropped
                /\ root # None => Waiting = {}

(* Before there is a root connection at most one bind is under way, and it *)
(* is covered by connectAttempt; afterwards nobody binds as the service    *)
(* again (lines 102-111: one root connection however many finds race).     *)
SingleRootAttempt ==
    /\ root = None => /\ \A p, q \in pending : p = q
                      /\ pending # {} => attempt
    /\ root # None => \A p \in pending : p[2] # Service

(* findAndBind hands out a connection only for the DN it looked up for     *)
(* this caller, and only if this caller presented that DN's password.      *)
LoginProven ==
    \A c \in Callers :
        call[c].op = "findAndBind" /\ out[c].kind = "conn"
            => out[c].dn = entry[c] /\ out[c].dn = call[c].pass

(* The root connection is set once, to a DN meant to be a root connection, *)
(* and a user's bind never replaces it: lookups keep running as that DN.   *)
RootSetOnce == [][root = None /\ root' \in Direct \cup {Service}]_root

(* The state in which a first bind that is refused, or never answered,     *)
(* leaves the adapter: the flag stands, no bind is under way, nobody will  *)
(* ever dial again.                                                        *)
Wedged == root = None /\ attempt /\ pending = {}

Ended == \A c \in Callers : pc[c] = "ended"

(* Every call settles, unless the connection it awaits an answer on is     *)
(* closed or silent ("lost"), the adapter is wedged, or an error event     *)
(* that nobody listens to ends the process: interleaved calls of the       *)
(* adapter do not keep each other waiting otherwise (ldapconnection.js     *)
(* 101-159, 213-258).                                                      *)
CallsSettleOrWedge ==
    \A c \in Callers :
        pc[c] # "idle" ~> \/ pc[c] \in {"idle", "done", "lost"}
                          \/ Wedged
                          \/ Ended
=============================================================================
