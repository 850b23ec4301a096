------------------------ MODULE DirectoryLoginProofs ------------------------
(***************************************************************************)
(* The safety of the shared LDAP adapter for every number of callers and   *)
(* users, whatever DNs connect() is called with; then logins over it, for  *)
(* every directory: the composition implements the adapter alone, so that  *)
(* what is proved of LdapConnection holds for it, and the account a login  *)
(* is answered with belongs to whoever presented the password.             *)
(***************************************************************************)
EXTENDS DirectoryLogin, TLAPS

-----------------------------------------------------------------------------
(* The adapter alone.                                                      *)
(* A caller has at most one bind in flight, and it says what the call that *)
(* started it is waiting for.                                              *)
PendingOwner ==
  /\ \A p, q \in pending : p[1] = q[1] => p = q
  /\ \A p \in pending :
        \/ pc[p[1]] = "waiting" /\ p[2] = Service
        \/ /\ pc[p[1]] = "connecting"
           /\ call[p[1]].op = "connect"
           /\ p[2] \in Direct
        \/ /\ pc[p[1]] = "binding"
           /\ root # None
           /\ p[2] = entry[p[1]]

(* The root connection outlives everything that depends on it.             *)
RootHeld == /\ flushing \/ dropped => root # None
            /\ \A c \in Callers : pc[c] = "searching" => root # None

(* A connection is handed out last, and connect() alone waits for others.  *)
Stage == /\ \A c \in Callers : out[c].kind = "conn" => pc[c] \in {"done", "ended"}
         /\ \A c \in Callers : pc[c] = "flushing" => call[c].op = "connect"

(* The inductive invariant.                                                *)
IInv == /\ TypeOK
        /\ NoLostWaiter
        /\ SingleRootAttempt
        /\ LoginProven
        /\ PendingOwner
        /\ RootHeld
        /\ Stage

-----------------------------------------------------------------------------
LEMMA RequestsAreCalls == Requests \subseteq Calls
BY DNAssumption DEF Requests, Calls, DNs

LEMMA ResumedType ==
    ASSUME NEW b \in BOOLEAN
    PROVE  /\ Resumed(b) \in {"searching", "done"}
           /\ ResumedOut(b) \in Outcomes
           /\ ResumedOut(b).kind # "conn"
BY DEF Resumed, ResumedOut, Outcomes, Outcome, Unsettled

LEMMA InitIInv == Init => IInv
<1> SUFFICES ASSUME Init PROVE IInv
    OBVIOUS
<1>1. TypeOK
    BY DEF Init, TypeOK, Stages, Calls, NoCall, Outcomes, Unsettled, Outcome, DNs
<1>2. NoLostWaiter /\ SingleRootAttempt /\ LoginProven
    BY DEF Init, NoLostWaiter, Waiting, SingleRootAttempt, LoginProven,
           NoCall, Unsettled, Outcome
<1>3. PendingOwner /\ RootHeld /\ Stage
    BY DEF Init, PendingOwner, RootHeld, Stage, Unsettled, Outcome
<1> QED BY <1>1, <1>2, <1>3 DEF IInv

-----------------------------------------------------------------------------
(* One lemma for each action: it preserves the inductive invariant.        *)
LEMMA FindParksStep ==
    ASSUME IInv, NEW c \in Callers, NEW req \in Requests, FindParks(c, req)
    PROVE  IInv'
<1> USE DNAssumption
<1>1. req \in Calls /\ req.op # "connect"
    BY RequestsAreCalls DEF Requests
<1>2. TypeOK'
  <2>1. \/ attempt' = attempt /\ pending' = pending
        \/ Dials(c, Service)
    BY DEF FindParks
  <2>2. attempt' \in BOOLEAN
    BY <2>1 DEF IInv, TypeOK, Dials
  <2>3. pending' \subseteq Callers \X DNs
    BY <2>1 DEF IInv, TypeOK, Dials, DNs
  <2> QED BY <1>1, <2>2, <2>3 DEF IInv, TypeOK, FindParks, Stages
<1>3. NoLostWaiter'
    BY DEF IInv, TypeOK, NoLostWaiter, Waiting, FindParks
<1>4. SingleRootAttempt'
    BY DEF IInv, SingleRootAttempt, FindParks, Dials, MayDial
<1>5. LoginProven'
    BY DEF IInv, TypeOK, LoginProven, Stage, FindParks
<1>6. PendingOwner'
    BY DEF IInv, TypeOK, PendingOwner, FindParks, Dials, MayDial
<1>7. RootHeld' /\ Stage'
    BY DEF IInv, TypeOK, RootHeld, Stage, FindParks
<1> QED BY <1>2, <1>3, <1>4, <1>5, <1>6, <1>7 DEF IInv

LEMMA FindSearchesStep ==
    ASSUME IInv, NEW c \in Callers, NEW req \in Requests, FindSearches(c, req)
    PROVE  IInv'
<1> USE DNAssumption
<1>1. req \in Calls /\ req.based \in BOOLEAN
    BY RequestsAreCalls DEF Calls
<1>2. TypeOK'
    BY <1>1, ResumedType DEF IInv, TypeOK, FindSearches, connVars, Stages
<1>3. NoLostWaiter' /\ SingleRootAttempt'
    BY <1>1, ResumedType DEF IInv, TypeOK, NoLostWaiter, Waiting,
       SingleRootAttempt, FindSearches, connVars
<1>4. LoginProven' /\ Stage'
    BY <1>1, ResumedType DEF IInv, TypeOK, LoginProven, Stage, FindSearches,
       connVars
<1>5. PendingOwner' /\ RootHeld'
    BY <1>1, ResumedType DEF IInv, TypeOK, PendingOwner, RootHeld,
       FindSearches, connVars
<1> QED BY <1>2, <1>3, <1>4, <1>5 DEF IInv

LEMMA ConnectDialsStep ==
    ASSUME IInv, NEW c \in Callers, NEW dn \in Direct, NEW pass \in DNs \cup {None},
           ConnectDials(c, dn, pass)
    PROVE  IInv'
<1> USE DNAssumption
<1>1. TypeOK'
    BY DEF IInv, TypeOK, ConnectDials, ConnectReq, Calls, Dials, MayDial,
       Stages, DNs
<1>2. NoLostWaiter' /\ SingleRootAttempt'
  <2>1. NoLostWaiter'
    BY DEF IInv, TypeOK, NoLostWaiter, Waiting, ConnectDials
  <2>2. CASE root = None
    <3>1. ~attempt /\ pending = {} /\ pending' = {<<c, dn>>} /\ attempt'
      BY <2>2 DEF IInv, SingleRootAttempt, ConnectDials, Dials, MayDial
    <3> QED BY <2>1, <2>2, <3>1 DEF SingleRootAttempt, ConnectDials
  <2>3. CASE root # None
    BY <2>1, <2>3 DEF IInv, SingleRootAttempt, ConnectDials, Dials
  <2> QED BY <2>2, <2>3
<1>3. LoginProven' /\ Stage'
    BY DEF IInv, TypeOK, LoginProven, Stage, ConnectDials, ConnectReq
<1>4. PendingOwner' /\ RootHeld'
    BY DEF IInv, TypeOK, PendingOwner, RootHeld, ConnectDials, ConnectReq,
       Dials
<1> QED BY <1>1, <1>2, <1>3, <1>4 DEF IInv

LEMMA ConnectReturnsStep ==
    ASSUME IInv, NEW c \in Callers, NEW dn \in Direct, NEW pass \in DNs \cup {None},
           ConnectReturns(c, dn, pass)
    PROVE  IInv'
<1> USE DNAssumption
<1>1. TypeOK'
    BY DEF IInv, TypeOK, ConnectReturns, ConnectReq, Calls, connVars, Stages,
       Outcomes, Outcome, DNs
<1>2. NoLostWaiter' /\ SingleRootAttempt'
    BY DEF IInv, TypeOK, NoLostWaiter, Waiting, SingleRootAttempt,
       ConnectReturns, connVars
<1>3. LoginProven' /\ Stage'
    BY DEF IInv, TypeOK, LoginProven, Stage, ConnectReturns, ConnectReq,
       connVars
<1>4. PendingOwner' /\ RootHeld'
    BY DEF IInv, TypeOK, PendingOwner, RootHeld, ConnectReturns, connVars
<1> QED BY <1>1, <1>2, <1>3, <1>4 DEF IInv

LEMMA RootBindOkStep ==
    ASSUME IInv, NEW c \in Callers, NEW dn \in DNs, RootBindOk(c, dn)
    PROVE  IInv'
<1> USE DNAssumption
<1>1. root = None /\ wait = Waiting /\ pending = {<<c, dn>>}
    BY DEF IInv, NoLostWaiter, SingleRootAttempt, RootBindOk
<1>2. root' \in DNs /\ root' # None /\ pending' = {}
    BY <1>1 DEF RootBindOk, DNs
<1>3. \A d \in Callers : call[d].based \in BOOLEAN
    BY DEF IInv, TypeOK, Calls
<1>4. c \notin wait => call[c].op = "connect"
    BY <1>1 DEF IInv, TypeOK, PendingOwner, Waiting
<1>5. TypeOK'
    BY <1>2, <1>3, ResumedType DEF IInv, TypeOK, RootBindOk, Stages
<1>6. NoLostWaiter' /\ SingleRootAttempt'
    BY <1>1, <1>2, <1>3, ResumedType DEF IInv, TypeOK, NoLostWaiter,
       Waiting, SingleRootAttempt, RootBindOk
<1>7. LoginProven'
    BY <1>3, ResumedType DEF IInv, TypeOK, LoginProven, RootBindOk
<1>8. Stage'
  <2>1. ASSUME NEW d \in Callers, out'[d].kind = "conn"
        PROVE  pc'[d] \in {"done", "ended"}
    <3>1. d \notin wait /\ out[d].kind = "conn"
        BY <2>1, <1>3, ResumedType DEF RootBindOk
    <3>2. pc[d] \in {"done", "ended"} /\ pc[c] \notin {"done", "ended"}
        BY <3>1 DEF IInv, Stage, PendingOwner, RootBindOk
    <3> QED BY <3>1, <3>2 DEF RootBindOk
  <2>2. ASSUME NEW d \in Callers, pc'[d] = "flushing"
        PROVE  call'[d].op = "connect"
    BY <2>2, <1>3, <1>4, ResumedType DEF IInv, Stage, RootBindOk
  <2> QED BY <2>1, <2>2 DEF Stage
<1>9. PendingOwner' /\ RootHeld'
    BY <1>2 DEF PendingOwner, RootHeld
<1> QED BY <1>5, <1>6, <1>7, <1>8, <1>9 DEF IInv

LEMMA FlushDoneStep ==
    ASSUME IInv, FlushDone
    PROVE  IInv'
<1> USE DNAssumption
<1>1. root # None /\ Waiting = {}
    BY DEF IInv, RootHeld, NoLostWaiter, FlushDone
<1>2. TypeOK'
    BY DEF IInv, TypeOK, FlushDone, Stages, Outcomes, Outcome
<1>3. NoLostWaiter' /\ SingleRootAttempt'
    BY <1>1 DEF IInv, TypeOK, NoLostWaiter, Waiting, SingleRootAttempt,
       FlushDone
<1>4. LoginProven' /\ Stage'
    BY DEF IInv, TypeOK, LoginProven, Stage, FlushDone
<1>5. PendingOwner' /\ RootHeld'
    BY <1>1 DEF IInv, TypeOK, PendingOwner, RootHeld, FlushDone
<1> QED BY <1>2, <1>3, <1>4, <1>5 DEF IInv

LEMMA UserBindOkStep ==
    ASSUME IInv, NEW c \in Callers, NEW dn \in DNs, UserBindOk(c, dn)
    PROVE  IInv'
<1> USE DNAssumption
<1>1. pc[c] \in {"connecting", "binding"} /\ dn # Service /\ call[c].pass = dn
    BY DEF IInv, PendingOwner, NoLostWaiter, Waiting, SingleRootAttempt,
       UserBindOk, Accepts
<1>2. call[c].op = "findAndBind" => dn = entry[c]
    BY <1>1 DEF IInv, PendingOwner, UserBindOk, NoLostWaiter, Waiting
<1>3. \A p \in pending' : p[1] # c
    BY DEF IInv, PendingOwner, UserBindOk
<1>4. TypeOK'
    BY DEF IInv, TypeOK, UserBindOk, Stages, Outcomes, Outcome
<1>5. NoLostWaiter' /\ SingleRootAttempt'
    BY DEF IInv, TypeOK, NoLostWaiter, Waiting, SingleRootAttempt, UserBindOk
<1>6. LoginProven' /\ Stage'
    BY <1>1, <1>2 DEF IInv, TypeOK, LoginProven, Stage, UserBindOk, Outcome
<1>7. PendingOwner' /\ RootHeld'
    BY <1>3 DEF IInv, TypeOK, PendingOwner, RootHeld, UserBindOk
<1> QED BY <1>4, <1>5, <1>6, <1>7 DEF IInv
LEMMA BindFailsStep ==
    ASSUME IInv, NEW c \in Callers, NEW dn \in DNs, BindFails(c, dn)
    PROVE  IInv'
<1> USE DNAssumption
<1>1. pc[c] \in {"waiting", "connecting", "binding"}
    BY DEF IInv, PendingOwner, BindFails
<1>2. \A p \in pending' : p[1] # c
    BY DEF IInv, PendingOwner, BindFails
<1>3. TypeOK'
    BY DEF IInv, TypeOK, BindFails, Stages, Outcomes, Outcome
<1>4. NoLostWaiter' /\ SingleRootAttempt'
    BY <1>1 DEF IInv, TypeOK, NoLostWaiter, Waiting, SingleRootAttempt,
       BindFails
<1>5. LoginProven' /\ Stage'
    BY <1>1 DEF IInv, TypeOK, LoginProven, Stage, BindFails, Outcome
<1>6. PendingOwner' /\ RootHeld'
    BY <1>2 DEF IInv, TypeOK, PendingOwner, RootHeld, BindFails
<1> QED BY <1>3, <1>4, <1>5, <1>6 DEF IInv

LEMMA BindUnansweredStep ==
    ASSUME IInv, NEW c \in Callers, NEW dn \in DNs, BindUnanswered(c, dn)
    PROVE  IInv'
<1> USE DNAssumption
<1>1. pc[c] \in {"waiting", "connecting", "binding"}
    BY DEF IInv, PendingOwner, BindUnanswered
<1>2. \A p \in pending' : p[1] # c
    BY DEF IInv, PendingOwner, BindUnanswered
<1>3. TypeOK'
    BY DEF IInv, TypeOK, BindUnanswered, Stages
<1>4. NoLostWaiter' /\ SingleRootAttempt'
    BY <1>1 DEF IInv, TypeOK, NoLostWaiter, Waiting, SingleRootAttempt,
       BindUnanswered
<1>5. LoginProven' /\ Stage'
    BY <1>1 DEF IInv, TypeOK, LoginProven, Stage, BindUnanswered
<1>6. PendingOwner' /\ RootHeld'
    BY <1>2 DEF IInv, TypeOK, PendingOwner, RootHeld, BindUnanswered
<1> QED BY <1>3, <1>4, <1>5, <1>6 DEF IInv

LEMMA LoginFoundStep ==
    ASSUME IInv, NEW c \in Callers, NEW e \in Users, LoginFound(c, e)
    PROVE  IInv'
<1> USE DNAssumption
<1>1. root # None /\ e # Service
    BY DEF IInv, RootHeld, LoginFound
<1>2. \A p \in pending : p[1] # c
    BY DEF IInv, PendingOwner, LoginFound
<1>3. TypeOK'
  <2>1. attempt' \in BOOLEAN /\ pending' \subseteq Callers \X DNs
    BY DEF IInv, TypeOK, LoginFound, Dials, DNs
  <2> QED BY <2>1 DEF IInv, TypeOK, LoginFound, Stages
<1>4. NoLostWaiter' /\ SingleRootAttempt'
  <2>1. NoLostWaiter'
    BY <1>1 DEF IInv, TypeOK, NoLostWaiter, Waiting, LoginFound
  <2>2. SingleRootAttempt'
    BY <1>1 DEF IInv, SingleRootAttempt, LoginFound, Dials
  <2> QED BY <2>1, <2>2
<1>5. LoginProven' /\ Stage'
    BY DEF IInv, TypeOK, LoginProven, Stage, LoginFound
<1>6. PendingOwner' /\ RootHeld'
  <2>1. pending' = pending \cup {<<c, e>>} /\ root' = root
    BY DEF LoginFound, Dials
  <2>2. PendingOwner'
    BY <1>1, <1>2, <2>1 DEF IInv, TypeOK, PendingOwner, LoginFound
  <2>3. RootHeld'
    BY <1>1 DEF IInv, TypeOK, RootHeld, LoginFound
  <2> QED BY <2>2, <2>3
<1> QED BY <1>3, <1>4, <1>5, <1>6 DEF IInv

(* The answers that only settle, or lose, the caller's own promise.        *)
LEMMA SettleStep ==
    ASSUME IInv, NEW c \in Callers,
           \/ FindEnds(c)
           \/ LoginNotFound(c)
           \/ SearchErrs(c)
           \/ SearchUnanswered(c)
           \/ Return(c)
    PROVE  IInv'
<1> USE DNAssumption
<1>1. /\ pc[c] \in {"searching", "done"}
      /\ pc' \in [Callers -> Stages]
      /\ pc'[c] \in {"done", "lost", "idle"}
      /\ \A d \in Callers : d # c => pc'[d] = pc[d]
    BY DEF IInv, TypeOK, Stages, FindEnds, LoginNotFound, SearchErrs,
       SearchUnanswered, Return
<1>2. /\ out' \in [Callers -> Outcomes]
      /\ out'[c].kind # "conn"
      /\ \A d \in Callers : d # c => out'[d] = out[d]
  <2>1. PICK o \in Outcomes : /\ o.kind # "conn"
                              /\ \/ out' = [out EXCEPT ![c] = o]
                                 \/ out' = out /\ pc[c] = "searching"
    <3> DEFINE Settled == {Outcome(k, None) : k \in {"none", "rows", "null", "error"}}
    <3>1. \A o \in Settled : o \in Outcomes /\ o.kind # "conn"
      BY DEF Outcomes, Outcome
    <3>2. \/ \E o \in Settled : out' = [out EXCEPT ![c] = o]
          \/ out' = out /\ pc[c] = "searching"
      BY DEF Unsettled, FindEnds, LoginNotFound, SearchErrs,
         SearchUnanswered, Return
    <3>3. Unsettled \in Settled
      BY DEF Unsettled
    <3> HIDE DEF Settled
    <3> QED BY <3>1, <3>2, <3>3
  <2> QED BY <2>1 DEF IInv, TypeOK, Stage
<1>3. /\ call' \in [Callers -> Calls]
      /\ entry' \in [Callers -> Users \cup {None}]
      /\ \A d \in Callers : d # c => call'[d] = call[d] /\ entry'[d] = entry[d]
  <2>1. NoCall \in Calls
    BY DEF Calls, NoCall
  <2>2. \/ call' = call /\ entry' = entry
        \/ /\ call' = [call EXCEPT ![c] = NoCall]
           /\ entry' = [entry EXCEPT ![c] = None]
    BY DEF FindEnds, LoginNotFound, SearchErrs, SearchUnanswered, Return
  <2> QED BY <2>1, <2>2 DEF IInv, TypeOK
<1>4. UNCHANGED connVars
    BY DEF FindEnds, LoginNotFound, SearchErrs, SearchUnanswered, Return
<1>5. \A p \in pending : p[1] # c
    BY <1>1 DEF IInv, PendingOwner
<1>6. TypeOK'
    BY <1>1, <1>2, <1>3, <1>4 DEF IInv, TypeOK, connVars
<1>7. NoLostWaiter' /\ SingleRootAttempt'
    BY <1>1, <1>4 DEF IInv, NoLostWaiter, Waiting, SingleRootAttempt, connVars
<1>8. LoginProven' /\ Stage'
    BY <1>1, <1>2, <1>3 DEF IInv, LoginProven, Stage
<1>9. PendingOwner' /\ RootHeld'
    BY <1>1, <1>3, <1>4, <1>5 DEF IInv, TypeOK, PendingOwner, RootHeld, connVars
<1> QED BY <1>6, <1>7, <1>8, <1>9 DEF IInv

LEMMA ConnectionLostStep ==
    ASSUME IInv, ConnectionLost
    PROVE  IInv'
BY DEF IInv, ConnectionLost, TypeOK, NoLostWaiter, Waiting, SingleRootAttempt,
       LoginProven, PendingOwner, RootHeld, Stage

LEMMA ProcessEndsStep ==
    ASSUME IInv, ProcessEnds
    PROVE  IInv'
<1>1. TypeOK'
    BY DEF IInv, TypeOK, ProcessEnds, Stages
<1>2. NoLostWaiter' /\ SingleRootAttempt'
    BY DEF IInv, NoLostWaiter, Waiting, SingleRootAttempt, RootHeld, ProcessEnds
<1>3. LoginProven' /\ Stage'
    BY DEF IInv, LoginProven, Stage, ProcessEnds
<1>4. PendingOwner' /\ RootHeld'
    BY DEF IInv, PendingOwner, RootHeld, ProcessEnds
<1> QED BY <1>1, <1>2, <1>3, <1>4 DEF IInv

LEMMA StutterStep ==
    ASSUME IInv, UNCHANGED vars
    PROVE  IInv'
BY DEF IInv, vars, TypeOK, NoLostWaiter, Waiting, SingleRootAttempt,
       LoginProven, PendingOwner, RootHeld, Stage

-----------------------------------------------------------------------------
(* Every step preserves the inductive invariant.                           *)
LEMMA IInvStep ==
    ASSUME IInv, [Next]_vars
    PROVE  IInv'
<1>1. ASSUME NEW c \in Callers, Starts(c) PROVE IInv'
  BY <1>1, FindParksStep, FindSearchesStep, ConnectDialsStep,
     ConnectReturnsStep DEF Starts
<1>2. ASSUME NEW c \in Callers, BindAnswered(c) PROVE IInv'
  BY <1>2, RootBindOkStep, UserBindOkStep, BindFailsStep,
     BindUnansweredStep DEF BindAnswered
<1>3. ASSUME NEW c \in Callers, SearchAnswered(c) PROVE IInv'
  BY <1>3, SettleStep, LoginFoundStep DEF SearchAnswered
<1>4. ASSUME NEW c \in Callers, Return(c) PROVE IInv'
  BY <1>4, SettleStep
<1>5. CASE FlushDone
  BY <1>5, FlushDoneStep
<1>6. CASE ConnectionLost
  BY <1>6, ConnectionLostStep
<1>7. CASE ProcessEnds
  BY <1>7, ProcessEndsStep
<1>8. CASE UNCHANGED vars
  BY <1>8, StutterStep
<1> QED BY <1>1, <1>2, <1>3, <1>4, <1>5, <1>6, <1>7, <1>8 DEF Next

(* Type correctness and the strengthened invariant hold in every state.    *)
THEOREM IInvHolds == Spec => []IInv
BY InitIInv, IInvStep, PTL DEF Spec

(* Every variable keeps its type.                                          *)
THEOREM TypeCorrect == Spec => []TypeOK
BY IInvHolds, PTL DEF IInv

(* A closure parked on this.wait is never lost: while there is no root     *)
(* connection the list holds exactly the parked callers, afterwards nobody *)
(* is parked.                                                              *)
THEOREM NoLostWaiterHolds == Spec => []NoLostWaiter
BY IInvHolds, PTL DEF IInv

(* However many finds race, there is one attempt at the root connection.   *)
THEOREM SingleRootAttemptHolds == Spec => []SingleRootAttempt
BY IInvHolds, PTL DEF IInv

(* findAndBind hands out a connection only to the holder of the password   *)
(* of the entry it found for that very call.                               *)
THEOREM LoginProvenHolds == Spec => []LoginProven
BY IInvHolds, PTL DEF IInv

(* The root connection is set once and never taken over by a user's bind.  *)
THEOREM RootSetOnceHolds == Spec => RootSetOnce
<1>1. ASSUME IInv, [Next]_vars
      PROVE  [root = None /\ root' \in Direct \cup {Service}]_root
  <2>1. ASSUME NEW c \in Callers, NEW dn \in DNs, RootBindOk(c, dn)
        PROVE  root = None /\ root' \in Direct \cup {Service}
    BY <1>1, <2>1 DEF IInv, PendingOwner, RootBindOk
  <2>2. ASSUME ~\E c \in Callers, dn \in DNs : RootBindOk(c, dn)
        PROVE  root' = root
    BY <1>1, <2>2 DEF Next, vars, connVars, Starts, FindParks, FindSearches,
       ConnectDials, ConnectReturns, BindAnswered, UserBindOk, BindFails,
       BindUnanswered, SearchAnswered, FindEnds, LoginFound, LoginNotFound,
       SearchErrs, SearchUnanswered, Return, FlushDone, ConnectionLost,
       ProcessEnds
  <2> QED BY <2>1, <2>2
<1> QED BY <1>1, IInvHolds, PTL DEF Spec, RootSetOnce

-----------------------------------------------------------------------------
(* Logins over the adapter.                                                *)
USE DNAssumption, DirectoryAssumption

(* The request of every lookup is one that LdapConnection knows.           *)
LEMMA RequestsKnown ==
    /\ AccountRequest \in Requests
    /\ \A cred \in Credentials : LoginRequest(cred.pass) \in Requests
BY DEF AccountRequest, LoginRequest, Requests

LEMMA AsksStarts ==
    ASSUME NEW c \in Callers, NEW req \in Requests, Asks(c, req)
    PROVE  Starts(c)
BY DEF Asks, Starts

LEMMA SearchIsAnswered ==
    ASSUME NEW c \in Callers, Search(c), dir \subseteq Users
    PROVE  SearchAnswered(c)
BY DEF Search, SearchAnswered, EntryFound, EntryNotFound, AccountRead,
       LoginRows

(* Every step of a login is a step of the adapter for the same caller, or  *)
(* leaves the adapter alone.                                               *)
LEMMA StepImplements ==
    ASSUME LoginTypeOK, [LoginNext]_allVars
    PROVE  [Next]_vars
<1>1. ASSUME NEW c \in Callers, NEW cred \in Credentials, AccountByLogin(c, cred)
      PROVE  Starts(c)
    BY <1>1, RequestsKnown, AsksStarts DEF AccountByLogin
<1>2. ASSUME NEW c \in Callers, NEW id \in Ids, AccountById(c, id)
      PROVE  Starts(c)
    BY <1>2, RequestsKnown, AsksStarts DEF AccountById
<1>3. ASSUME NEW c \in Callers, Connects(c)
      PROVE  Starts(c)
    BY <1>3 DEF Connects, Starts
<1>4. ASSUME NEW c \in Callers, Search(c)
      PROVE  SearchAnswered(c)
    BY <1>4, SearchIsAnswered DEF LoginTypeOK
<1>5. ASSUME NEW c \in Callers, Base(c)
      PROVE  Starts(c) \/ UNCHANGED vars
    BY <1>5, RequestsKnown, AsksStarts
       DEF Base, BaseRead, BaseHidden, BaseErrs, BaseUnanswered
<1>6. ASSUME NEW c \in Callers, Continue(c)
      PROVE  Return(c) \/ UNCHANGED vars
    BY <1>6 DEF Continue, LoginRefused, LoginBound, LookupRejected, CallReturns
<1> QED
    BY <1>1, <1>2, <1>3, <1>4, <1>5, <1>6
       DEF LoginNext, Next, CredentialsMissing, Bind, Flush, LoginsEnd, Changes,
           allVars

-----------------------------------------------------------------------------
(* What each stage of a call may rely on.  A login that is past its bind   *)
(* carries the entry it proved; nothing is answered before the end.        *)
Proven(c) == /\ bound[c] \in Users
             /\ bound[c] = login[c].pass
             /\ bound[c] \in ByLogin[login[c].name]

AtBind(c) == /\ login[c] \in Credentials
             /\ call[c].op = "findAndBind"
             /\ call[c].pass = login[c].pass
             /\ entry[c] # None => entry[c] \in ByLogin[login[c].name]

AtAccount(c) == /\ want[c] \in Ids
                /\ login[c] # NoLogin => Proven(c) /\ want[c] = IdOf[bound[c]]

StageInv(c) ==
    /\ stage[c] = "none" => login[c] = NoLogin
    /\ stage[c] = "bind" => AtBind(c)
    /\ stage[c] = "base" => Proven(c)
    /\ stage[c] = "account" => AtAccount(c)
    /\ stage[c] \notin {"answered", "ended"} => reply[c] = NoAnswer

(* Idle callers have no entry left over from an earlier login.             *)
IdleClean == \A c \in Callers : pc[c] = "idle" => entry[c] = None

(* A connection that is handed out is bound as somebody.                   *)
ConnReal == \A c \in Callers : out[c].kind = "conn" => out[c].dn # None

LoginIInv == /\ IInv
             /\ IdleClean
             /\ ConnReal
             /\ LoginTypeOK
             /\ AccountProven
             /\ \A c \in Callers : StageInv(c)

(* The part of the invariant that speaks of one caller's login.            *)
Mine(c) == /\ StageInv(c)
           /\ reply[c].kind = "account" /\ login[c] # NoLogin
                => /\ bound[c] = login[c].pass
                   /\ bound[c] \in ByLogin[login[c].name]
                   /\ reply[c].id = IdOf[bound[c]]
                   /\ Twins(bound[c]) = {} => reply[c].dn = bound[c]

LEMMA MineIsAll == (AccountProven /\ \A c \in Callers : StageInv(c))
                       <=> \A c \in Callers : Mine(c)
BY DEF AccountProven, Mine

LEMMA LoginInitIInv == LoginInit => LoginIInv
<1> SUFFICES ASSUME LoginInit PROVE LoginIInv
    OBVIOUS
<1>1. IInv
    BY InitIInv DEF LoginInit
<1>2. LoginTypeOK
    BY DEF LoginInit, LoginTypeOK, LoginStages, NoLogin, NoAnswer, Answer
<1>3. AccountProven /\ \A c \in Callers : StageInv(c)
    BY DEF LoginInit, AccountProven, StageInv, NoAnswer, Answer
<1>4. IdleClean /\ ConnReal
    BY DEF LoginInit, Init, IdleClean, ConnReal, Unsettled, Outcome
<1> QED BY <1>1, <1>2, <1>3, <1>4 DEF LoginIInv

-----------------------------------------------------------------------------
(* A step of one caller that touches no login, request or entry of another *)
(* one keeps what the other may rely on.                                   *)
LEMMA OtherKeeps ==
    ASSUME NEW d \in Callers, Mine(d),
           stage'[d] = stage[d], login'[d] = login[d], bound'[d] = bound[d],
           want'[d] = want[d], reply'[d] = reply[d],
           call'[d] = call[d], entry'[d] = entry[d]
    PROVE  Mine(d)'
BY DEF Mine, StageInv, AtBind, AtAccount, Proven, Twins

(* The binds and the adapter's own callbacks change no request and no      *)
(* entry.                                                                  *)
LEMMA ConnectionStepsKeep ==
    ASSUME \/ FlushDone
           \/ ConnectionLost
           \/ \E c \in Callers : BindAnswered(c)
           \/ \E c \in Callers : SearchErrs(c) \/ SearchUnanswered(c) \/ LoginNotFound(c)
           \/ \E c \in Callers : FindEnds(c)
    PROVE  UNCHANGED <<call, entry>>
BY DEF FlushDone, ConnectionLost, BindAnswered, RootBindOk, UserBindOk,
       BindFails, BindUnanswered, SearchErrs, SearchUnanswered, LoginNotFound,
       FindEnds

LEMMA AsksFacts ==
    ASSUME TypeOK, NEW c \in Callers, NEW req \in Requests, Asks(c, req)
    PROVE  /\ call' = [call EXCEPT ![c] = req]
           /\ entry' = entry
           /\ pc[c] = "idle"
           /\ call'[c] = req
           /\ \A d \in Callers : d # c => call'[d] = call[d]
BY DEF Asks, FindParks, FindSearches, connVars, TypeOK

LEMMA ReturnFacts ==
    ASSUME NEW c \in Callers, Return(c)
    PROVE  \A d \in Callers : d # c => call'[d] = call[d] /\ entry'[d] = entry[d]
BY DEF Return

LEMMA IdleCleanStep ==
    ASSUME IInv, IdleClean, [Next]_vars
    PROVE  IdleClean'
<1>1. ASSUME NEW c \in Callers, Starts(c) PROVE IdleClean'
  <2>1. /\ entry' = entry
        /\ \A d \in Callers : pc'[d] = "idle" => pc[d] = "idle"
    BY <1>1, RequestsAreCalls, ResumedType
       DEF IInv, TypeOK, Calls, Starts, FindParks, FindSearches, ConnectDials, ConnectReturns
  <2> QED BY <2>1 DEF IdleClean
<1>2. ASSUME NEW c \in Callers, BindAnswered(c) PROVE IdleClean'
  <2>1. ASSUME NEW dn \in DNs, RootBindOk(c, dn)
        PROVE  \A d \in Callers : pc'[d] = "idle" => pc[d] = "idle"
    <3>1. \A d \in Callers : call[d].based \in BOOLEAN
      BY DEF IInv, TypeOK, Calls
    <3> QED BY <2>1, <3>1, ResumedType DEF RootBindOk
  <2>2. ASSUME NEW dn \in DNs,
               UserBindOk(c, dn) \/ BindFails(c, dn) \/ BindUnanswered(c, dn)
        PROVE  \A d \in Callers : pc'[d] = "idle" => pc[d] = "idle"
    BY <2>2 DEF IInv, TypeOK, UserBindOk, BindFails, BindUnanswered
  <2>3. entry' = entry
    BY <1>2, ConnectionStepsKeep
  <2> QED BY <1>2, <2>1, <2>2, <2>3 DEF BindAnswered, IdleClean
<1>3. ASSUME NEW c \in Callers, SearchAnswered(c) PROVE IdleClean'
  <2>1. \A d \in Callers : pc'[d] = "idle" => pc[d] = "idle" /\ d # c
    BY <1>3 DEF IInv, TypeOK, SearchAnswered, FindEnds, LoginFound,
       LoginNotFound, SearchErrs, SearchUnanswered
  <2>2. \A d \in Callers : d # c => entry'[d] = entry[d]
    BY <1>3 DEF IInv, TypeOK, SearchAnswered, FindEnds, LoginFound,
       LoginNotFound, SearchErrs, SearchUnanswered
  <2> QED BY <2>1, <2>2 DEF IdleClean
<1>4. ASSUME NEW c \in Callers, Return(c) PROVE IdleClean'
    BY <1>4 DEF IInv, TypeOK, IdleClean, Return
<1>5. ASSUME FlushDone PROVE IdleClean'
  <2>1. entry' = entry /\ \A d \in Callers : pc'[d] = "idle" => pc[d] = "idle"
    BY <1>5 DEF FlushDone
  <2> QED BY <2>1 DEF IdleClean
<1>6. ASSUME ConnectionLost \/ ProcessEnds \/ UNCHANGED vars PROVE IdleClean'
    BY <1>6 DEF ConnectionLost, ProcessEnds, vars, IdleClean
<1> QED BY <1>1, <1>2, <1>3, <1>4, <1>5, <1>6 DEF Next

LEMMA ConnRealStep ==
    ASSUME IInv, ConnReal, [Next]_vars
    PROVE  ConnReal'
<1> DEFINE Fine(o) == o.kind = "conn" => o.dn # None
           Kept == \A d \in Callers : out'[d] = out[d] \/ Fine(out'[d])
<1>1. Kept => ConnReal'
    BY DEF ConnReal
<1>2. /\ Fine(Unsettled) /\ Fine(Outcome("null", None))
      /\ Fine(Outcome("error", None)) /\ Fine(Outcome("rows", None))
      /\ \A dn \in DNs : Fine(Outcome("conn", dn))
    BY DEF Unsettled, Outcome
<1>3. \A b : Fine(ResumedOut(b))
    BY DEF ResumedOut, Unsettled, Outcome
<1>4. ASSUME NEW c \in Callers, Starts(c) PROVE Kept
  <2>1. CASE \E req \in Requests : FindParks(c, req)
    BY <2>1 DEF FindParks
  <2>2. CASE \E req \in Requests : FindSearches(c, req)
    BY <2>2, <1>3 DEF FindSearches, IInv, TypeOK
  <2>3. CASE \E dn \in Direct, pass \in DNs \cup {None} : ConnectDials(c, dn, pass)
    BY <2>3 DEF ConnectDials
  <2>4. CASE \E dn \in Direct, pass \in DNs \cup {None} : ConnectReturns(c, dn, pass)
    BY <2>4, <1>2 DEF ConnectReturns, IInv, TypeOK
  <2> QED BY <1>4, <2>1, <2>2, <2>3, <2>4 DEF Starts
<1>5. ASSUME NEW c \in Callers, BindAnswered(c) PROVE Kept
  <2>1. CASE \E dn \in DNs : RootBindOk(c, dn)
    BY <2>1, <1>3 DEF RootBindOk
  <2>2. CASE \E dn \in DNs : \/ UserBindOk(c, dn)
                              \/ BindFails(c, dn)
                              \/ BindUnanswered(c, dn)
    BY <2>2, <1>2 DEF UserBindOk, BindFails, BindUnanswered, IInv, TypeOK
  <2> QED BY <1>5, <2>1, <2>2 DEF BindAnswered
<1>6. ASSUME NEW c \in Callers, SearchAnswered(c) PROVE Kept
    BY <1>2, <1>6 DEF SearchAnswered, FindEnds, LoginFound, LoginNotFound,
       SearchErrs, SearchUnanswered, IInv, TypeOK
<1>7. ASSUME NEW c \in Callers, Return(c) PROVE Kept
    BY <1>2, <1>7 DEF Return, IInv, TypeOK
<1>8. ASSUME FlushDone PROVE Kept
  <2>1. root \in DNs
    BY <1>8 DEF FlushDone, IInv, RootHeld, TypeOK
  <2> QED BY <1>2, <1>8, <2>1 DEF FlushDone
<1>9. ASSUME ConnectionLost \/ ProcessEnds \/ UNCHANGED vars PROVE Kept
    BY <1>9 DEF ConnectionLost, ProcessEnds, vars
<1> HIDE DEF Kept
<1> QED BY <1>1, <1>4, <1>5, <1>6, <1>7, <1>8, <1>9 DEF Next

(* The adapter's own invariant survives every step of a login.             *)
LEMMA AdapterStep ==
    ASSUME LoginIInv, [LoginNext]_allVars
    PROVE  IInv' /\ IdleClean' /\ ConnReal'
<1>1. [Next]_vars
    BY StepImplements DEF LoginIInv
<1> QED BY <1>1, IInvStep, IdleCleanStep, ConnRealStep DEF LoginIInv
-----------------------------------------------------------------------------
(* Names and answers have their types.                                     *)
LEMMA Tables ==
    /\ \A u \in Users : IdOf[u] \in Ids
    /\ NoLogin \notin Credentials
    /\ NoAnswer.kind = "none" /\ LoginFailed.kind = "failed"
    /\ AccountMissing.kind = "missing" /\ Rejected.kind = "error"
BY DEF NoLogin, NoAnswer, LoginFailed, AccountMissing, Rejected, Answer

Replies == [kind : {"none", "account", "failed", "missing", "error"},
            id : Ids \cup {None}, dn : Users \cup {None}]

LEMMA AnswerTypes ==
    /\ {NoAnswer, LoginFailed, AccountMissing, Rejected} \subseteq Replies
    /\ \A id \in Ids, dn \in Users : Answer("account", id, dn) \in Replies
BY DEF Replies, NoAnswer, LoginFailed, AccountMissing, Rejected, Answer

(* A call that is answered badly is at its end, whatever came before.      *)
LEMMA SettledBadly ==
    ASSUME LoginTypeOK, NEW c \in Callers, stage[c] # "answered",
           NEW a \in {LoginFailed, AccountMissing, Rejected}, Settles(c, a)
    PROVE  LoginTypeOK' /\ Mine(c)'
<1>1. a \in Replies /\ a.kind # "account"
    BY AnswerTypes, Tables
<1>2. stage'[c] = "answered" /\ reply'[c] = a
    BY DEF Settles, LoginTypeOK
<1>3. LoginTypeOK'
    BY <1>1 DEF Settles, LoginTypeOK, LoginStages, Replies
<1> QED BY <1>1, <1>2, <1>3 DEF Mine, StageInv

(* The others: nobody else's stage, login, request or entry changes.       *)
LEMMA SettlesOthers ==
    ASSUME NEW c \in Callers, NEW a, Settles(c, a)
    PROVE  \A d \in Callers : d # c =>
              /\ stage'[d] = stage[d] /\ login'[d] = login[d]
              /\ bound'[d] = bound[d] /\ want'[d] = want[d] /\ reply'[d] = reply[d]
BY DEF Settles

-----------------------------------------------------------------------------
(* One lemma for each action: types, and what its caller may rely on.      *)
LEMMA AccountByLoginStep ==
    ASSUME LoginIInv, NEW c \in Callers, NEW cred \in Credentials,
           AccountByLogin(c, cred)
    PROVE  LoginTypeOK' /\ \A d \in Callers : Mine(d)'
<1>1. /\ call'[c] = LoginRequest(cred.pass) /\ entry' = entry /\ pc[c] = "idle"
      /\ \A d \in Callers : d # c => call'[d] = call[d]
    BY RequestsKnown, AsksFacts DEF LoginIInv, IInv, AccountByLogin
<1>2. LoginTypeOK'
    BY DEF LoginIInv, LoginTypeOK, LoginStages, AccountByLogin
<1>3. Mine(c)'
  <2>1. stage'[c] = "bind" /\ login'[c] = cred /\ reply'[c] = NoAnswer
    BY DEF LoginIInv, LoginTypeOK, StageInv, AccountByLogin
  <2>2. AtBind(c)'
    BY <1>1, <2>1 DEF AtBind, LoginRequest, LoginIInv, IdleClean
  <2> QED BY <2>1, <2>2, Tables DEF Mine, StageInv
<1>4. ASSUME NEW d \in Callers, d # c PROVE Mine(d)'
    BY <1>1, <1>4, MineIsAll, OtherKeeps DEF LoginIInv, AccountByLogin
<1> QED BY <1>2, <1>3, <1>4

LEMMA AccountByIdStep ==
    ASSUME LoginIInv, NEW c \in Callers, NEW id \in Ids, AccountById(c, id)
    PROVE  LoginTypeOK' /\ \A d \in Callers : Mine(d)'
<1>1. entry' = entry /\ \A d \in Callers : d # c => call'[d] = call[d]
    BY RequestsKnown, AsksFacts DEF LoginIInv, IInv, AccountById
<1>2. LoginTypeOK'
    BY DEF LoginIInv, LoginTypeOK, LoginStages, AccountById
<1>3. Mine(c)'
  <2>1. /\ stage'[c] = "account" /\ login'[c] = NoLogin
        /\ reply'[c] = NoAnswer /\ want'[c] = id
    BY DEF LoginIInv, LoginTypeOK, StageInv, AccountById
  <2> QED BY <2>1, Tables DEF Mine, StageInv, AtAccount
<1>4. ASSUME NEW d \in Callers, d # c PROVE Mine(d)'
    BY <1>1, <1>4, MineIsAll, OtherKeeps DEF LoginIInv, AccountById
<1> QED BY <1>2, <1>3, <1>4

(* The first entry found is one the login selects.                         *)
LEMMA EntryFoundStep ==
    ASSUME LoginIInv, NEW c \in Callers, EntryFound(c)
    PROVE  LoginTypeOK' /\ \A d \in Callers : Mine(d)'
<1>1. PICK e \in LoginRows(login[c].name) : LoginFound(c, e)
    BY DEF EntryFound
<1>2. e \in Users /\ e \in ByLogin[login[c].name]
    BY <1>1 DEF LoginRows, LoginIInv, LoginTypeOK
<1>3. UNCHANGED loginVars /\ stage[c] = "bind"
    BY DEF EntryFound
<1>4. call' = call /\ entry' = [entry EXCEPT ![c] = e]
    BY <1>1 DEF LoginFound
<1>5. LoginTypeOK'
    BY <1>3 DEF LoginIInv, LoginTypeOK, loginVars
<1>6. Mine(c)'
  <2>1. Mine(c) /\ AtBind(c)
    BY <1>3, MineIsAll DEF LoginIInv, StageInv
  <2>2. entry'[c] = e
    BY <1>4 DEF LoginIInv, IInv, TypeOK
  <2>3. AtBind(c)'
    BY <1>2, <1>3, <1>4, <2>1, <2>2 DEF AtBind, loginVars
  <2> QED BY <1>3, <2>1, <2>3 DEF Mine, StageInv, loginVars, Twins
<1>7. ASSUME NEW d \in Callers, d # c PROVE Mine(d)'
    BY <1>3, <1>4, <1>7, MineIsAll, OtherKeeps DEF LoginIInv, loginVars
<1> QED BY <1>5, <1>6, <1>7

(* A bind that succeeded belongs to the entry found and to the password.   *)
LEMMA LoginBoundStep ==
    ASSUME LoginIInv, NEW c \in Callers, LoginBound(c)
    PROVE  LoginTypeOK' /\ \A d \in Callers : Mine(d)'
<1>1. AtBind(c) /\ Mine(c) /\ reply[c] = NoAnswer
    BY MineIsAll DEF LoginIInv, StageInv, LoginBound
<1>2. /\ out[c].dn = entry[c] /\ out[c].dn = login[c].pass
      /\ out[c].dn \in DNs \cup {None} /\ entry[c] \in Users \cup {None}
    BY <1>1 DEF LoginIInv, IInv, TypeOK, LoginProven, LoginBound, AtBind, Outcomes
<1>3. out[c].dn # None
    BY DEF LoginIInv, ConnReal, LoginBound
<1>4. /\ stage'[c] = "base" /\ bound'[c] = out[c].dn
      /\ login' = login /\ reply' = reply
    BY DEF LoginBound, LoginIInv, LoginTypeOK
<1>5. LoginTypeOK'
    BY <1>2, <1>3 DEF LoginIInv, LoginTypeOK, LoginStages, LoginBound
<1>6. Mine(c)'
  <2>1. Proven(c)'
    BY <1>1, <1>2, <1>3, <1>4 DEF Proven, AtBind
  <2> QED BY <1>1, <1>4, <2>1, Tables DEF Mine, StageInv
<1>7. ASSUME NEW d \in Callers, d # c PROVE Mine(d)'
    BY <1>7, ReturnFacts, MineIsAll, OtherKeeps DEF LoginIInv, LoginBound
<1> QED BY <1>5, <1>6, <1>7

(* Answers that end a call badly, at whatever stage.                       *)
LEMMA BadEndStep ==
    ASSUME LoginIInv, NEW c \in Callers,
           \/ CredentialsMissing(c) \/ LoginRefused(c) \/ LookupRejected(c)
           \/ BaseHidden(c) \/ BaseErrs(c)
    PROVE  LoginTypeOK' /\ \A d \in Callers : Mine(d)'
<1>1. PICK a \in {LoginFailed, AccountMissing, Rejected} : Settles(c, a)
    BY DEF CredentialsMissing, LoginRefused, LookupRejected, BaseHidden, BaseErrs
<1>2. stage[c] # "answered" /\ UNCHANGED vars
    BY DEF CredentialsMissing, LoginRefused, LookupRejected, BaseHidden, BaseErrs
<1>3. LoginTypeOK' /\ Mine(c)'
    BY <1>1, <1>2, SettledBadly DEF LoginIInv
<1>4. ASSUME NEW d \in Callers, d # c PROVE Mine(d)'
    BY <1>1, <1>2, <1>4, SettlesOthers, MineIsAll, OtherKeeps DEF LoginIInv, vars
<1> QED BY <1>3, <1>4

(* The id handed on is that of the entry proved.                           *)
LEMMA BaseReadStep ==
    ASSUME LoginIInv, NEW c \in Callers, BaseRead(c)
    PROVE  LoginTypeOK' /\ \A d \in Callers : Mine(d)'
<1>1. Proven(c) /\ reply[c] = NoAnswer
    BY DEF LoginIInv, StageInv, BaseRead
<1>2. entry' = entry /\ \A d \in Callers : d # c => call'[d] = call[d]
    BY RequestsKnown, AsksFacts DEF LoginIInv, IInv, BaseRead
<1>3. IdOf[bound[c]] \in Ids
    BY <1>1, Tables DEF Proven
<1>4. LoginTypeOK'
    BY <1>3 DEF LoginIInv, LoginTypeOK, LoginStages, BaseRead
<1>5. Mine(c)'
  <2>1. /\ stage'[c] = "account" /\ login' = login /\ bound' = bound
        /\ reply' = reply /\ want'[c] = IdOf[bound[c]]
    BY DEF LoginIInv, LoginTypeOK, BaseRead
  <2>2. AtAccount(c)'
    BY <1>1, <1>3, <2>1 DEF AtAccount, Proven
  <2> QED BY <1>1, <2>1, <2>2, Tables DEF Mine, StageInv
<1>6. ASSUME NEW d \in Callers, d # c PROVE Mine(d)'
    BY <1>2, <1>6, MineIsAll, OtherKeeps DEF LoginIInv, BaseRead
<1> QED BY <1>4, <1>5, <1>6

LEMMA BaseUnansweredStep ==
    ASSUME LoginIInv, NEW c \in Callers, BaseUnanswered(c)
    PROVE  LoginTypeOK' /\ \A d \in Callers : Mine(d)'
<1>1. LoginTypeOK'
    BY DEF LoginIInv, LoginTypeOK, LoginStages, BaseUnanswered
<1>2. Mine(c)'
  <2>1. stage'[c] = "gone" /\ reply'[c] = NoAnswer
    BY DEF LoginIInv, LoginTypeOK, StageInv, BaseUnanswered
  <2> QED BY <2>1, Tables DEF Mine, StageInv
<1>3. ASSUME NEW d \in Callers, d # c PROVE Mine(d)'
    BY <1>3, MineIsAll, OtherKeeps DEF LoginIInv, BaseUnanswered, vars
<1> QED BY <1>1, <1>2, <1>3

(* The account found under the id is the entry proved, if no other entry   *)
(* has that id.                                                            *)
LEMMA AccountReadStep ==
    ASSUME LoginIInv, NEW c \in Callers, AccountRead(c)
    PROVE  LoginTypeOK' /\ \A d \in Callers : Mine(d)'
<1>1. AtAccount(c) /\ stage[c] = "account"
    BY DEF LoginIInv, StageInv, AccountRead
<1>2. UNCHANGED <<call, entry>>
    BY DEF AccountRead, FindEnds
<1>3. CASE Settles(c, AccountMissing)
  <2>1. LoginTypeOK' /\ Mine(c)'
    BY <1>1, <1>3, SettledBadly DEF LoginIInv
  <2>2. ASSUME NEW d \in Callers, d # c PROVE Mine(d)'
    BY <1>2, <1>3, <2>2, SettlesOthers, MineIsAll, OtherKeeps DEF LoginIInv
  <2> QED BY <2>1, <2>2
<1>4. CASE \E e \in AccountRows(want[c]) : Settles(c, Answer("account", want[c], e))
  <2>1. PICK e \in AccountRows(want[c]) : Settles(c, Answer("account", want[c], e))
    BY <1>4
  <2>2. e \in Users /\ e \in ById[want[c]]
    BY <2>1 DEF AccountRows, LoginIInv, LoginTypeOK
  <2>3. Answer("account", want[c], e) \in Replies
    BY <1>1, <2>2, AnswerTypes DEF AtAccount
  <2>4. LoginTypeOK'
    BY <2>1, <2>3 DEF Settles, LoginIInv, LoginTypeOK, LoginStages, Replies
  <2>5. /\ stage'[c] = "answered" /\ reply'[c] = Answer("account", want[c], e)
        /\ login' = login /\ bound' = bound
    BY <2>1 DEF Settles, LoginIInv, LoginTypeOK
  <2>6. Mine(c)'
    <3>1. ASSUME login[c] # NoLogin, Twins(bound[c]) = {} PROVE e = bound[c]
      BY <1>1, <2>2, <3>1 DEF AtAccount, Proven, Twins
    <3> QED BY <1>1, <2>5, <3>1 DEF Mine, StageInv, AtAccount, Proven, Answer, Twins
  <2>7. ASSUME NEW d \in Callers, d # c PROVE Mine(d)'
    BY <1>2, <2>1, <2>7, SettlesOthers, MineIsAll, OtherKeeps DEF LoginIInv
  <2> QED BY <2>4, <2>6, <2>7
<1> QED BY <1>3, <1>4 DEF AccountRead

LEMMA CallReturnsStep ==
    ASSUME LoginIInv, NEW c \in Callers, CallReturns(c)
    PROVE  LoginTypeOK' /\ \A d \in Callers : Mine(d)'
<1>1. LoginTypeOK'
    BY AnswerTypes DEF LoginIInv, LoginTypeOK, LoginStages, CallReturns, NoLogin, Replies
<1>2. Mine(c)'
  <2>1. /\ stage'[c] = "none" /\ login'[c] = NoLogin /\ reply'[c] = NoAnswer
    BY DEF LoginIInv, LoginTypeOK, CallReturns
  <2> QED BY <2>1, Tables DEF Mine, StageInv
<1>3. ASSUME NEW d \in Callers, d # c PROVE Mine(d)'
  <2>1. call'[d] = call[d] /\ entry'[d] = entry[d]
    BY <1>3, ReturnFacts DEF CallReturns, vars
  <2> QED BY <1>3, <2>1, MineIsAll, OtherKeeps DEF LoginIInv, CallReturns
<1> QED BY <1>1, <1>2, <1>3

(* Calls of connect() belong to callers without a login.                   *)
LEMMA ConnectsStep ==
    ASSUME LoginIInv, NEW c \in Callers, Connects(c)
    PROVE  LoginTypeOK' /\ \A d \in Callers : Mine(d)'
<1>1. UNCHANGED loginVars /\ stage[c] = "none"
    BY DEF Connects
<1>2. entry' = entry /\ \A d \in Callers : d # c => call'[d] = call[d]
    BY DEF Connects, ConnectDials, ConnectReturns, LoginIInv, IInv, TypeOK
<1>3. LoginTypeOK'
    BY <1>1 DEF LoginIInv, LoginTypeOK, loginVars
<1>4. Mine(c)'
    BY <1>1, MineIsAll DEF LoginIInv, Mine, StageInv, loginVars, Twins
<1>5. ASSUME NEW d \in Callers, d # c PROVE Mine(d)'
    BY <1>1, <1>2, <1>5, MineIsAll, OtherKeeps DEF LoginIInv, loginVars
<1> QED BY <1>3, <1>4, <1>5

(* The end of the process answers nothing.                                 *)
LEMMA LoginsEndStep ==
    ASSUME LoginIInv, LoginsEnd
    PROVE  LoginTypeOK' /\ \A d \in Callers : Mine(d)'
<1>1. LoginTypeOK'
    BY DEF LoginIInv, LoginTypeOK, LoginStages, LoginsEnd
<1>2. ASSUME NEW d \in Callers PROVE Mine(d)'
  <2>1. Mine(d)
    BY MineIsAll DEF LoginIInv
  <2>2. stage'[d] = "ended" /\ UNCHANGED <<login, bound, reply>>
    BY DEF LoginsEnd
  <2> QED BY <2>1, <2>2 DEF Mine, StageInv, Twins
<1> QED BY <1>1, <1>2

(* Steps of the adapter and of the directory that change no request.       *)
LEMMA QuietStep ==
    ASSUME LoginIInv,
           \/ UNCHANGED loginVars /\ UNCHANGED <<call, entry>>
           \/ \E e \in Changing : Changes(e)
    PROVE  LoginTypeOK' /\ \A d \in Callers : Mine(d)'
<1>1. UNCHANGED <<stage, login, bound, want, reply, call, entry>>
    BY DEF Changes, loginVars, vars
<1>2. dir' \subseteq Users
    BY DEF LoginIInv, LoginTypeOK, Changes, loginVars
<1>3. LoginTypeOK'
    BY <1>1, <1>2 DEF LoginIInv, LoginTypeOK
<1>4. ASSUME NEW d \in Callers PROVE Mine(d)'
    BY <1>1, MineIsAll, OtherKeeps DEF LoginIInv
<1> QED BY <1>3, <1>4

-----------------------------------------------------------------------------
LEMMA LoginStep ==
    ASSUME LoginIInv, [LoginNext]_allVars
    PROVE  LoginIInv'
<1>1. ASSUME NEW c \in Callers, Search(c)
      PROVE  LoginTypeOK' /\ \A d \in Callers : Mine(d)'
  <2>1. CASE EntryFound(c)
    BY <2>1, EntryFoundStep
  <2>2. CASE AccountRead(c)
    BY <2>2, AccountReadStep
  <2>3. CASE \/ EntryNotFound(c)
             \/ SearchErrs(c) /\ UNCHANGED loginVars
             \/ SearchUnanswered(c) /\ UNCHANGED loginVars
    BY <2>3, ConnectionStepsKeep, QuietStep DEF EntryNotFound
  <2> QED BY <1>1, <2>1, <2>2, <2>3 DEF Search
<1>2. ASSUME NEW c \in Callers, Base(c) \/ Continue(c)
      PROVE  LoginTypeOK' /\ \A d \in Callers : Mine(d)'
    BY <1>2, BadEndStep, BaseReadStep, BaseUnansweredStep, LoginBoundStep,
       CallReturnsStep DEF Base, Continue
<1>3. ASSUME Flush \/ (ConnectionLost /\ UNCHANGED loginVars)
             \/ (\E c \in Callers : Bind(c)) \/ (\E e \in Changing : Changes(e))
             \/ UNCHANGED allVars
      PROVE  LoginTypeOK' /\ \A d \in Callers : Mine(d)'
    BY <1>3, ConnectionStepsKeep, QuietStep DEF Flush, Bind, allVars, vars
<1>4. LoginTypeOK' /\ \A d \in Callers : Mine(d)'
    BY <1>1, <1>2, <1>3, AccountByLoginStep, AccountByIdStep, BadEndStep,
       ConnectsStep, LoginsEndStep DEF LoginNext
<1>5. AccountProven' /\ \A d \in Callers : StageInv(d)'
    BY <1>4 DEF AccountProven, Mine, Twins
<1> QED BY <1>4, <1>5, AdapterStep DEF LoginIInv

LEMMA LoginIInvHolds == LoginSpec => []LoginIInv
BY LoginInitIInv, LoginStep, PTL DEF LoginSpec

(* Every variable keeps its type; in particular what is looked up as an    *)
(* account is an id.                                                       *)
THEOREM LoginTypeCorrect == LoginSpec => []LoginTypeOK
BY LoginIInvHolds, PTL DEF LoginIInv

(* A login is answered with the account of an entry its filter selected    *)
(* and whose password was presented, whatever that filter selects, other   *)
(* callers do and the directory becomes meanwhile.                         *)
THEOREM AccountProvenHolds == LoginSpec => []AccountProven
BY LoginIInvHolds, PTL DEF LoginIInv

(* The composition implements the adapter on its own.                      *)
THEOREM LoginImplementsConnection == LoginSpec => Spec
<1>1. LoginInit => Init
    BY DEF LoginInit
<1>2. LoginIInv /\ [LoginNext]_allVars => [Next]_vars
    BY StepImplements DEF LoginIInv
<1> QED BY <1>1, <1>2, LoginIInvHolds, PTL DEF LoginSpec, Spec
=============================================================================
