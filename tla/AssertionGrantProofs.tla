------------------------ MODULE AssertionGrantProofs ------------------------
(***************************************************************************)
(* Who gets a token, for every set of requests, clients, keys, accounts    *)
(* and assertions.  Requests share only the confirmation keys, the tokens  *)
(* and the history of logins, so the invariant is one predicate per        *)
(* request and one on the confirmation keys; a step moves one request and  *)
(* lets the shared sets grow, which disturbs no other request.             *)
(***************************************************************************)
EXTENDS AssertionGrant, TLAPS

(* The session information of a record stems from a login.                 *)
Proven(rec) == \E l \in logins : l.key = rec.key /\ SubOf[l.account] = rec.sub

(* The request has established whom its tokens are for, and that its       *)
(* client may have them.                                                   *)
Entitled(r) ==
    /\ user[r] \in Accounts
    /\ IF Confirmed(asr[r])
       THEN Login(user[r], asr[r].signer) \in logins /\ user[r] = asr[r].sub
       ELSE /\ Login(user[r], asr[r].cnfJwk) \in logins
            /\ user[r] \in ByLogin[asr[r].sub]
    /\ cl[r] = asr[r].iss \/ (Confirmed(asr[r]) /\ asr[r].azp \in RedirectUris[cl[r]])

(* What the stages of the authn path rely on.                              *)
AuthnPath(r) ==
    /\ pc[r] \in {"client", "login", "register"} =>
           ~Confirmed(asr[r]) /\ asr[r].iss = cl[r]
    /\ pc[r] \in {"login", "register"} =>
           asr[r].cnfJwk \in Keys /\ KidOf[asr[r].cnfJwk] \in Kids
    /\ pc[r] = "register" =>
           /\ user[r] \in Accounts
           /\ Login(user[r], asr[r].cnfJwk) \in logins
           /\ user[r] \in ByLogin[asr[r].sub]

(* What the stages of the authz path rely on.                              *)
AuthzPath(r) ==
    /\ pc[r] \in {"confKey", "issuer", "loadSub"} => Confirmed(asr[r])
    /\ pc[r] = "issuer" => cnf[r] \in ConfRecords /\ Proven(cnf[r])
    /\ pc[r] = "loadSub" =>
           /\ \E l \in logins : l.key = asr[r].signer /\ SubOf[l.account] = asr[r].sub
           /\ Authorized(asr[r], cl[r])

Issued(r) ==
    \A t \in tokens : t.req = r =>
        /\ pc[r] \in {"saveRefresh", "respond", "answered", "lost"}
        /\ t.account = user[r]
        /\ t.client = cl[r]
        /\ Entitled(r)

Bundled(r) ==
    /\ pc[r] = "saveRefresh" => Token("access", r) \in tokens /\ cl[r] \in Refreshing
    /\ pc[r] = "respond" \/ out[r] = "granted" =>
           /\ Token("access", r) \in tokens
           /\ cl[r] \in Refreshing => Token("refresh", r) \in tokens
    /\ out[r] # "none" => pc[r] = "answered"
    /\ \A t \in tokens : t.req = r /\ t.kind = "refresh" =>
           Token("access", r) \in tokens /\ t.client \in Refreshing

ReqInv(r) ==
    /\ pc[r] # "idle" => asr[r] \in AssertionSet /\ cl[r] \in Clients
    /\ AuthnPath(r)
    /\ AuthzPath(r)
    /\ pc[r] \in {"saveAccess", "saveRefresh", "respond"} => Entitled(r)
    /\ Issued(r)
    /\ Bundled(r)

IInv == TypeOK /\ KeysProven /\ \A r \in Requests : ReqInv(r)

(* A step of request r: the others stand still, the shared sets grow, and  *)
(* only with tokens of r.                                                  *)
Moves(r) ==
    /\ \A q \in Requests \ {r} :
           /\ pc'[q] = pc[q] /\ asr'[q] = asr[q] /\ cl'[q] = cl[q]
           /\ cnf'[q] = cnf[q] /\ user'[q] = user[q] /\ out'[q] = out[q]
    /\ logins \subseteq logins'
    /\ tokens \subseteq tokens'
    /\ \A t \in tokens' : t \notin tokens => t.req = r

-----------------------------------------------------------------------------
(* A request keeps its invariant through a step of another one.            *)
LEMMA OthersKeep ==
    ASSUME NEW r \in Requests, NEW q \in Requests, q # r,
           Moves(r), ReqInv(q), \A t \in tokens' : t.req \in Requests
    PROVE  ReqInv(q)'
<1>1. /\ pc'[q] = pc[q] /\ asr'[q] = asr[q] /\ cl'[q] = cl[q]
      /\ cnf'[q] = cnf[q] /\ user'[q] = user[q] /\ out'[q] = out[q]
  BY DEF Moves
<1>2. logins \subseteq logins' /\ tokens \subseteq tokens'
  BY DEF Moves
<1>3. \A t \in tokens' : t.req = q => t \in tokens
  BY DEF Moves
<1>4. Entitled(q) => Entitled(q)'
  BY <1>1, <1>2 DEF Entitled, Confirmed, Login
<1>5. AuthnPath(q)'
  BY <1>1, <1>2 DEF ReqInv, AuthnPath, Confirmed, Login
<1>6. AuthzPath(q)'
  BY <1>1, <1>2 DEF ReqInv, AuthzPath, Confirmed, Proven, Authorized
<1>7. Issued(q)'
  BY <1>1, <1>3, <1>4 DEF ReqInv, Issued
<1>8. Bundled(q)'
  BY <1>1, <1>2, <1>3 DEF ReqInv, Bundled, Token
<1> QED
  BY <1>1, <1>4, <1>5, <1>6, <1>7, <1>8 DEF ReqInv

(* So a step of r preserves the invariant if it does so for r itself.      *)
LEMMA StepKeeps ==
    ASSUME IInv, NEW r \in Requests, Moves(r), TypeOK', KeysProven', ReqInv(r)'
    PROVE  IInv'
<1>1. \A t \in tokens' : t.req \in Requests
  BY DEF TypeOK, Tokens
<1>2. ASSUME NEW q \in Requests, q # r PROVE ReqInv(q)'
  BY <1>1, <1>2, OthersKeep DEF IInv
<1> QED
  BY <1>2 DEF IInv

(* Confirmation keys stay proven while only the logins grow.               *)
LEMMA KeysKept ==
    ASSUME KeysProven, UNCHANGED confKeys, logins \subseteq logins'
    PROVE  KeysProven'
BY DEF KeysProven

-----------------------------------------------------------------------------
(* The front of the pipeline: no tokens exist yet.                         *)
LEMMA ReceiveStep ==
    ASSUME IInv, NEW r \in Requests, NEW a \in Assertions[r], NEW c \in Clients,
           Receive(r, a, c)
    PROVE  IInv'
<1> USE DEF IInv, Receive, sharedVars, Check, Goto, Reject, Answer
<1>1. TypeOK'
  BY GrantAssumption DEF TypeOK, Stages, Answers
<1>2. Moves(r)
  BY DEF Moves, TypeOK
<1>3. KeysProven'
  BY KeysKept
<1>4. /\ pc'[r] \in {"verify", "answered"}
      /\ out'[r] # "granted" /\ (out'[r] = "none" \/ pc'[r] = "answered")
  BY DEF TypeOK, ReqInv, Bundled
<1>5. asr'[r] \in AssertionSet /\ cl'[r] \in Clients
  BY GrantAssumption DEF TypeOK
<1>6. \A t \in tokens' : t.req # r
  BY DEF ReqInv, Issued
<1>7. ReqInv(r)'
  BY <1>4, <1>5, <1>6 DEF ReqInv, AuthnPath, AuthzPath, Issued, Bundled
<1> QED
  BY <1>1, <1>2, <1>3, <1>7, StepKeeps

LEMMA VerifyStep ==
    ASSUME IInv, NEW r \in Requests, Verify(r)
    PROVE  IInv'
<1> USE DEF IInv, Verify, sharedVars, Check, Goto, Reject, Fail, Answer
<1>1. TypeOK'
  BY DEF TypeOK, Stages, Answers
<1>2. Moves(r)
  BY DEF Moves, TypeOK
<1>3. KeysProven'
  BY KeysKept
<1>4. /\ pc'[r] \in {"confKey", "client", "answered"}
      /\ out'[r] # "granted" /\ (out'[r] = "none" \/ pc'[r] = "answered")
      /\ asr'[r] \in AssertionSet /\ cl'[r] \in Clients
  BY DEF TypeOK, ReqInv, Bundled
<1>5. pc'[r] = "confKey" => Confirmed(asr[r])
  BY DEF TypeOK
<1>6. pc'[r] = "client" => ~Confirmed(asr[r]) /\ asr[r].iss = cl[r]
  BY DEF TypeOK, Relayable, Confirmed
<1>7. \A t \in tokens' : t.req # r
  BY DEF ReqInv, Issued
<1>8. ReqInv(r)'
  BY <1>4, <1>5, <1>6, <1>7
  DEF ReqInv, AuthnPath, AuthzPath, Issued, Bundled, Confirmed
<1> QED
  BY <1>1, <1>2, <1>3, <1>8, StepKeeps

-----------------------------------------------------------------------------
(* The authn path.                                                         *)
LEMMA FindClientStep ==
    ASSUME IInv, NEW r \in Requests, FindClient(r)
    PROVE  IInv'
<1> USE DEF IInv, FindClient, sharedVars, Goto, Reject, Fail, Answer
<1>1. TypeOK'
  BY DEF TypeOK, Stages, Answers
<1>2. Moves(r)
  BY DEF Moves, TypeOK
<1>3. KeysProven'
  BY KeysKept
<1>4. /\ pc'[r] \in {"login", "answered"}
      /\ out'[r] # "granted" /\ (out'[r] = "none" \/ pc'[r] = "answered")
      /\ asr'[r] \in AssertionSet /\ cl'[r] \in Clients
  BY DEF TypeOK, ReqInv, Bundled
<1>5. ~Confirmed(asr[r]) /\ asr[r].iss = cl[r]
  BY DEF ReqInv, AuthnPath
<1>6. pc'[r] = "login" => asr[r].cnfJwk \in Keys /\ KidOf[asr[r].cnfJwk] \in Kids
  BY <1>4, GrantAssumption DEF TypeOK, HoldsDeviceKey, AssertionSet
<1>7. \A t \in tokens' : t.req # r
  BY DEF ReqInv, Issued
<1>8. ReqInv(r)'
  BY <1>4, <1>5, <1>6, <1>7
  DEF ReqInv, AuthnPath, AuthzPath, Issued, Bundled, Confirmed
<1> QED
  BY <1>1, <1>2, <1>3, <1>8, StepKeeps

LEMMA LoginAcceptedStep ==
    ASSUME IInv, NEW r \in Requests, NEW u \in Accounts, LoginAccepted(r, u)
    PROVE  IInv'
<1> USE DEF IInv, LoginAccepted, sharedVars, Goto
<1>1. asr[r].cnfJwk \in Keys /\ KidOf[asr[r].cnfJwk] \in Kids
  BY DEF ReqInv, AuthnPath
<1>2. TypeOK'
  BY <1>1 DEF TypeOK, Stages, Login
<1>3. Moves(r)
  BY DEF Moves, TypeOK
<1>4. KeysProven'
  BY KeysKept
<1>5. /\ pc'[r] = "register" /\ user'[r] = u
      /\ asr' = asr /\ cl' = cl /\ out' = out /\ tokens' = tokens
      /\ Login(u, asr[r].cnfJwk) \in logins' /\ u \in ByLogin[asr[r].sub]
  BY DEF TypeOK
<1>6. /\ asr[r] \in AssertionSet /\ cl[r] \in Clients
      /\ ~Confirmed(asr[r]) /\ asr[r].iss = cl[r]
      /\ out[r] = "none"
  BY DEF ReqInv, AuthnPath, Bundled
<1>7. \A t \in tokens : t.req # r
  BY DEF ReqInv, Issued
<1>8. AuthnPath(r)'
  BY <1>1, <1>5, <1>6 DEF AuthnPath, Confirmed, Login
<1>9. AuthzPath(r)' /\ Issued(r)' /\ Bundled(r)'
  BY <1>5, <1>6, <1>7 DEF AuthzPath, Issued, Bundled
<1>10. ReqInv(r)'
  BY <1>5, <1>6, <1>8, <1>9 DEF ReqInv
<1> QED
  BY <1>2, <1>3, <1>4, <1>10, StepKeeps

(* A request that is refused before it issued anything.                    *)
LEMMA RefusedStep ==
    ASSUME IInv, NEW r \in Requests,
           pc[r] \in {"login", "register", "confKey", "issuer", "loadSub"},
           NEW o \in {"invalid_request", "server_error"}, Answer(r, o),
           UNCHANGED <<tokens, asr, cl, cnf, user, logins>>,
           TypeOK', KeysProven'
    PROVE  IInv'
<1> USE DEF IInv, Answer
<1>1. Moves(r)
  BY DEF Moves, TypeOK
<1>2. /\ pc'[r] = "answered" /\ out'[r] # "granted"
      /\ asr'[r] \in AssertionSet /\ cl'[r] \in Clients
  BY DEF TypeOK, ReqInv
<1>3. \A t \in tokens' : t.req # r
  BY DEF ReqInv, Issued
<1>4. ReqInv(r)'
  BY <1>2, <1>3 DEF ReqInv, AuthnPath, AuthzPath, Issued, Bundled
<1> QED
  BY <1>1, <1>4, StepKeeps

LEMMA LoginRejectedStep ==
    ASSUME IInv, NEW r \in Requests, LoginRejected(r)
    PROVE  IInv'
<1> USE DEF IInv, LoginRejected, sharedVars, Reject
<1>1. TypeOK'
  BY DEF TypeOK, Stages, Answers, Answer
<1>2. KeysProven'
  BY KeysKept
<1> QED
  BY <1>1, <1>2, RefusedStep

(* The record that is registered is proven: its key and its user's sub are *)
(* those of the login of this request.                                     *)
LEMMA StoresKeeps ==
    ASSUME IInv, NEW r \in Requests, pc[r] = "register", Stores(r),
           UNCHANGED logins
    PROVE  KeysProven' /\ confKeys' \in [Kids -> ConfRecords \cup {NoRec}]
<1> DEFINE a == asr[r]
           rec == ConfRecord(a, user[r])
           k == KidOf[a.cnfJwk]
<1>1. /\ a \in AssertionSet /\ a.cnfJwk \in Keys /\ k \in Kids
      /\ user[r] \in Accounts /\ Login(user[r], a.cnfJwk) \in logins
  BY DEF IInv, ReqInv, AuthnPath
<1>2. confKeys' = [confKeys EXCEPT ![k] = rec]
  BY DEF Stores
<1>3. rec \in ConfRecords
  BY <1>1, GrantAssumption DEF ConfRecord, ConfRecords, AssertionSet
<1>4. KidOf[rec.key] = k
  BY DEF ConfRecord
<1>5. /\ Login(user[r], a.cnfJwk).key = rec.key
      /\ SubOf[Login(user[r], a.cnfJwk).account] = rec.sub
  BY DEF ConfRecord, Login
<1>6. \A j \in Kids : confKeys'[j] = IF j = k THEN rec ELSE confKeys[j]
  BY <1>1, <1>2 DEF IInv, TypeOK
<1>7. confKeys' \in [Kids -> ConfRecords \cup {NoRec}]
  BY <1>1, <1>2, <1>3 DEF IInv, TypeOK
<1>8. KeysProven'
  <2> SUFFICES ASSUME NEW j \in Kids, confKeys'[j] # NoRec
               PROVE  /\ KidOf[confKeys'[j].key] = j
                      /\ \E l \in logins : /\ l.key = confKeys'[j].key
                                           /\ SubOf[l.account] = confKeys'[j].sub
    BY DEF KeysProven
  <2>1. CASE j = k
    BY <2>1, <1>1, <1>4, <1>5, <1>6
  <2>2. CASE j # k
    BY <2>2, <1>6 DEF IInv, KeysProven
  <2> QED
    BY <2>1, <2>2
<1> QED
  BY <1>7, <1>8

LEMMA RegisterStep ==
    ASSUME IInv, NEW r \in Requests, Register(r)
    PROVE  IInv'
<1> USE DEF IInv, Register, Goto
<1>1. KeysProven' /\ confKeys' \in [Kids -> ConfRecords \cup {NoRec}]
  BY StoresKeeps
<1>2. TypeOK'
  BY <1>1 DEF TypeOK, Stages
<1>3. Moves(r)
  BY DEF Moves, TypeOK
<1>4. pc'[r] = "saveAccess"
  BY DEF TypeOK
<1>5. /\ asr[r] \in AssertionSet /\ cl[r] \in Clients
      /\ out[r] = "none" /\ \A t \in tokens : t.req # r
  BY DEF ReqInv, Bundled, Issued
<1>6. Entitled(r)
  BY DEF ReqInv, AuthnPath, Entitled
<1>7. ReqInv(r)'
  BY <1>4, <1>5, <1>6
  DEF ReqInv, AuthnPath, AuthzPath, Issued, Bundled, Entitled, Confirmed, Login
<1> QED
  BY <1>1, <1>2, <1>3, <1>7, StepKeeps

LEMMA RegisterFailsStep ==
    ASSUME IInv, NEW r \in Requests, RegisterFails(r)
    PROVE  IInv'
<1> USE DEF IInv, RegisterFails, Fail
<1>1. KeysProven' /\ confKeys' \in [Kids -> ConfRecords \cup {NoRec}]
  BY StoresKeeps, KeysKept DEF TypeOK
<1>2. TypeOK'
  BY <1>1 DEF TypeOK, Stages, Answers, Answer
<1> QED
  BY <1>1, <1>2, RefusedStep

-----------------------------------------------------------------------------
(* The authz path.                                                         *)
(* A lookup that is rejected leaves everything but the answer.             *)
LEMMA LookupFailsStep ==
    ASSUME IInv, NEW r \in Requests, pc[r] \in {"confKey", "issuer"}, Fail(r),
           UNCHANGED <<now, sharedVars, asr, cl, cnf, user, seen, logins>>
    PROVE  IInv'
<1> USE DEF IInv, Fail, sharedVars
<1>1. TypeOK'
  BY DEF TypeOK, Stages, Answers, Answer
<1>2. KeysProven'
  BY KeysKept
<1> QED
  BY <1>1, <1>2, RefusedStep

LEMMA ConfKeyFoundStep ==
    ASSUME IInv, NEW r \in Requests, FindConfKey(r),
           cnf' = [cnf EXCEPT ![r] = confKeys[asr[r].cnfKid]],
           Check(r, KnownKey(asr[r], confKeys[asr[r].cnfKid]), "issuer")
    PROVE  IInv'
<1> DEFINE a == asr[r]
           rec == confKeys[a.cnfKid]
<1> USE DEF IInv, FindConfKey, sharedVars, Check, Goto, Reject, Answer
<1>1. Confirmed(a) /\ a \in AssertionSet /\ cl[r] \in Clients
  BY DEF ReqInv, AuthzPath
<1>2. a.cnfKid \in Kids
  BY <1>1 DEF Confirmed, AssertionSet
<1>3. rec \in ConfRecords \cup {NoRec}
  BY <1>2 DEF TypeOK
<1>4. TypeOK'
  BY <1>3 DEF TypeOK, Stages, Answers
<1>5. Moves(r)
  BY DEF Moves, TypeOK
<1>6. KeysProven'
  BY KeysKept
<1>7. /\ pc'[r] \in {"issuer", "answered"}
      /\ out'[r] # "granted" /\ (out'[r] = "none" \/ pc'[r] = "answered")
      /\ cnf'[r] = rec
  BY DEF TypeOK, ReqInv, Bundled
<1>8. pc'[r] = "issuer" => rec # NoRec
  BY DEF KnownKey, TypeOK
<1>9. rec # NoRec => rec \in ConfRecords /\ Proven(rec)
  BY <1>2, <1>3 DEF KeysProven, Proven
<1>10. \A t \in tokens' : t.req # r
  BY DEF ReqInv, Issued
<1>11. AuthzPath(r)'
  BY <1>1, <1>7, <1>8, <1>9 DEF AuthzPath, Confirmed, Proven
<1>12. ReqInv(r)'
  BY <1>1, <1>7, <1>10, <1>11 DEF ReqInv, AuthnPath, Issued, Bundled
<1> QED
  BY <1>4, <1>5, <1>6, <1>12, StepKeeps

LEMMA FindConfKeyStep ==
    ASSUME IInv, NEW r \in Requests, FindConfKey(r)
    PROVE  IInv'
BY ConfKeyFoundStep, LookupFailsStep DEF FindConfKey, sharedVars

LEMMA IssuerFoundStep ==
    ASSUME IInv, NEW r \in Requests, FindIssuer(r),
           Check(r, /\ cnf[r].iss \in clients
                    /\ Confirms(asr[r], cnf[r])
                    /\ Authorized(asr[r], cl[r]),
                 "loadSub")
    PROVE  IInv'
<1> DEFINE a == asr[r]
<1> USE DEF IInv, FindIssuer, sharedVars, Check, Goto, Reject, Answer
<1>1. /\ Confirmed(a) /\ a \in AssertionSet /\ cl[r] \in Clients
      /\ Proven(cnf[r])
  BY DEF ReqInv, AuthzPath
<1>2. TypeOK'
  BY DEF TypeOK, Stages, Answers
<1>3. Moves(r)
  BY DEF Moves, TypeOK
<1>4. KeysProven'
  BY KeysKept
<1>5. /\ pc'[r] \in {"loadSub", "answered"}
      /\ out'[r] # "granted" /\ (out'[r] = "none" \/ pc'[r] = "answered")
      /\ asr' = asr /\ cl' = cl /\ logins' = logins
  BY DEF TypeOK, ReqInv, Bundled
<1>6. pc'[r] = "loadSub" => /\ a.signer = cnf[r].key /\ a.sub = cnf[r].sub
                            /\ Authorized(a, cl[r])
  BY DEF Confirms, TypeOK
<1>7. \A t \in tokens' : t.req # r
  BY DEF ReqInv, Issued
<1>8. AuthzPath(r)'
  BY <1>1, <1>5, <1>6 DEF AuthzPath, Confirmed, Proven, Authorized
<1>9. ReqInv(r)'
  BY <1>1, <1>5, <1>7, <1>8 DEF ReqInv, AuthnPath, Issued, Bundled
<1> QED
  BY <1>2, <1>3, <1>4, <1>9, StepKeeps

LEMMA FindIssuerStep ==
    ASSUME IInv, NEW r \in Requests, FindIssuer(r)
    PROVE  IInv'
BY IssuerFoundStep, LookupFailsStep DEF FindIssuer, sharedVars

(* The account whose id is the sub is the one that logged in, because no   *)
(* other account's claims carry that sub.                                  *)
LEMMA LoadSubStep ==
    ASSUME IInv, NEW r \in Requests, LoadSub(r)
    PROVE  IInv'
<1> DEFINE a == asr[r]
<1> USE DEF IInv, LoadSub, sharedVars
<1>1. CASE Fail(r) /\ UNCHANGED user
  <2>1. TypeOK'
    BY <1>1 DEF TypeOK, Stages, Answers, Fail, Answer
  <2>2. KeysProven'
    BY KeysKept
  <2> QED
    BY <1>1, <2>1, <2>2, RefusedStep DEF Fail
<1>2. CASE /\ a.sub \in accounts
           /\ user' = [user EXCEPT ![r] = a.sub]
           /\ Goto(r, "saveAccess")
  <2> USE <1>2 DEF Goto
  <2>1. TypeOK'
    BY DEF TypeOK, Stages
  <2>2. Moves(r)
    BY DEF Moves, TypeOK
  <2>3. KeysProven'
    BY KeysKept
  <2>4. /\ pc'[r] = "saveAccess" /\ user'[r] = a.sub /\ a.sub \in Accounts
        /\ asr' = asr /\ cl' = cl /\ out' = out /\ logins' = logins
        /\ tokens' = tokens
    BY DEF TypeOK
  <2>5. PICK l \in logins : l.key = a.signer /\ SubOf[l.account] = a.sub
    BY DEF ReqInv, AuthzPath
  <2>6. l.account \in Accounts /\ l = Login(l.account, l.key)
    BY DEF TypeOK, Login
  <2>7. l.account = a.sub
    BY <2>4, <2>5, <2>6, SubAssumption
  <2>8. Confirmed(a) /\ Authorized(a, cl[r])
    BY DEF ReqInv, AuthzPath
  <2>9. Entitled(r)'
    BY <2>4, <2>5, <2>6, <2>7, <2>8 DEF Entitled, Confirmed, Authorized
  <2>10. /\ asr[r] \in AssertionSet /\ cl[r] \in Clients
         /\ out[r] = "none" /\ \A t \in tokens : t.req # r
    BY DEF ReqInv, Bundled, Issued
  <2>11. ReqInv(r)'
    BY <2>4, <2>9, <2>10 DEF ReqInv, AuthnPath, AuthzPath, Issued, Bundled
  <2> QED
    BY <2>1, <2>2, <2>3, <2>11, StepKeeps
<1> QED
  BY <1>1, <1>2

-----------------------------------------------------------------------------
(* grantAccessToken.  A request that reached it is entitled to what it     *)
(* saves, and nothing takes that from it.                                  *)
LEMMA TokenTyped ==
    ASSUME TypeOK, NEW r \in Requests, Entitled(r), cl[r] \in Clients,
           NEW kind \in {"access", "refresh"}
    PROVE  Token(kind, r) \in Tokens
BY DEF Token, Tokens, Entitled

LEMMA EntitledKept ==
    ASSUME NEW r \in Requests, Entitled(r), UNCHANGED <<asr, cl, user, logins>>
    PROVE  Entitled(r)'
BY DEF Entitled, Confirmed

(* Saving one more token: what is left to show is where the request goes.  *)
LEMMA SaveKeeps ==
    ASSUME IInv, NEW r \in Requests, pc[r] \in {"saveAccess", "saveRefresh", "respond"},
           NEW stage \in {"saveRefresh", "respond", "answered"},
           NEW o \in Answers,
           pc' = [pc EXCEPT ![r] = stage],
           out' = [out EXCEPT ![r] = o],
           NEW kind \in {"access", "refresh"},
           tokens' \in {tokens, tokens \cup {Token(kind, r)}},
           UNCHANGED <<now, clients, accounts, confKeys, asr, cl, cnf, user, seen, logins>>,
           Bundled(r)'
    PROVE  IInv'
<1> USE DEF IInv
<1>1. asr[r] \in AssertionSet /\ cl[r] \in Clients /\ Entitled(r) /\ Issued(r)
  BY DEF ReqInv
<1>2. Token(kind, r) \in Tokens
  BY <1>1, TokenTyped
<1>3. TypeOK'
  BY <1>2 DEF TypeOK, Stages
<1>4. Moves(r)
  BY DEF Moves, TypeOK, Token
<1>5. KeysProven'
  BY KeysKept
<1>6. pc'[r] = stage /\ Entitled(r)'
  BY <1>1, EntitledKept DEF TypeOK
<1>7. /\ Token(kind, r).req = r
      /\ Token(kind, r).account = user[r]
      /\ Token(kind, r).client = cl[r]
  BY DEF Token
<1>8. Issued(r)'
  BY <1>1, <1>6, <1>7 DEF Issued
<1>9. ReqInv(r)'
  BY <1>1, <1>6, <1>8 DEF ReqInv, AuthnPath, AuthzPath
<1> QED
  BY <1>3, <1>4, <1>5, <1>9, StepKeeps

(* Before the access token is saved the request has no token at all.       *)
LEMMA SaveAccessStep ==
    ASSUME IInv, NEW r \in Requests, SaveAccess(r) \/ SaveAccessFails(r)
    PROVE  IInv'
<1> DEFINE t0 == Token("access", r)
<1>1. /\ \A t \in tokens : t.req # r
      /\ out[r] = "none" /\ out[r] \in Answers
  BY DEF IInv, ReqInv, Issued, Bundled, SaveAccess, SaveAccessFails, TypeOK
<1>2. t0.req = r /\ t0.kind = "access"
  BY DEF Token
<1>3. CASE SaveAccess(r)
  <2> DEFINE stage == IF cl[r] \in Refreshing THEN "saveRefresh" ELSE "respond"
  <2> USE <1>3 DEF SaveAccess, Goto
  <2>1. /\ pc' = [pc EXCEPT ![r] = stage] /\ out' = [out EXCEPT ![r] = out[r]]
        /\ tokens' = tokens \cup {t0} /\ stage \in {"saveRefresh", "respond"}
    BY DEF IInv, TypeOK
  <2>2. pc'[r] = stage /\ out'[r] = out[r] /\ t0' = t0 /\ cl' = cl
    BY <2>1 DEF IInv, TypeOK, Token
  <2>3. Bundled(r)'
    BY <1>1, <1>2, <2>1, <2>2 DEF Bundled
  <2> HIDE DEF stage
  <2> QED
    BY <1>1, <2>1, <2>3, SaveKeeps
<1>4. CASE SaveAccessFails(r)
  <2> USE <1>4 DEF SaveAccessFails, Reject, Answer
  <2>1. pc'[r] = "answered" /\ out'[r] = "invalid_request"
    BY DEF IInv, TypeOK
  <2>2. Bundled(r)'
    BY <1>1, <1>2, <2>1 DEF Bundled
  <2> QED
    BY <2>2, SaveKeeps DEF Answers
<1> QED
  BY <1>3, <1>4

(* The refresh token joins the access token that is already there.         *)
LEMMA SaveRefreshStep ==
    ASSUME IInv, NEW r \in Requests, SaveRefresh(r) \/ SaveRefreshFails(r)
    PROVE  IInv'
<1> DEFINE t0 == Token("access", r)
           t1 == Token("refresh", r)
<1>1. /\ t0 \in tokens /\ cl[r] \in Refreshing /\ Bundled(r)
      /\ out[r] = "none" /\ out[r] \in Answers
  BY DEF IInv, ReqInv, Bundled, SaveRefresh, SaveRefreshFails, TypeOK
<1>2. t1.req = r /\ t1.client = cl[r]
  BY DEF Token
<1>3. UNCHANGED <<cl, user>> /\ t0' = t0 /\ t1' = t1
  BY DEF Token, SaveRefresh, SaveRefreshFails
<1>4. CASE SaveRefresh(r)
  <2> USE <1>4 DEF SaveRefresh, Goto
  <2>1. /\ pc'[r] = "respond" /\ out'[r] = out[r]
        /\ out' = [out EXCEPT ![r] = out[r]] /\ tokens' = tokens \cup {t1}
    BY DEF IInv, TypeOK
  <2>2. Bundled(r)'
    BY <1>1, <1>2, <1>3, <2>1 DEF Bundled
  <2> QED
    BY <1>1, <2>1, <2>2, SaveKeeps
<1>5. CASE SaveRefreshFails(r)
  <2> USE <1>5 DEF SaveRefreshFails, Fail, Answer
  <2>1. pc'[r] = "answered" /\ out'[r] = "server_error"
    BY DEF IInv, TypeOK
  <2>2. Bundled(r)'
    BY <1>1, <1>2, <1>3, <2>1 DEF Bundled
  <2> QED
    BY <2>2, SaveKeeps DEF Answers
<1> QED
  BY <1>4, <1>5

LEMMA RespondStep ==
    ASSUME IInv, NEW r \in Requests, Respond(r)
    PROVE  IInv'
<1> USE DEF Respond, Fail, Answer, sharedVars
<1>1. PICK o \in {"granted", "server_error"} : Answer(r, o)
  OBVIOUS
<1>2. pc'[r] = "answered" /\ out'[r] = o
  BY <1>1 DEF IInv, TypeOK
<1>3. Bundled(r) /\ UNCHANGED <<cl, user, tokens>>
  BY DEF IInv, ReqInv
<1>4. Bundled(r)'
  BY <1>2, <1>3 DEF Bundled, Token
<1> QED
  BY <1>1, <1>4, SaveKeeps DEF Answers

-----------------------------------------------------------------------------
(* Nothing the world does touches what the invariant speaks of.            *)
LEMMA QuietStep ==
    ASSUME IInv, TypeOK', UNCHANGED <<confKeys, tokens, pc, asr, cl, cnf, user, out, logins>>
    PROVE  IInv'
<1>1. KeysProven'
  BY KeysKept DEF IInv
<1>2. ASSUME NEW r \in Requests PROVE ReqInv(r)'
  <2>1. ReqInv(r)
    BY DEF IInv
  <2>2. AuthnPath(r)' /\ AuthzPath(r)'
    BY <2>1 DEF ReqInv, AuthnPath, AuthzPath, Confirmed, Proven, Authorized
  <2>3. Entitled(r) => Entitled(r)'
    BY EntitledKept
  <2>4. Issued(r)' /\ Bundled(r)'
    BY <2>1, <2>3 DEF ReqInv, Issued, Bundled, Token
  <2> QED
    BY <2>1, <2>2, <2>3, <2>4 DEF ReqInv
<1> QED
  BY <1>1, <1>2 DEF IInv

(* Requests that nobody answers any more keep what they issued.            *)
LEMMA LostStep ==
    ASSUME IInv, NEW R \in SUBSET Requests,
           \A r \in R : pc[r] \notin {"idle", "answered"},
           pc' = [r \in Requests |-> IF r \in R THEN "lost" ELSE pc[r]],
           UNCHANGED <<now, sharedVars, asr, cl, cnf, user, out, seen, logins>>
    PROVE  IInv'
<1> USE DEF IInv, sharedVars
<1>1. TypeOK'
  BY DEF TypeOK, Stages
<1>2. KeysProven'
  BY KeysKept
<1>3. ASSUME NEW r \in Requests PROVE ReqInv(r)'
  <2>1. ReqInv(r) /\ (pc'[r] = pc[r] \/ (pc'[r] = "lost" /\ out[r] = "none"
                                          /\ pc[r] # "idle"))
    BY DEF ReqInv, Bundled
  <2>2. Entitled(r) => Entitled(r)'
    BY EntitledKept
  <2>3. AuthnPath(r)' /\ AuthzPath(r)'
    BY <2>1 DEF ReqInv, AuthnPath, AuthzPath, Confirmed, Proven, Authorized
  <2>4. Issued(r)'
    BY <2>1, <2>2 DEF ReqInv, Issued
  <2>5. Bundled(r)'
    BY <2>1 DEF ReqInv, Bundled, Token
  <2> QED
    BY <2>1, <2>2, <2>3, <2>4, <2>5 DEF ReqInv
<1> QED
  BY <1>1, <1>2, <1>3

LEMMA Losing ==
    ASSUME IInv, ProcessEnds \/ \E r \in Requests : Hangs(r)
    PROVE  /\ \E R \in SUBSET Requests :
                 /\ \A r \in R : pc[r] \notin {"idle", "answered"}
                 /\ pc' = [r \in Requests |-> IF r \in R THEN "lost" ELSE pc[r]]
           /\ UNCHANGED <<now, sharedVars, asr, cl, cnf, user, out, seen, logins>>
<1>1. CASE ProcessEnds
  BY <1>1 DEF ProcessEnds, InFlight
<1>2. CASE \E r \in Requests : Hangs(r)
  <2>1. PICK r \in Requests : Hangs(r)
    BY <1>2
  <2>2. pc' = [q \in Requests |-> IF q \in {r} THEN "lost" ELSE pc[q]]
    BY <2>1 DEF Hangs, IInv, TypeOK
  <2>3. \A q \in {r} : pc[q] \notin {"idle", "answered"}
    BY <2>1 DEF Hangs
  <2>4. {r} \in SUBSET Requests
    BY <2>1
  <2>5. \E R \in SUBSET Requests :
          /\ \A q \in R : pc[q] \notin {"idle", "answered"}
          /\ pc' = [q \in Requests |-> IF q \in R THEN "lost" ELSE pc[q]]
    <3> WITNESS {r} \in SUBSET Requests
    <3> QED
      BY <2>2, <2>3
  <2>6. UNCHANGED <<now, sharedVars, asr, cl, cnf, user, out, seen, logins>>
    BY <2>1 DEF Hangs
  <2> QED
    BY <2>5, <2>6
<1> QED
  BY <1>1, <1>2

LEMMA LosingStep ==
    ASSUME IInv, ProcessEnds \/ \E r \in Requests : Hangs(r)
    PROVE  IInv'
BY Losing, LostStep

LEMMA InitIInv == Init => IInv
<1> SUFFICES ASSUME Init PROVE IInv
  OBVIOUS
<1> USE DEF Init
<1>1. TypeOK
  BY GrantAssumption DEF TypeOK, Stages, Answers
<1>2. KeysProven
  BY DEF KeysProven
<1>3. ASSUME NEW r \in Requests PROVE ReqInv(r)
  BY DEF ReqInv, AuthnPath, AuthzPath, Issued, Bundled
<1> QED
  BY <1>1, <1>2, <1>3 DEF IInv

LEMMA RequestStep ==
    ASSUME IInv, NEW r \in Requests, Step(r)
    PROVE  IInv'
<1>1. CASE Verify(r)
  BY <1>1, VerifyStep
<1>2. CASE FindClient(r)
  BY <1>2, FindClientStep
<1>3. CASE \E u \in Accounts : LoginAccepted(r, u)
  BY <1>3, LoginAcceptedStep
<1>4. CASE LoginRejected(r)
  BY <1>4, LoginRejectedStep
<1>5. CASE Register(r)
  BY <1>5, RegisterStep
<1>6. CASE RegisterFails(r)
  BY <1>6, RegisterFailsStep
<1>7. CASE FindConfKey(r)
  BY <1>7, FindConfKeyStep
<1>8. CASE FindIssuer(r)
  BY <1>8, FindIssuerStep
<1>9. CASE LoadSub(r)
  BY <1>9, LoadSubStep
<1>10. CASE SaveAccess(r) \/ SaveAccessFails(r)
  BY <1>10, SaveAccessStep
<1>11. CASE SaveRefresh(r) \/ SaveRefreshFails(r)
  BY <1>11, SaveRefreshStep
<1>12. CASE Respond(r)
  BY <1>12, RespondStep
<1> QED
  BY <1>1, <1>2, <1>3, <1>4, <1>5, <1>6, <1>7, <1>8, <1>9, <1>10, <1>11, <1>12
  DEF Step

LEMMA NextIInv == IInv /\ [Next]_vars => IInv'
<1> SUFFICES ASSUME IInv, [Next]_vars PROVE IInv'
  OBVIOUS
<1>1. CASE \E r \in Requests : \E a \in Assertions[r], c \in Clients : Receive(r, a, c)
  BY <1>1, ReceiveStep
<1>2. CASE \E r \in Requests : Step(r)
  BY <1>2, RequestStep
<1>3. CASE Environment
  <2>1. CASE \E c \in Clients : RemoveClient(c)
    BY <2>1, QuietStep DEF IInv, TypeOK, RemoveClient
  <2>2. CASE \E u \in Accounts : RemoveAccount(u)
    BY <2>2, QuietStep DEF IInv, TypeOK, RemoveAccount
  <2>3. CASE Tick
    BY <2>3, QuietStep DEF IInv, TypeOK, Tick, sharedVars
  <2> QED
    BY <1>3, <2>1, <2>2, <2>3 DEF Environment
<1>4. CASE ProcessEnds \/ \E r \in Requests : Hangs(r)
  BY <1>4, LosingStep
<1>5. CASE UNCHANGED vars
  BY <1>5, QuietStep DEF IInv, TypeOK, vars, sharedVars
<1> QED
  BY <1>1, <1>2, <1>3, <1>4, <1>5 DEF Next

-----------------------------------------------------------------------------
(* The refinement of TokenService.  What a received request asks for is    *)
(* fixed, and well formed.                                                 *)
AskedNow == [r \in Received |-> Asked(r)]

LEMMA AskedIs ==
    ASSUME NEW r \in Received
    PROVE  /\ AskedNow[r].client = cl[r]
           /\ AskedNow[r].key = Key(asr[r])
           /\ AskedNow[r].subjects = Subjects(asr[r])
           /\ AskedNow[r].passwords = Passwords(asr[r])
           /\ AskedNow[r].audience = Audience(asr[r])
<1>1. AskedNow[r] = Asked(r)
  BY DEF AskedNow
<1> QED
  BY <1>1 DEF Asked

LEMMA AskWellFormed ==
    ASSUME NEW a \in AssertionSet
    PROVE  /\ Key(a) \in Keys \cup {None}
           /\ Subjects(a) \in SUBSET Accounts
           /\ Passwords(a) \in SUBSET Accounts
           /\ Audience(a) \in SUBSET Clients
<1>1. Key(a) \in Keys \cup {None}
  BY DEF Key, AssertionSet
<1>2. Subjects(a) \in SUBSET Accounts
  BY GrantAssumption DEF Subjects, AssertionSet
<1> QED
  BY <1>1, <1>2 DEF Passwords, Audience

LEMMA AskedKept ==
    ASSUME NEW r \in Requests, pc[r] # "idle", pc'[r] # "idle",
           \A q \in Requests \ {r} : pc'[q] = pc[q], UNCHANGED <<asr, cl>>
    PROVE  AskedNow' = AskedNow
<1>1. Received' = Received
  BY DEF Received
<1>2. ASSUME NEW q \in Received PROVE Asked(q)' = Asked(q)
  BY DEF Asked, Key, Subjects, Passwords, Audience, Confirmed
<1> QED
  BY <1>1, <1>2 DEF AskedNow

(* A step that issues nothing goes on, or is a refusal.                    *)
LEMMA RefusalImplements ==
    ASSUME IInv, NEW r \in Requests, pc[r] \notin {"idle", "answered"},
           NEW stage \in Stages, stage # "idle",
           \/ pc' = [pc EXCEPT ![r] = stage] /\ UNCHANGED out
           \/ \E o \in Service!Refusals : Answer(r, o),
           UNCHANGED <<tokens, asr, cl, logins>>
    PROVE  [Service!Next]_Service!vars
<1>1. /\ pc'[r] # "idle" /\ \A q \in Requests \ {r} : pc'[q] = pc[q]
  BY DEF IInv, TypeOK, Answer
<1>2. AskedNow' = AskedNow
  BY <1>1, AskedKept
<1>3. r \in Received /\ out[r] = "none"
  BY DEF IInv, ReqInv, Bundled, Received
<1>4. Service!Open(r)
  BY <1>3 DEF Service!Open
<1>5. CASE UNCHANGED out
  BY <1>2, <1>5 DEF Service!vars, AskedNow
<1>6. CASE \E o \in Service!Refusals : Answer(r, o)
  <2>1. Service!Refuse(r)
    BY <1>2, <1>4, <1>6 DEF Service!Refuse, Service!Refuses, Answer, AskedNow
  <2> QED
    BY <2>1 DEF Service!Next
<1> QED
  BY <1>5, <1>6

LEMMA ReceiveImplements ==
    ASSUME IInv, NEW r \in Requests, NEW a \in Assertions[r], NEW c \in Clients,
           Receive(r, a, c)
    PROVE  Service!Next
<1> USE DEF Receive, sharedVars, Check, Goto, Reject, Answer
<1>1. /\ asr'[r] \in AssertionSet /\ cl'[r] \in Clients
      /\ pc'[r] # "idle"
      /\ \A q \in Requests \ {r} : /\ pc'[q] = pc[q] /\ asr'[q] = asr[q]
                                  /\ cl'[q] = cl[q]
  BY GrantAssumption DEF IInv, TypeOK
<1>2. /\ r \notin Received /\ Received' = Received \cup {r}
  BY <1>1 DEF Received
<1>3. Asked(r)' \in Service!Asks
  BY <1>1, AskWellFormed DEF Asked, Service!Asks
<1>4. ASSUME NEW q \in Received PROVE Asked(q)' = Asked(q)
  <2>1. asr'[q] = asr[q] /\ cl'[q] = cl[q]
    BY <1>1, <1>2, <1>4 DEF Received
  <2> QED
    BY <2>1 DEF Asked
<1>5. UNCHANGED out \/ Service!Refuses(r)
  BY DEF Service!Refuses, Service!Refusals
<1>6. Service!Ask(r)
  BY <1>2, <1>3, <1>4, <1>5 DEF Service!Ask
<1> QED
  BY <1>6 DEF Service!Next

LEMMA LoginImplements ==
    ASSUME IInv, NEW r \in Requests, NEW u \in Accounts, LoginAccepted(r, u)
    PROVE  Service!Next
<1> USE DEF LoginAccepted, Goto, sharedVars
<1>1. /\ ~Confirmed(asr[r]) /\ out[r] = "none" /\ r \in Received
      /\ asr[r].cnfJwk \in Keys
  BY DEF IInv, ReqInv, AuthnPath, Bundled, Received
<1>2. AskedNow' = AskedNow
  BY AskedKept DEF IInv, TypeOK
<1>3. /\ AskedNow[r].subjects = Subjects(asr[r])
      /\ AskedNow[r].passwords = Passwords(asr[r])
      /\ AskedNow[r].key = asr[r].cnfJwk
  BY <1>1, AskedIs DEF Key
<1>4. u \in AskedNow[r].subjects \cap AskedNow[r].passwords
  BY <1>1, <1>3 DEF Subjects, Passwords
<1>5. Service!Prove(r, u)
  BY <1>1, <1>2, <1>3, <1>4
  DEF Service!Prove, Service!Open, Service!Proof, Login, AskedNow
<1> QED
  BY <1>5 DEF Service!Next

(* What a request that saves its tokens is entitled to is what the service *)
(* lets it have.                                                           *)
LEMMA SavingAsks ==
    ASSUME IInv, NEW r \in Requests, pc[r] \in {"saveAccess", "saveRefresh", "respond"}
    PROVE  /\ Service!Open(r)
           /\ user[r] \in Accounts
           /\ \A kind \in {"access", "refresh"} :
                 Service!Token(kind, user[r], r) = Token(kind, r)
           /\ user[r] \in AskedNow[r].subjects
           /\ Service!Proof(user[r], AskedNow[r].key) \in logins
           /\ AskedNow[r].client = cl[r] /\ cl[r] \in AskedNow[r].audience
<1>1. /\ r \in Received /\ out[r] = "none"
      /\ Entitled(r) /\ cl[r] \in Clients
  BY DEF IInv, ReqInv, Bundled, Received
<1>2. Service!Open(r)
  BY <1>1 DEF Service!Open
<1>3. AskedNow[r].client = cl[r]
  BY <1>1, AskedIs
<1>4. \A kind \in {"access", "refresh"} :
         Service!Token(kind, user[r], r) = Token(kind, r)
  BY <1>3 DEF Service!Token, Token, AskedNow
<1>5. user[r] \in Subjects(asr[r]) /\ cl[r] \in Audience(asr[r])
  BY <1>1 DEF Entitled, Subjects, Audience
<1>6. Service!Proof(user[r], Key(asr[r])) \in logins
  <2>1. CASE Confirmed(asr[r])
    BY <1>1, <2>1 DEF Entitled, Key, Service!Proof, Login
  <2>2. CASE ~Confirmed(asr[r])
    <3>1. Login(user[r], asr[r].cnfJwk) \in logins
      BY <1>1, <2>2 DEF Entitled
    <3>2. asr[r].cnfJwk \in Keys
      BY <3>1 DEF IInv, TypeOK, Login
    <3> QED
      BY <2>2, <3>1, <3>2 DEF Key, Service!Proof, Login
  <2> QED
    BY <2>1, <2>2
<1> QED
  BY <1>1, <1>2, <1>3, <1>4, <1>5, <1>6, AskedIs DEF Entitled

LEMMA SaveAccessImplements ==
    ASSUME IInv, NEW r \in Requests, SaveAccess(r) \/ SaveAccessFails(r)
    PROVE  [Service!Next]_Service!vars
<1> USE DEF SaveAccess, SaveAccessFails, Goto, Reject, Answer
<1>1. /\ Service!Open(r) /\ user[r] \in Accounts
      /\ Service!Token("access", user[r], r) = Token("access", r)
      /\ user[r] \in AskedNow[r].subjects
      /\ Service!Proof(user[r], AskedNow[r].key) \in logins
      /\ AskedNow[r].client \in AskedNow[r].audience
  BY SavingAsks
<1>2. \A t \in tokens : t.req # r
  BY DEF IInv, ReqInv, Issued
<1>3. AskedNow' = AskedNow /\ logins' = logins
  BY AskedKept DEF IInv, TypeOK
<1>4. UNCHANGED out \/ Service!Refuses(r)
  BY DEF Service!Refuses, Service!Refusals
<1>5. CASE tokens' = tokens \cup {Token("access", r)}
  <2>1. Service!IssueAccess(r, user[r])
    BY <1>1, <1>2, <1>3, <1>4, <1>5 DEF Service!IssueAccess, AskedNow
  <2> QED
    BY <1>1, <2>1 DEF Service!Next
<1>6. CASE SaveAccessFails(r) /\ tokens' = tokens
  <2>1. \E o \in Service!Refusals : Answer(r, o)
    BY <1>6 DEF Service!Refusals
  <2> QED
    BY <1>6, <2>1, RefusalImplements DEF Stages
<1> QED
  BY <1>5, <1>6

LEMMA SaveRefreshImplements ==
    ASSUME IInv, NEW r \in Requests, SaveRefresh(r) \/ SaveRefreshFails(r)
    PROVE  [Service!Next]_Service!vars
<1> USE DEF SaveRefresh, SaveRefreshFails, Goto, Fail, Answer
<1>1. /\ Service!Open(r) /\ user[r] \in Accounts
      /\ Service!Token("access", user[r], r) = Token("access", r)
      /\ Service!Token("refresh", user[r], r) = Token("refresh", r)
      /\ AskedNow[r].client = cl[r]
  BY SavingAsks
<1>2. Token("access", r) \in tokens /\ cl[r] \in Refreshing
  BY DEF IInv, ReqInv, Bundled
<1>3. AskedNow' = AskedNow /\ logins' = logins
  BY AskedKept DEF IInv, TypeOK
<1>4. UNCHANGED out \/ Service!Refuses(r)
  BY DEF Service!Refuses, Service!Refusals
<1>5. CASE tokens' = tokens \cup {Token("refresh", r)}
  <2>1. Service!IssueRefresh(r, user[r])
    BY <1>1, <1>2, <1>3, <1>4, <1>5 DEF Service!IssueRefresh, AskedNow
  <2> QED
    BY <1>1, <2>1 DEF Service!Next
<1>6. CASE SaveRefreshFails(r) /\ tokens' = tokens
  <2>1. \E o \in Service!Refusals : Answer(r, o)
    BY <1>6 DEF Service!Refusals
  <2> QED
    BY <1>6, <2>1, RefusalImplements DEF Stages
<1> QED
  BY <1>5, <1>6

LEMMA RespondImplements ==
    ASSUME IInv, NEW r \in Requests, Respond(r)
    PROVE  [Service!Next]_Service!vars
<1> USE DEF Respond, Fail, sharedVars
<1>1. CASE Answer(r, "server_error")
  <2>1. \E o \in Service!Refusals : Answer(r, o)
    BY <1>1 DEF Service!Refusals
  <2> QED
    BY <2>1, RefusalImplements DEF Stages
<1>2. CASE Answer(r, "granted")
  <2>1. /\ Service!Open(r) /\ user[r] \in Accounts
        /\ Service!Token("access", user[r], r) = Token("access", r)
        /\ Service!Token("refresh", user[r], r) = Token("refresh", r)
        /\ AskedNow[r].client = cl[r]
    BY SavingAsks
  <2>2. /\ Token("access", r) \in tokens
        /\ cl[r] \in Refreshing => Token("refresh", r) \in tokens
    BY DEF IInv, ReqInv, Bundled
  <2>3. AskedNow' = AskedNow
    BY <1>2, AskedKept DEF IInv, TypeOK, Answer
  <2>4. Service!Grant(r, user[r])
    BY <1>2, <2>1, <2>2, <2>3 DEF Service!Grant, Answer, AskedNow
  <2> QED
    BY <2>1, <2>4 DEF Service!Next
<1> QED
  BY <1>1, <1>2

(* The steps that find out whether the request is in order.                *)
LEMMA CheckImplements ==
    ASSUME IInv, NEW r \in Requests,
           \/ Verify(r) \/ FindClient(r) \/ LoginRejected(r)
           \/ Register(r) \/ RegisterFails(r)
           \/ FindConfKey(r) \/ FindIssuer(r) \/ LoadSub(r)
    PROVE  [Service!Next]_Service!vars
<1> USE DEF Check, Goto, Reject, Fail, sharedVars
<1> DEFINE Goes == \E stage \in Stages \ {"idle"} :
                      pc' = [pc EXCEPT ![r] = stage] /\ UNCHANGED out
           Refused == \E o \in Service!Refusals : Answer(r, o)
<1>1. pc[r] \notin {"idle", "answered"} /\ UNCHANGED <<tokens, asr, cl, logins>>
  BY DEF Verify, FindClient, LoginRejected, Register, RegisterFails, FindConfKey,
         FindIssuer, LoadSub
<1>2. Goes \/ Refused
  <2>1. \A o \in {"invalid_request", "server_error"} : Answer(r, o) => Refused
    BY DEF Service!Refusals
  <2>2. \A stage \in {"confKey", "client", "login", "saveAccess", "issuer", "loadSub"} :
           pc' = [pc EXCEPT ![r] = stage] /\ UNCHANGED out => Goes
    BY DEF Stages
  <2> HIDE DEF Goes, Refused
  <2>3. CASE Verify(r) \/ FindClient(r) \/ LoginRejected(r)
    BY <2>1, <2>2, <2>3 DEF Verify, FindClient, LoginRejected
  <2>4. CASE Register(r) \/ RegisterFails(r) \/ FindConfKey(r)
    BY <2>1, <2>2, <2>4 DEF Register, RegisterFails, FindConfKey
  <2>5. CASE FindIssuer(r) \/ LoadSub(r)
    BY <2>1, <2>2, <2>5 DEF FindIssuer, LoadSub
  <2> QED
    BY <2>3, <2>4, <2>5
<1>3. CASE Goes
  BY <1>1, <1>3, RefusalImplements
<1>4. CASE Refused
  BY <1>1, <1>4, RefusalImplements DEF Stages
<1> QED
  BY <1>2, <1>3, <1>4

(* The world does not show in the service.                                 *)
LEMMA QuietImplements ==
    ASSUME UNCHANGED <<tokens, asr, cl, out, logins>>,
           \A r \in Requests : pc[r] = "idle" <=> pc'[r] = "idle"
    PROVE  UNCHANGED Service!vars
<1>1. Received' = Received
  BY DEF Received
<1>2. \A r \in Received : Asked(r)' = Asked(r)
  BY DEF Asked
<1> QED
  BY <1>1, <1>2 DEF Service!vars

LEMMA StepImplements == IInv /\ [Next]_vars => [Service!Next]_Service!vars
<1> SUFFICES ASSUME IInv, [Next]_vars PROVE [Service!Next]_Service!vars
  OBVIOUS
<1>1. CASE \E r \in Requests : \E a \in Assertions[r], c \in Clients : Receive(r, a, c)
  BY <1>1, ReceiveImplements
<1>2. ASSUME NEW r \in Requests, Step(r) PROVE [Service!Next]_Service!vars
  BY <1>2, CheckImplements, LoginImplements, SaveAccessImplements,
     SaveRefreshImplements, RespondImplements DEF Step
<1>3. CASE Environment
  BY <1>3, QuietImplements
  DEF Environment, RemoveClient, RemoveAccount, Tick, sharedVars
<1>4. CASE ProcessEnds \/ \E r \in Requests : Hangs(r)
  BY <1>4, Losing, QuietImplements DEF sharedVars
<1>5. CASE UNCHANGED vars
  BY <1>5, QuietImplements DEF vars, sharedVars
<1> QED
  BY <1>1, <1>2, <1>3, <1>4, <1>5 DEF Next

LEMMA InitImplements == Init => Service!Init
<1> SUFFICES ASSUME Init PROVE Service!Init
  OBVIOUS
<1>1. Received = {}
  BY DEF Init, Received
<1>2. [r \in Received |-> Asked(r)] = <<>>
  BY <1>1
<1> QED
  BY <1>2 DEF Init, Service!Init

(* The invariant holds in every reachable state.                           *)
THEOREM IInvHolds == Spec => []IInv
BY InitIInv, NextIInv, PTL DEF Spec

(* Every variable keeps its type, whatever the instance.                   *)
THEOREM TypeCorrect == Spec => []TypeOK
<1>1. IInv => TypeOK
  BY DEF IInv
<1> QED
  BY <1>1, IInvHolds, PTL

(* Confirmation records stem from password logins (authenticate.js 61-71). *)
THEOREM KeysProvenHolds == Spec => []KeysProven
<1>1. IInv => KeysProven
  BY DEF IInv
<1> QED
  BY <1>1, IInvHolds, PTL

(* A token's account proved itself, by its password in this request or by  *)
(* the key it registered with its password, under any interleaving of any  *)
(* number of requests that overwrite each other's confirmation keys.       *)
THEOREM SubjectProvenHolds == Spec => []SubjectProven
<1>1. IInv => SubjectProven
  <2> SUFFICES ASSUME IInv, NEW t \in tokens
               PROVE  IF Confirmed(asr[t.req])
                      THEN Login(t.account, asr[t.req].signer) \in logins
                      ELSE /\ Login(t.account, asr[t.req].cnfJwk) \in logins
                           /\ t.account \in ByLogin[asr[t.req].sub]
    BY DEF SubjectProven
  <2>1. t.req \in Requests
    BY DEF IInv, TypeOK, Tokens
  <2>2. t.account = user[t.req] /\ Entitled(t.req)
    BY <2>1 DEF IInv, ReqInv, Issued
  <2> QED
    BY <2>2 DEF Entitled
<1> QED
  BY <1>1, IInvHolds, PTL

(* The two middlewares that look at who may relay an assertion leave no    *)
(* gap between them (verifyJWT.js 69-82, authorize.js 21-36).              *)
THEOREM RelayAuthorizedHolds == Spec => []RelayAuthorized
<1>1. IInv => RelayAuthorized
  <2> SUFFICES ASSUME IInv, NEW t \in tokens
               PROVE  \/ t.client = asr[t.req].iss
                      \/ /\ Confirmed(asr[t.req])
                         /\ asr[t.req].azp \in RedirectUris[t.client]
    BY DEF RelayAuthorized
  <2>1. t.req \in Requests
    BY DEF IInv, TypeOK, Tokens
  <2>2. t.client = cl[t.req] /\ Entitled(t.req)
    BY <2>1 DEF IInv, ReqInv, Issued
  <2> QED
    BY <2>2 DEF Entitled
<1> QED
  BY <1>1, IInvHolds, PTL

(* A refresh token stands beside its access token, and a granted request   *)
(* has all its tokens (grantAccessToken.js 40-95).                         *)
THEOREM TokenBundleHolds == Spec => []TokenBundle
<1>1. IInv => TokenBundle
  <2> SUFFICES ASSUME IInv PROVE TokenBundle
    OBVIOUS
  <2>1. ASSUME NEW t \in tokens, t.kind = "refresh"
        PROVE  [t EXCEPT !.kind = "access"] \in tokens /\ t.client \in Refreshing
    <3>1. t \in Tokens /\ t.req \in Requests
      BY DEF IInv, TypeOK, Tokens
    <3>2. /\ t.account = user[t.req] /\ t.client = cl[t.req]
          /\ Token("access", t.req) \in tokens /\ t.client \in Refreshing
      BY <2>1, <3>1 DEF IInv, ReqInv, Issued, Bundled
    <3>3. [t EXCEPT !.kind = "access"] = Token("access", t.req)
      BY <3>1, <3>2 DEF Token, Tokens
    <3> QED
      BY <3>2, <3>3
  <2>2. ASSUME NEW r \in Requests, out[r] = "granted"
        PROVE  /\ Token("access", r) \in tokens
               /\ cl[r] \in Refreshing => Token("refresh", r) \in tokens
    BY <2>2 DEF IInv, ReqInv, Bundled
  <2> QED
    BY <2>1, <2>2 DEF TokenBundle
<1> QED
  BY <1>1, IInvHolds, PTL

-----------------------------------------------------------------------------
(* The timestamp checks, and the requests that have passed them.           *)
Dates(a) == a.iat \in Int /\ a.nbf \in Int /\ a.exp \in Int
Undated == {"idle", "verify", "answered", "lost"}
Dated(r) == pc[r] \notin Undated \/ (\E t \in tokens : t.req = r)
            => Timely(seen[r], asr[r])
AllDated == \A r \in Requests : Dated(r)

(* The moments at which an assertion passes have no gaps: one that passed  *)
(* and is refused later is refused for ever (verifyJWT.js 84-144).         *)
THEOREM TimelyWithoutGaps ==
    ASSUME NEW a, Dates(a), NEW first \in Int, NEW last \in Int, NEW n \in first..last,
           Timely(first, a), Timely(last, a)
    PROVE  Timely(n, a)
<1>1. first <= n /\ n <= last /\ n \in Int
  OBVIOUS
<1>2. IatOk(n, a.iat, a.exp)
  BY <1>1, MaxAgeAssumption DEF Timely, IatOk, Old, Dates, Absent
<1>3. NbfOk(n, a.nbf, a.exp)
  BY <1>1, MaxAgeAssumption DEF Timely, NbfOk, Old, Dates, Absent
<1>4. ExpOk(n, a.exp)
  BY <1>1 DEF Timely, ExpOk, Dates, Absent
<1> QED BY <1>2, <1>3, <1>4 DEF Timely

(* An assertion that passed once ceases to pass if and only if it has an   *)
(* exp or an iat: nbf alone never ages (verifyJWT.js 106, 126, 133-144).   *)
THEOREM OnlyDatedExpire ==
    ASSUME NEW a, Dates(a), NEW first \in Int, Timely(first, a)
    PROVE  (\E last \in Int : \A n \in Int : Timely(n, a) => n <= last)
           <=> a.exp # Absent \/ a.iat # Absent
<1>1. ASSUME a.exp # Absent
      PROVE  \A n \in Int : Timely(n, a) => n <= a.exp
  BY <1>1 DEF Timely, ExpOk, Dates
<1>2. ASSUME a.exp = Absent, a.iat # Absent
      PROVE  \A n \in Int : Timely(n, a) => n <= a.iat + MaxAge
  BY <1>2, MaxAgeAssumption DEF Timely, IatOk, Old, Dates
<1>3. a.iat + MaxAge \in Int /\ a.exp \in Int
  BY MaxAgeAssumption DEF Dates
<1>4. ASSUME a.exp = Absent, a.iat = Absent, NEW last \in Int
      PROVE  \E n \in Int : Timely(n, a) /\ ~(n <= last)
  <2> DEFINE n == IF first <= last THEN last + 1 ELSE first
  <2>1. n \in Int /\ first <= n /\ ~(n <= last)
    OBVIOUS
  <2> HIDE DEF n
  <2>2. NbfOk(n, a.nbf, a.exp)
    BY <1>4, <2>1, MaxAgeAssumption DEF Timely, NbfOk, Old, Dates, Absent
  <2>3. Timely(n, a)
    BY <1>4, <2>2 DEF Timely, IatOk, ExpOk
  <2> QED BY <2>1, <2>3
<1> QED BY <1>1, <1>2, <1>3, <1>4

(* A request past verify keeps the clock and the assertion it was checked  *)
(* with.                                                                   *)
LEMMA DatedKept ==
    ASSUME NEW r \in Requests, Dated(r), seen'[r] = seen[r], asr'[r] = asr[r],
           pc'[r] \notin Undated =>
              pc[r] \notin Undated,
           \A t \in tokens' : t.req = r =>
              t \in tokens \/ pc[r] \notin Undated
    PROVE  Dated(r)'
BY DEF Dated

LEMMA ReceiveDated ==
    ASSUME IInv, AllDated, NEW r \in Requests, NEW a \in Assertions[r],
           NEW c \in Clients, Receive(r, a, c)
    PROVE  AllDated'
<1> USE DEF Receive, Check, Goto, Reject, Answer, sharedVars
<1>1. /\ pc'[r] \in {"verify", "answered"}
      /\ \A q \in Requests \ {r} : /\ pc'[q] = pc[q] /\ asr'[q] = asr[q]
                                    /\ seen'[q] = seen[q]
      /\ tokens' = tokens
  BY DEF IInv, TypeOK
<1>2. \A t \in tokens : t.req # r
  BY DEF IInv, ReqInv, Issued
<1>3. Dated(r)'
  BY <1>1, <1>2 DEF Dated, Undated
<1>4. ASSUME NEW q \in Requests \ {r} PROVE Dated(q)'
  BY <1>1, DatedKept DEF AllDated
<1> QED BY <1>3, <1>4 DEF AllDated

LEMMA VerifyDated ==
    ASSUME IInv, AllDated, NEW r \in Requests, Verify(r)
    PROVE  AllDated'
<1> USE DEF Verify, Check, Goto, Reject, Fail, Answer, sharedVars
<1>1. /\ pc'[r] = "answered" \/ Timely(now, asr[r])
      /\ asr' = asr /\ seen'[r] = now /\ tokens' = tokens
      /\ \A q \in Requests \ {r} : pc'[q] = pc[q] /\ seen'[q] = seen[q]
  BY DEF IInv, TypeOK
<1>2. \A t \in tokens : t.req # r
  BY DEF IInv, ReqInv, Issued
<1>3. Dated(r)'
  BY <1>1, <1>2 DEF Dated, Undated
<1>4. ASSUME NEW q \in Requests \ {r} PROVE Dated(q)'
  BY <1>1, DatedKept DEF AllDated
<1> QED BY <1>3, <1>4 DEF AllDated

(* Every other step of a request comes after verify.                       *)
LEMMA LaterDated ==
    ASSUME IInv, AllDated, NEW r \in Requests, Step(r), ~Verify(r)
    PROVE  AllDated'
<1> USE DEF Check, Goto, Reject, Fail, Answer, sharedVars
<1>1. pc[r] \notin Undated /\ UNCHANGED <<asr, seen>>
  BY DEF Undated, Step, FindClient, LoginAccepted, LoginRejected, Register, RegisterFails,
     FindConfKey, FindIssuer, LoadSub, SaveAccess, SaveAccessFails, SaveRefresh,
     SaveRefreshFails, Respond
<1>2. \E stage \in Stages : pc' = [pc EXCEPT ![r] = stage]
  BY DEF Step, Stages, FindClient, LoginAccepted, LoginRejected, Register,
     RegisterFails, FindConfKey, FindIssuer, LoadSub, SaveAccess, SaveAccessFails,
     SaveRefresh, SaveRefreshFails, Respond
<1>3. \A t \in tokens' : t \in tokens \/ t.req = r
  BY DEF Step, Token, FindClient, LoginAccepted, LoginRejected, Register,
     RegisterFails, FindConfKey, FindIssuer, LoadSub, SaveAccess, SaveAccessFails,
     SaveRefresh, SaveRefreshFails, Respond
<1>4. ASSUME NEW q \in Requests PROVE Dated(q)'
  BY <1>1, <1>2, <1>3, DatedKept DEF AllDated, IInv, TypeOK
<1> QED BY <1>4 DEF AllDated

LEMMA NextDated == IInv /\ AllDated /\ [Next]_vars => AllDated'
<1> SUFFICES ASSUME IInv, AllDated, [Next]_vars PROVE AllDated'
  OBVIOUS
<1>1. CASE \E r \in Requests : \E a \in Assertions[r], c \in Clients : Receive(r, a, c)
  BY <1>1, ReceiveDated
<1>2. CASE \E r \in Requests : Step(r)
  BY <1>2, VerifyDated, LaterDated
<1>3. CASE Environment \/ UNCHANGED vars
  <2>1. UNCHANGED <<tokens, pc, asr, seen>>
    BY <1>3 DEF Environment, RemoveClient, RemoveAccount, Tick, vars, sharedVars
  <2> QED BY <2>1 DEF AllDated, Dated
<1>4. CASE ProcessEnds \/ \E r \in Requests : Hangs(r)
  <2>1. /\ UNCHANGED <<tokens, asr, seen>>
        /\ \A r \in Requests : pc'[r] = pc[r] \/ pc'[r] = "lost"
    BY <1>4, Losing DEF sharedVars
  <2> QED BY <2>1 DEF AllDated, Dated, Undated
<1> QED BY <1>1, <1>2, <1>3, <1>4 DEF Next

(* Every token, also of a request that failed afterwards, goes back to an  *)
(* assertion whose dates were in order when its request was verified.      *)
THEOREM TokensTimely == Spec => [](\A t \in tokens : Timely(seen[t.req], asr[t.req]))
<1>1. Init => AllDated
  BY DEF Init, AllDated, Dated, Undated
<1>2. IInv /\ AllDated => \A t \in tokens : Timely(seen[t.req], asr[t.req])
  BY DEF IInv, TypeOK, Tokens, AllDated, Dated
<1> QED BY <1>1, <1>2, NextDated, IInvHolds, PTL DEF Spec

-----------------------------------------------------------------------------
(* The pipeline implements the service: what its checks establish over the *)
(* awaits of many requests amounts to one decision for each token, made on *)
(* what the service knows of the request at that moment.                   *)
THEOREM GrantImplementsService == Spec => ImplementsService
BY InitImplements, StepImplements, IInvHolds, PTL
   DEF Spec, ImplementsService, Service!Spec
=============================================================================
