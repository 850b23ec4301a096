--------------------------- MODULE AssertionGrant ---------------------------
(***************************************************************************)
(* The JWT assertion grant of provider/actions/assertion_jwt_token.js: the *)
(* pipeline of middlewares through which every token request with grant    *)
(* type jwt-bearer passes.                                                 *)
(*                                                                         *)
(* A trust agent (TA) first authenticates its user: the assertion is       *)
(* signed with the TA client's key, carries the user's password and a      *)
(* device key in cnf.jwk, and the key is kept as a confirmation key        *)
(* (the "authn" path).  Later assertions signed with the confirmation key  *)
(* and naming its kid in cnf.kid authorise other clients (the "authz"      *)
(* path).                                                                  *)
(*                                                                         *)
(* A step of a request runs from one await on shared state to the next;    *)
(* awaits on pure computations (decoding, decrypting, verifying a          *)
(* signature) are part of the step that reads what they work on.           *)
(***************************************************************************)
EXTENDS JwtTime

CONSTANTS
    Requests,      \* token requests; ctx.oidc.uuid is one of these
    Clients,       \* client ids
    Parties,       \* what iss and azp can name: clients, TA instances, URIs
    Keys,          \* key pairs
    Kids,          \* key ids
    Accounts,      \* account ids
    Names,         \* what sub can hold: account ids, logins, mapped subs
    KidOf,         \* the kid member of a JWK, None when it has none
    ClientKeys,    \* the jwks of each registered client, of distinct kids
    RedirectUris,  \* the redirect URIs of each client: always an array
    Refreshing,    \* clients whose grantTypes include refresh_token
    ByLogin,       \* the accounts that each name, taken for a login, selects
    SubOf,         \* the sub claim mapping/user.js gives each account
    Assertions,    \* the assertions that each request may carry
    MaxNow,        \* bound of the clock
    None, Null, NotString, Wrong, NoRec

(* "nothing": the JSON text null, which has no payload to look into;       *)
(* "nullCnf": a cnf claim that is null.                                    *)
Defects == {"none", "params", "scope", "cipher", "encoding", "nothing", "claims",
            "nullCnf"}

(* hkid and signer: the header's kid and the key that really signed;       *)
(* cnfKid, cnfJwk: members of the cnf claim; crd: the x_crd claim, the     *)
(* account whose password it is; defect: the first malformation a request  *)
(* shows to the checks that only look at its form.                         *)
AssertionSet ==
    [hkid : Kids, signer : Keys, iss : Parties, azp : Parties \cup {None},
     sub : Names, cnfKid : Kids \cup {None}, cnfJwk : Keys \cup {None, Null},
     crd : Accounts \cup {None, NotString, Wrong}, defect : Defects,
     iat : Int, nbf : Int, exp : Int]

ConfRecords == [azp : Parties \cup {None}, key : Keys, iss : Parties, sub : Names]

ASSUME GrantAssumption ==
    /\ Clients \subseteq Parties
    /\ Accounts \subseteq Names
    /\ KidOf \in [Keys -> Kids \cup {None}]
    /\ ClientKeys \in [Clients -> SUBSET Keys]
    /\ RedirectUris \in [Clients -> SUBSET Parties]
    /\ Refreshing \subseteq Clients
    /\ ByLogin \in [Names -> SUBSET Accounts]
    /\ SubOf \in [Accounts -> Names]
    /\ Assertions \in [Requests -> SUBSET AssertionSet]
    /\ MaxNow \in Nat
    /\ {None, Null} \cap (Parties \cup Keys \cup Kids \cup Accounts) = {}
    /\ None # Null
    /\ {NotString, Wrong} \cap (Accounts \cup {None}) = {}
    /\ NoRec \notin ConfRecords

(* No mapping gives one account the id of another one as its sub.          *)
ASSUME SubAssumption == \A a \in Accounts : SubOf[a] \in Accounts => SubOf[a] = a

VARIABLES now,       \* the clock
          clients,   \* the registered clients
          accounts,  \* the accounts in the directory
          confKeys,  \* the ConfirmationKeys records, by kid
          tokens,    \* the access and refresh tokens in the store
          pc,        \* where each request is suspended
          asr,       \* its assertion
          cl,        \* the authenticated client, ctx.oidc.client
          cnf,       \* the confirmation record it read
          user,      \* ctx.oidc.assertion_grant.sub
          out,       \* its answer
          seen,      \* history: the clock when its timestamps were checked
          logins     \* history: accounts that logged in, with the device key

sharedVars == <<clients, accounts, confKeys, tokens>>
vars == <<now, sharedVars, pc, asr, cl, cnf, user, out, seen, logins>>

(* "lost": nobody answers the request any more.                            *)
Stages == {"idle", "verify", "client", "login", "register", "confKey", "issuer",
           "loadSub", "saveAccess", "saveRefresh", "respond", "answered", "lost"}
Answers == {"none", "granted", "invalid_request", "server_error"}
Tokens == [kind : {"access", "refresh"}, account : Accounts, client : Clients,
           req : Requests]
Login(a, k) == [account |-> a, key |-> k]

TypeOK == /\ now \in Nat
          /\ clients \subseteq Clients
          /\ accounts \subseteq Accounts
          /\ confKeys \in [Kids -> ConfRecords \cup {NoRec}]
          /\ tokens \subseteq Tokens
          /\ pc \in [Requests -> Stages]
          /\ asr \in [Requests -> AssertionSet \cup {NoRec}]
          /\ cl \in [Requests -> Clients \cup {None}]
          /\ cnf \in [Requests -> ConfRecords \cup {NoRec}]
          /\ user \in [Requests -> Accounts \cup {None}]
          /\ out \in [Requests -> Answers]
          /\ seen \in [Requests -> Nat]
          /\ logins \subseteq [account : Accounts, key : Keys]

Init == /\ now = 1
        /\ clients = Clients
        /\ accounts = Accounts
        /\ confKeys = [k \in Kids |-> NoRec]
        /\ tokens = {}
        /\ pc = [r \in Requests |-> "idle"]
        /\ asr = [r \in Requests |-> NoRec]
        /\ cl = [r \in Requests |-> None]
        /\ cnf = [r \in Requests |-> NoRec]
        /\ user = [r \in Requests |-> None]
        /\ out = [r \in Requests |-> "none"]
        /\ seen = [r \in Requests |-> 0]
        /\ logins = {}

Goto(r, stage) == pc' = [pc EXCEPT ![r] = stage] /\ UNCHANGED out

(* ctx.throw(InvalidRequestError), any other exception, the final body.    *)
Answer(r, answer) == /\ pc' = [pc EXCEPT ![r] = "answered"]
                     /\ out' = [out EXCEPT ![r] = answer]
Reject(r) == Answer(r, "invalid_request")
Fail(r) == Answer(r, "server_error")

(* The step goes on to stage if ok holds and is refused otherwise.         *)
Check(r, ok, stage) == \/ ok /\ Goto(r, stage)
                       \/ ~ok /\ Reject(r)

-----------------------------------------------------------------------------
(* A request of an authenticated client comes in: parameterCheck,          *)
(* scopeValidation.                                                        *)
Receive(r, a, c) ==
    /\ pc[r] = "idle"
    /\ c \in clients
    /\ asr' = [asr EXCEPT ![r] = a]
    /\ cl' = [cl EXCEPT ![r] = c]
    /\ Check(r, a.defect \notin {"params", "scope"}, "verify")
    /\ UNCHANGED <<now, sharedVars, cnf, user, seen, logins>>

(* Only an assertion that names its own signing key in cnf.kid, and holds  *)
(* no key, may be relayed by a client other than its issuer.               *)
Relayable(a, c) == \/ a.iss = c
                   \/ a.cnfKid # None /\ a.cnfJwk = None /\ a.cnfKid = a.hkid

(* validateJWT: which of the two paths an assertion takes.                 *)
Confirmed(a) == a.cnfKid # None /\ a.cnfKid = a.hkid

(* The members of a null cnf are read, a TypeError: by verifyJWT if the    *)
(* assertion is relayed, else by validateJWT, once the dates are in order. *)
BreaksOnCnf(a, c) == a.defect = "nullCnf" /\ (a.iss = c => Timely(now, a))

(* decryptAssertion and verifyJWT.                                         *)
Verify(r) ==
    LET a == asr[r]
        breaks == a.defect = "nothing" \/ BreaksOnCnf(a, cl[r]) IN
    /\ pc[r] = "verify"
    /\ \/ breaks /\ Fail(r)
       \/ /\ ~breaks
          /\ Check(r, /\ a.defect = "none"
                      /\ Relayable(a, cl[r])
                      /\ Timely(now, a),
                   IF Confirmed(a) THEN "confKey" ELSE "client")
    /\ seen' = [seen EXCEPT ![r] = now]
    /\ UNCHANGED <<now, sharedVars, asr, cl, cnf, user, logins>>

-----------------------------------------------------------------------------
(* validateAuthn: the issuing client exists and one of its keys, chosen by *)
(* the header's kid, signed the assertion.                                 *)
SignedByClient(a) == /\ a.iss \in clients
                     /\ a.signer \in ClientKeys[a.iss]
                     /\ KidOf[a.signer] = a.hkid

(* authenticate, up to the login: a device key with a kid, and x_crd a     *)
(* string if present.  The kid of a null key is a TypeError.               *)
HoldsDeviceKey(a) == /\ a.cnfJwk \in Keys
                     /\ KidOf[a.cnfJwk] # None
                     /\ a.crd # NotString

(* Three ways to a server error: the lookup of the client is rejected; the *)
(* key is null; without x_crd nobody is logged in, and reading the user's  *)
(* claims throws a TypeError.                                              *)
FindClient(r) ==
    LET a == asr[r]
        ok == SignedByClient(a) /\ HoldsDeviceKey(a) IN
    /\ pc[r] = "client"
    /\ \/ ok /\ a.crd # None /\ Goto(r, "login")
       \/ ~ok /\ (SignedByClient(a) => a.cnfJwk # Null) /\ Reject(r)
       \/ Fail(r)
    /\ UNCHANGED <<now, sharedVars, asr, cl, cnf, user, seen, logins>>

(* accountByLogin: find an entry that the name selects and bind as it,     *)
(* then the account by its id.                                             *)
LoginAccepted(r, u) ==
    /\ pc[r] = "login"
    /\ u \in accounts
    /\ u \in ByLogin[asr[r].sub]
    /\ asr[r].crd = u
    /\ user' = [user EXCEPT ![r] = u]
    /\ logins' = logins \cup {Login(u, asr[r].cnfJwk)}
    /\ Goto(r, "register")
    /\ UNCHANGED <<now, sharedVars, asr, cl, cnf, seen>>

(* No such account, a wrong password, or a directory that refuses: every   *)
(* exception is caught.                                                    *)
LoginRetried(r) ==  \* mutant: a refused login is tried again, and again
    /\ pc[r] = "login"
    /\ UNCHANGED vars

LoginRejected(r) ==
    /\ pc[r] = "login"
    /\ Reject(r)
    /\ UNCHANGED <<now, sharedVars, asr, cl, cnf, user, seen, logins>>

(* The session information kept under the device key's kid.                *)
ConfRecordOfLogin(a, u) ==  \* mutant: keeps the login, not the user's sub
    [azp |-> a.azp, key |-> a.cnfJwk, iss |-> a.iss, sub |-> a.sub]

ConfRecord(a, u) == [azp |-> a.azp, key |-> a.cnfJwk, iss |-> a.iss,
                     sub |-> SubOf[u]]

Stores(r) == LET a == asr[r] IN
    confKeys' = [confKeys EXCEPT ![KidOf[a.cnfJwk]] = ConfRecord(a, user[r])]

(* ConfirmationKeys.upsert: an older record of the same kid is overwritten,*)
(* and none ever expires.  authorize and loadSub have nothing to do then.  *)
Register(r) ==
    /\ pc[r] = "register"
    /\ Stores(r)
    /\ Goto(r, "saveAccess")
    /\ UNCHANGED <<now, clients, accounts, tokens, asr, cl, cnf, user, seen, logins>>

(* The store answers with an error, whether or not it executed the command.*)
RegisterFails(r) ==
    /\ pc[r] = "register"
    /\ Stores(r) \/ UNCHANGED confKeys
    /\ Fail(r)
    /\ UNCHANGED <<now, clients, accounts, tokens, asr, cl, cnf, user, seen, logins>>

-----------------------------------------------------------------------------
(* validateAuthz: the confirmation key is registered for the issuer.  A    *)
(* missing one has no azp.  A rejected lookup, here and of the issuer, is  *)
(* caught nowhere: a server error.                                         *)
KnownKey(a, rec) == rec # NoRec /\ rec.azp # None /\ rec.azp = a.iss

FindConfKey(r) ==
    LET a == asr[r]  rec == confKeys[a.cnfKid] IN
    /\ pc[r] = "confKey"
    /\ \/ /\ cnf' = [cnf EXCEPT ![r] = rec]
          /\ Check(r, KnownKey(a, rec), "issuer")
       \/ Fail(r) /\ UNCHANGED cnf
    /\ UNCHANGED <<now, sharedVars, asr, cl, user, seen, logins>>

(* The confirmation key signed the assertion, for the sub it was           *)
(* registered with.                                                        *)
ConfirmsAnySub(a, rec) == a.signer = rec.key  \* mutant: sub not compared

Confirms(a, rec) == a.signer = rec.key /\ a.sub = rec.sub

(* authorize: the requesting client is the issuer, or the authorised party *)
(* is one of its redirect URIs.                                            *)
AuthorizedAlways(a, c) == TRUE  \* mutant: authorize is not in the pipeline

Authorized(a, c) == c = a.iss \/ a.azp \in RedirectUris[c]

(* The rest of validateAuthz, after the client that registered the key was *)
(* looked up, and authorize.                                               *)
FindIssuer(r) ==
    LET a == asr[r] IN
    /\ pc[r] = "issuer"
    /\ \/ Check(r, /\ cnf[r].iss \in clients
                   /\ Confirms(a, cnf[r])
                   /\ Authorized(a, cl[r]),
                "loadSub")
       \/ Fail(r)
    /\ UNCHANGED <<now, sharedVars, asr, cl, cnf, user, seen, logins>>

(* loadSub: the account whose ID is the assertion's sub; accountById       *)
(* throws when there is none.                                              *)
LoadSub(r) ==
    /\ pc[r] = "loadSub"
    /\ \/ /\ asr[r].sub \in accounts
          /\ user' = [user EXCEPT ![r] = asr[r].sub]
          /\ Goto(r, "saveAccess")
       \/ /\ Fail(r)
          /\ UNCHANGED user
    /\ UNCHANGED <<now, sharedVars, asr, cl, cnf, seen, logins>>

-----------------------------------------------------------------------------
(* grantAccessToken.                                                       *)
TokenOfAssertion(kind, r) ==  \* mutant: names the assertion's own sub
    [kind |-> kind, account |-> asr[r].sub, client |-> cl[r], req |-> r]

Token(kind, r) == [kind |-> kind, account |-> user[r], client |-> cl[r], req |-> r]

SaveAccess(r) ==
    /\ pc[r] = "saveAccess"
    /\ tokens' = tokens \cup {Token("access", r)}
    /\ Goto(r, IF cl[r] \in Refreshing THEN "saveRefresh" ELSE "respond")
    /\ UNCHANGED <<now, clients, accounts, confKeys, asr, cl, cnf, user, seen, logins>>

(* An error of the store is answered with invalid_request; the token may   *)
(* have been stored all the same.                                          *)
SaveAccessFailsUnnoticed(r) ==  \* mutant: the catch only logs
    /\ pc[r] = "saveAccess"
    /\ Goto(r, IF cl[r] \in Refreshing THEN "saveRefresh" ELSE "respond")
    /\ UNCHANGED <<now, sharedVars, asr, cl, cnf, user, seen, logins>>

SaveAccessFails(r) ==
    /\ pc[r] = "saveAccess"
    /\ tokens' \in {tokens, tokens \cup {Token("access", r)}}
    /\ Reject(r)
    /\ UNCHANGED <<now, clients, accounts, confKeys, asr, cl, cnf, user, seen, logins>>

SaveRefresh(r) ==
    /\ pc[r] = "saveRefresh"
    /\ tokens' = tokens \cup {Token("refresh", r)}
    /\ Goto(r, "respond")
    /\ UNCHANGED <<now, clients, accounts, confKeys, asr, cl, cnf, user, seen, logins>>

(* Here nothing is caught, and the access token stays behind.              *)
SaveRefreshFails(r) ==
    /\ pc[r] = "saveRefresh"
    /\ tokens' \in {tokens, tokens \cup {Token("refresh", r)}}
    /\ Fail(r)
    /\ UNCHANGED <<now, clients, accounts, confKeys, asr, cl, cnf, user, seen, logins>>

(* The ID token is signed last; if that fails the tokens stay behind.      *)
Respond(r) ==
    /\ pc[r] = "respond"
    /\ Answer(r, "granted") \/ Fail(r)
    /\ UNCHANGED <<now, sharedVars, asr, cl, cnf, user, seen, logins>>

-----------------------------------------------------------------------------
(* The directory never answers: its adapter is wedged, or its connection   *)
(* closed or silent (LdapConnection).  Clients and accounts are read there.*)
Hangs(r) ==
    /\ pc[r] \in {"client", "login", "issuer", "loadSub"}
    /\ pc' = [pc EXCEPT ![r] = "lost"]
    /\ UNCHANGED <<now, sharedVars, asr, cl, cnf, user, out, seen, logins>>

(* The process ends, for instance with an error event of the directory;    *)
(* what the store holds is kept, as Redis keeps it.                        *)
InFlight == {r \in Requests : pc[r] \notin {"idle", "answered", "lost"}}

ProcessEnds ==
    /\ InFlight # {}
    /\ pc' = [r \in Requests |-> IF r \in InFlight THEN "lost" ELSE pc[r]]
    /\ UNCHANGED <<now, sharedVars, asr, cl, cnf, user, out, seen, logins>>

(* The world around the requests: clients and accounts leave the           *)
(* directory, time passes.                                                 *)
RemoveClient(c) ==
    /\ c \in clients
    /\ clients' = clients \ {c}
    /\ UNCHANGED <<now, accounts, confKeys, tokens, pc, asr, cl, cnf, user, out,
                   seen, logins>>

RemoveAccount(u) ==
    /\ u \in accounts
    /\ accounts' = accounts \ {u}
    /\ UNCHANGED <<now, clients, confKeys, tokens, pc, asr, cl, cnf, user, out,
                   seen, logins>>

Tick == /\ now < MaxNow
        /\ now' = now + 1
        /\ UNCHANGED <<sharedVars, pc, asr, cl, cnf, user, out, seen, logins>>

Step(r) == \/ Verify(r)
           \/ FindClient(r)
           \/ \E u \in Accounts : LoginAccepted(r, u)
           \/ LoginRejected(r)
           \/ Register(r) \/ RegisterFails(r)
           \/ FindConfKey(r)
           \/ FindIssuer(r)
           \/ LoadSub(r)
           \/ SaveAccess(r) \/ SaveAccessFails(r)
           \/ SaveRefresh(r) \/ SaveRefreshFails(r)
           \/ Respond(r)

Environment == \/ \E c \in Clients : RemoveClient(c)
               \/ \E u \in Accounts : RemoveAccount(u)
               \/ Tick

Next == \/ \E r \in Requests :
              \/ \E a \in Assertions[r], c \in Clients : Receive(r, a, c)
              \/ Step(r)
              \/ Hangs(r)
        \/ ProcessEnds
        \/ Environment

Spec == Init /\ [][Next]_vars

(* A request goes on when what it awaits is answered, by a result or an    *)
(* error.  The store is assumed to reply: its client queues commands and   *)
(* reconnects.  The directory is not, see Hangs.  Nothing obliges requests *)
(* to come in, the directory to fall silent, the process to end, or the    *)
(* world to change.                                                        *)
FairSpec == Spec /\ \A r \in Requests : WF_vars(Step(r))

-----------------------------------------------------------------------------
(* A token names an account that proved itself: by its password in this    *)
(* very request, or by a password login that registered the key with which *)
(* this request's assertion is signed, even when the kid's record was      *)
(* overwritten meanwhile (authenticate.js 61-71, validateJWT.js 56-81,     *)
(* loadSub.js 11-22).                                                      *)
SubjectProven ==
    \A t \in tokens : LET a == asr[t.req] IN
        IF Confirmed(a) THEN Login(t.account, a.signer) \in logins
        ELSE Login(t.account, a.cnfJwk) \in logins /\ t.account \in ByLogin[a.sub]

(* A token goes to a client other than the assertion's issuer only over    *)
(* the authz path and if the assertion names that client's redirect URI    *)
(* (verifyJWT.js 69-82 lets it pass, authorize.js 21-36 has to stop it).   *)
RelayAuthorized ==
    \A t \in tokens : LET a == asr[t.req] IN
        t.client = a.iss \/ (Confirmed(a) /\ a.azp \in RedirectUris[t.client])

(* Every confirmation record stems from a password login that presented    *)
(* its key, and holds that user's sub (authenticate.js 61-71).             *)
KeysProven ==
    \A k \in Kids : confKeys[k] # NoRec =>
        /\ KidOf[confKeys[k].key] = k
        /\ \E l \in logins : /\ l.key = confKeys[k].key
                             /\ SubOf[l.account] = confKeys[k].sub

(* The tokens of one grant belong together: a refresh token only beside    *)
(* the access token of the same user and client, and a granted request has *)
(* exactly the tokens its client is entitled to (grantAccessToken.js).     *)
TokenBundle ==
    /\ \A t \in tokens : t.kind = "refresh"
           => [t EXCEPT !.kind = "access"] \in tokens /\ t.client \in Refreshing
    /\ \A r \in Requests : out[r] = "granted" =>
           /\ Token("access", r) \in tokens
           /\ cl[r] \in Refreshing => Token("refresh", r) \in tokens

(* Whatever is missing, refused or rejected on the way, the client gets    *)
(* one of the three answers, unless the directory never answers the        *)
(* request's lookup or the process ends under it (assertion_jwt_token.js;  *)
(* ldapconnection.js 147 and 250-256).                                     *)
EveryRequestAnswered ==
    \A r \in Requests : pc[r] # "idle" ~> pc[r] \in {"answered", "lost"}

(* What each request asks for, in the terms of TokenService: a relayed     *)
(* assertion vouches for its own sub with the confirmation key and is meant*)
(* for the clients of its redirect URI as well; any other vouches with the *)
(* device key for the accounts of its login, whose password it carries.    *)
Key(a) == IF Confirmed(a) THEN a.signer
          ELSE IF a.cnfJwk \in Keys THEN a.cnfJwk ELSE None
Subjects(a) == IF Confirmed(a) THEN {a.sub} \cap Accounts ELSE ByLogin[a.sub]
Passwords(a) == IF Confirmed(a) THEN {} ELSE {a.crd} \cap Accounts
Audience(a) == {c \in Clients : \/ c = a.iss
                                \/ Confirmed(a) /\ a.azp \in RedirectUris[c]}

Asked(r) == LET a == asr[r] IN
    [client |-> cl[r], key |-> Key(a), subjects |-> Subjects(a),
     passwords |-> Passwords(a), audience |-> Audience(a)]
Received == {r \in Requests : pc[r] # "idle"}

Service == INSTANCE TokenService
           WITH NoKey <- None, proofs <- logins, answers <- out,
                asked <- [r \in Received |-> Asked(r)]

(* The pipeline implements TokenService: its checks, spread over the awaits*)
(* of many requests, never issue a token that the service would not, take  *)
(* one back, add one to a request that was answered, or answer twice       *)
(* (assertion_jwt_token.js, and all of actions/assertion).                 *)
ImplementsService == Service!Spec

(* Assertion.md:84, requirement 3.1.6: iat and nbf without exp must not be *)
(* older than 30 minutes.                                                  *)
UndatedNotOld ==
    \A t \in tokens : LET a == asr[t.req] IN
        a.exp = Absent => /\ a.iat # Absent => a.iat >= Old(seen[t.req])
                          /\ a.nbf # Absent => a.nbf >= Old(seen[t.req])
=============================================================================
