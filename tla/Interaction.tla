---------------------------- MODULE Interaction ----------------------------
(***************************************************************************)
(* provider/helper/frontend.js: the three routes of an interaction and the *)
(* record that carries a login from the login form to the consent form.    *)
(* The record lives in the Redis adapter (RedisStore, here as Store): the  *)
(* routes neither await its upsert nor its destroy.  An action runs from   *)
(* one await of a route to its next.                                       *)
(***************************************************************************)
CONSTANTS Uuids,    \* interactions, by the uuid in their cookie
          Accounts, \* accounts of the directory
          Requests, \* requests that come in
          Reason,   \* why the provider asks: cookie.interaction.error
          None      \* nobody, nothing

ASSUME InteractionAssumption ==
    /\ None \notin Uuids \cup Accounts \cup {"destroyed"}
    /\ "destroyed" \notin Accounts
    /\ Reason \in [Uuids -> {"login_required", "consent_required"}]

VARIABLES pc,      \* where each request is suspended
          kind,    \* its route
          uuid,    \* the interaction of its cookie
          proven,  \* whose login and password it carries; None when wrong
          result,  \* confirm: what find returned
          answer,  \* the page or redirect it was answered with
          content, \* the account in each dumped record
          stored,  \* history: logins whose upsert reached Redis
          fault,   \* history: a command failed, or the process ended
          hash, ttl, list, stage, target, grant, tokens, owed, gone

requestVars == <<pc, kind, uuid, proven, result, answer>>
storeVars == <<hash, ttl, list, stage, target, grant, tokens, owed, gone>>
vars == <<requestVars, content, stored, fault, storeVars>>

(* The adapter of the model Interaction: every record is dumped, and none  *)
(* has a grantId.                                                          *)
Store == INSTANCE RedisStore WITH
             Ids <- Uuids, Grants <- {}, NoGrant <- None, NoId <- None,
             GrantOf <- [i \in Uuids |-> None], Dumped <- Uuids,
             Procs <- Requests

Destroyed == "destroyed"  \* find's {destroyed: true}
Routes == {"get", "login", "confirm"}
Stages == {"idle", "details", "client", "account", "render", "find", "finish",
           "finishing", "answered", "lost"}
Answers == {"none", "login_view", "consent_view", "finished", "server_error"}

TypeOK == /\ pc \in [Requests -> Stages]
          /\ kind \in [Requests -> Routes]
          /\ uuid \in [Requests -> Uuids \cup {None}]
          /\ proven \in [Requests -> Accounts \cup {None}]
          /\ result \in [Requests -> Accounts \cup {None, Destroyed}]
          /\ answer \in [Requests -> Answers]
          /\ content \in [Uuids -> Accounts \cup {None}]
          /\ stored \subseteq Requests
          /\ fault \in BOOLEAN
          /\ Store!TypeOK

Init == /\ pc = [r \in Requests |-> "idle"]
        /\ kind = [r \in Requests |-> "get"]
        /\ uuid = [r \in Requests |-> None]
        /\ proven = [r \in Requests |-> None]
        /\ result = [r \in Requests |-> None]
        /\ answer = [r \in Requests |-> "none"]
        /\ content = [i \in Uuids |-> None]
        /\ stored = {}
        /\ fault = FALSE
        /\ Store!Init

Goto(r, s) == pc' = [pc EXCEPT ![r] = s] /\ UNCHANGED answer
Answer(r, a) == /\ pc' = [pc EXCEPT ![r] = "answered"]
                /\ answer' = [answer EXCEPT ![r] = a]
Stays == UNCHANGED <<kind, uuid, proven>>
Untouched == UNCHANGED <<content, stored, storeVars>>

-----------------------------------------------------------------------------
(* A request comes in and awaits provider.interactionDetails; a login form *)
(* carries somebody's login and password, right or wrong.                  *)
Receive(r, k, i, a) ==
    /\ pc[r] = "idle"
    /\ k # "login" => a = None
    /\ Goto(r, "details")
    /\ kind' = [kind EXCEPT ![r] = k]
    /\ uuid' = [uuid EXCEPT ![r] = i]
    /\ proven' = [proven EXCEPT ![r] = a]
    /\ Untouched
    /\ UNCHANGED <<result, fault>>

(* The cookie is read: confirm goes for the record, the others for the     *)
(* client.                                                                 *)
Details(r) ==
    /\ pc[r] = "details"
    /\ Goto(r, IF kind[r] = "confirm" THEN "find" ELSE "client")
    /\ Stays /\ Untouched
    /\ UNCHANGED <<result, fault>>

(* GET: the form the provider asked for; POST login: on to the account.    *)
ClientFound(r) ==
    /\ pc[r] = "client"
    /\ \/ kind[r] = "login" /\ Goto(r, "account")
       \/ kind[r] = "get" /\ Answer(r, IF Reason[uuid[r]] = "login_required"
                                       THEN "login_view" ELSE "consent_view")
    /\ Stays /\ Untouched
    /\ UNCHANGED <<result, fault>>

(* accountByLogin resolves: the upsert is issued, without expiresIn, and   *)
(* the consent form rendered whatever becomes of it.                       *)
LoginUnstored(r) ==  \* mutant: the upsert is left out
    /\ pc[r] = "account"
    /\ proven[r] # None
    /\ Goto(r, "render")
    /\ stored' = stored \cup {r}
    /\ Stays
    /\ UNCHANGED <<result, fault, content, storeVars>>

LoginAccepted(r) ==
    /\ pc[r] = "account"
    /\ proven[r] # None
    /\ Goto(r, "render")
    /\ Store!Upsert(uuid[r], FALSE)
    /\ content' = [content EXCEPT ![uuid[r]] = proven[r]]
    /\ stored' = stored \cup {r}
    /\ Stays
    /\ UNCHANGED <<result, fault>>

(* The same, and the upsert rejects, which nobody awaits.                  *)
LoginStoreFails(r) ==
    /\ pc[r] = "account"
    /\ proven[r] # None
    /\ Goto(r, "render")
    /\ fault' = TRUE
    /\ Stays /\ Untouched
    /\ UNCHANGED result

Rendered(r) ==
    /\ pc[r] = "render"
    /\ Answer(r, "consent_view")
    /\ Stays /\ Untouched
    /\ UNCHANGED <<result, fault>>

(* accountByLogin never returns nothing: it throws "Login Failed".         *)
LoginRefused(r) ==
    /\ pc[r] = "account"
    /\ proven[r] = None
    /\ Answer(r, "server_error")
    /\ Stays /\ Untouched
    /\ UNCHANGED <<result, fault>>

-----------------------------------------------------------------------------
(* POST confirm: find answers with the record's account, or with           *)
(* {destroyed: true}, which is not falsy.                                  *)
FindRecordOfAnyone(r) ==  \* mutant: a key that is not the cookie's uuid
    /\ pc[r] = "find"
    /\ Goto(r, "finish")
    /\ \E i \in Uuids :
          result' = [result EXCEPT ![r] = IF Store!Present(i) THEN content[i]
                                          ELSE Destroyed]
    /\ Stays /\ Untouched
    /\ UNCHANGED fault

FindRecordConsumes(r) ==  \* mutant: the record is marked as consumed
    /\ pc[r] = "find"
    /\ Goto(r, "finish")
    /\ Store!Consume(uuid[r])
    /\ result' = [result EXCEPT ![r] = IF Store!Present(uuid[r])
                                      THEN content[uuid[r]] ELSE Destroyed]
    /\ Stays
    /\ UNCHANGED <<fault, content, stored>>

FindRecordStatus(r) ==  \* mutant: returns what the record is, not what it holds
    /\ pc[r] = "find"
    /\ Goto(r, "finish")
    /\ result' = [result EXCEPT ![r] = Store!FindResult(uuid[r])]
    /\ Stays /\ Untouched
    /\ UNCHANGED fault

FindRecord(r) ==
    /\ pc[r] = "find"
    /\ Goto(r, "finish")
    /\ result' = [result EXCEPT
                     ![r] = IF Store!FindResult(uuid[r]) = "destroyed"
                            THEN Destroyed ELSE content[uuid[r]]]
    /\ Stays /\ Untouched
    /\ UNCHANGED fault

(* The consent is added, destroy started and interactionFinished awaited.  *)
FinishKeeping(r) ==  \* mutant: the record is not destroyed
    /\ pc[r] = "finish"
    /\ Goto(r, "finishing")
    /\ Stays /\ Untouched
    /\ UNCHANGED <<result, fault>>

FinishForgotten(r) ==  \* mutant: interactionFinished is not called
    /\ pc[r] = "finish"
    /\ Store!DestroyHget(r, uuid[r])
    /\ UNCHANGED <<requestVars, fault, content, stored>>

Finish(r) ==
    /\ pc[r] = "finish"
    /\ Goto(r, "finishing")
    /\ Store!DestroyHget(r, uuid[r])
    /\ Stays
    /\ UNCHANGED <<result, fault, content, stored>>

Finished(r) ==
    /\ pc[r] = "finishing"
    /\ Answer(r, "finished")
    /\ Stays /\ Untouched
    /\ UNCHANGED <<result, fault>>

-----------------------------------------------------------------------------
(* A call that a route awaits rejects: koa answers with an error.          *)
Fails(r) ==
    /\ pc[r] \in {"details", "client", "account", "render", "find", "finishing"}
    /\ Answer(r, "server_error")
    /\ Stays /\ Untouched
    /\ UNCHANGED <<result, fault>>

(* Client.find or accountByLogin runs into an LDAP adapter that never      *)
(* answers (LdapConnection, Wedged, or a connection that has gone silent): *)
(* the request stays where it is, with no timeout of its own.              *)
Hangs(r) ==
    /\ pc[r] \in {"client", "account"}
    /\ Goto(r, "lost")
    /\ Stays /\ Untouched
    /\ UNCHANGED <<result, fault>>

(* The rest of a destroy runs beside the request that started it.          *)
Destroying(r) ==
    /\ \/ Store!DestroyLrange(r)
       \/ Store!DestroyDelTokens(r)
       \/ Store!DestroyDelKey(r)
    /\ UNCHANGED <<requestVars, content, stored, fault>>

DestroyFails(r) ==
    /\ Store!DestroyFails(r)
    /\ fault' = TRUE
    /\ UNCHANGED <<requestVars, content, stored>>

(* The process ends and is started anew: requests and destroys under way   *)
(* are lost, Redis keeps what it has.                                      *)
InFlight(r) == pc[r] \notin {"idle", "answered", "lost"}

Crash ==
    /\ \E r \in Requests : InFlight(r) \/ stage[r] # "idle"
    /\ pc' = [r \in Requests |-> IF InFlight(r) THEN "lost" ELSE pc[r]]
    /\ fault' = TRUE
    /\ \/ Store!Crash
       \/ (\A r \in Requests : stage[r] = "idle") /\ UNCHANGED storeVars
    /\ Stays
    /\ UNCHANGED <<result, answer, content, stored>>

Step(r) == \/ Details(r)
           \/ ClientFound(r)
           \/ LoginAccepted(r)
           \/ LoginStoreFails(r)
           \/ Rendered(r)
           \/ LoginRefused(r)
           \/ FindRecord(r)
           \/ Finish(r)
           \/ Finished(r)
           \/ Fails(r)

Arrives(r) == \E k \in Routes, i \in Uuids, a \in Accounts \cup {None} :
                  Receive(r, k, i, a)

Next == \/ \E r \in Requests : \/ Arrives(r)
                               \/ Step(r)
                               \/ Hangs(r)
                               \/ Destroying(r)
                               \/ DestroyFails(r)
        \/ Crash

Spec == Init /\ [][Next]_vars

(* The provider and Redis answer each call, well or with an error.  The    *)
(* directory need not: a call that goes through it may hang instead.       *)
FairSpec == Spec /\ \A r \in Requests : WF_vars(Step(r)) /\ WF_vars(Destroying(r))

-----------------------------------------------------------------------------
(* An interaction is finished only with the login of somebody who proved   *)
(* himself in that very interaction, however the requests of two users or  *)
(* two interactions mix (frontend.js, lines 100-124, 149-176).             *)
ResultProven ==
    \A r \in Requests : result[r] \in Accounts =>
        \E q \in stored : uuid[q] = uuid[r] /\ proven[q] = result[r]

(* A login that reached Redis is there for the consent that follows,       *)
(* through failures of others and a restart: only a confirm of the same    *)
(* interaction takes it away (lines 106, 122, 175).                        *)
LoginAwaitsConsent ==
    \A q \in stored :
        \/ Store!Present(uuid[q])
        \/ \E r \in Requests : kind[r] = "confirm" /\ uuid[r] = uuid[q]
                               /\ result[r] # None

(* A destroyed interaction is not found again until somebody logs in:      *)
(* unlike other models, none is consumed (lines 121-122).                  *)
SpentStaysSpent == Store!DestroyedStaysDestroyed

(* Every request is answered, unless the process ends or the directory     *)
(* never answers its Client.find or accountByLogin (lines 55, 133, 137):   *)
(* no refusal, failed command or other request leaves one without answer.  *)
RequestsAnswered ==
    \A r \in Requests : pc[r] = "details" ~> pc[r] \in {"answered", "lost"}

(* A confirm that does not end in an error has removed the record in the   *)
(* end, though nobody awaits that, unless a command fails or the process   *)
(* ends (lines 106-124).                                                   *)
ConfirmSpends ==
    \A r \in Requests :
        pc[r] = "find" ~> (uuid[r] \in gone \/ fault \/ answer[r] = "server_error")
=============================================================================
