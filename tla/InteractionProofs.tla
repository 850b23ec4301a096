------------------------- MODULE InteractionProofs -------------------------
(***************************************************************************)
(* What becomes of the login between the two forms of an interaction, for  *)
(* any number of interactions, accounts and requests.                      *)
(***************************************************************************)
EXTENDS Interaction, TLAPS

(* The requests whose login was stored have long come in, and what they    *)
(* carry does not change any more.                                         *)
StoredPast == \A q \in stored : pc[q] # "idle" /\ uuid[q] \in Uuids

(* A record holds the login of somebody who proved himself in it.          *)
ContentProven ==
    \A i \in Uuids : Store!Present(i) =>
        \E q \in stored : uuid[q] = i /\ proven[q] = content[i] /\ proven[q] # None

(* Where a confirm has got to, and its destroy, which removes nothing but  *)
(* the record of its interaction.                                          *)
ConfirmPath ==
    \A r \in Requests :
        /\ pc[r] = "idle" => result[r] = None
        /\ pc[r] # "idle" => uuid[r] \in Uuids
        /\ pc[r] = "find" => kind[r] = "confirm"
        /\ pc[r] = "finish" => kind[r] = "confirm" /\ result[r] # None
        /\ stage[r] # "idle" => /\ pc[r] \notin {"idle", "details", "find", "finish"}
                                /\ target[r] = uuid[r]
                                /\ kind[r] = "confirm"
                                /\ result[r] # None
        /\ tokens[r] = {}

IInv == /\ TypeOK
        /\ StoredPast
        /\ ContentProven
        /\ ConfirmPath
        /\ ResultProven
        /\ LoginAwaitsConsent
        /\ SpentStaysSpent
-----------------------------------------------------------------------------
LEMMA InitIInv == ASSUME Init PROVE IInv
<1> USE InteractionAssumption
<1>1. Store!TypeOK
    BY DEF Init, Store!Init, Store!TypeOK, Store!Stages
<1>2. TypeOK
    BY <1>1 DEF Init, TypeOK, Stages, Routes, Answers
<1>3. StoredPast /\ LoginAwaitsConsent /\ ResultProven
    BY DEF Init, StoredPast, LoginAwaitsConsent, ResultProven
<1>4. ContentProven /\ SpentStaysSpent
    BY DEF Init, ContentProven, SpentStaysSpent, Store!Init, Store!Present,
       Store!DestroyedStaysDestroyed
<1>5. ConfirmPath
    BY DEF Init, ConfirmPath, Store!Init
<1> QED BY <1>2, <1>3, <1>4, <1>5 DEF IInv

(* What the front end sees of the adapter's operations.                    *)
LEMMA FoundIsPresent ==
    ASSUME NEW i \in Uuids, Store!TypeOK
    PROVE  Store!FindResult(i) = "destroyed" <=> ~Store!Present(i)
BY DEF Store!FindResult, Store!Present

LEMMA UpsertFacts ==
    ASSUME Store!TypeOK, NEW i \in Uuids, Store!Upsert(i, FALSE)
    PROVE  /\ Store!TypeOK'
           /\ hash'[i] # {}
           /\ \A j \in Uuids : j # i => hash'[j] = hash[j]
           /\ gone' = gone \ {i}
           /\ UNCHANGED <<stage, target, tokens>>
<1>1. Store!Stored(i) = {"dump"}
    BY DEF Store!Stored
<1>2. /\ hash' = [hash EXCEPT ![i] = @ \cup {"dump"}]
      /\ UNCHANGED <<ttl, list, stage, target, grant, tokens>>
      /\ gone' = gone \ {i}
      /\ owed' = [p \in Requests |-> owed[p] \ {i}]
    BY <1>1 DEF Store!Upsert, Store!Released, Store!destroyVars
<1>3. hash' \in [Uuids -> SUBSET Store!Fields] /\ hash'[i] # {}
    BY <1>2 DEF Store!TypeOK, Store!Fields
<1>4. owed' \in [Requests -> SUBSET Uuids]
    BY <1>2 DEF Store!TypeOK
<1> QED BY <1>2, <1>3, <1>4 DEF Store!TypeOK

LEMMA HgetFacts ==
    ASSUME Store!TypeOK, NEW r \in Requests, NEW i \in Uuids,
           Store!DestroyHget(r, i)
    PROVE  /\ Store!TypeOK'
           /\ UNCHANGED <<hash, gone, tokens>>
           /\ stage' = [stage EXCEPT ![r] = "hget"]
           /\ target' = [target EXCEPT ![r] = i]
<1>1. grant' = [grant EXCEPT ![r] = None]
    BY DEF Store!DestroyHget
<1>2. Store!Kin(i) \subseteq Uuids
    BY DEF Store!Kin
<1>3. owed' \in [Requests -> SUBSET Uuids]
    BY <1>2 DEF Store!DestroyHget, Store!TypeOK
<1>4. UNCHANGED <<hash, ttl, list, gone, tokens>>
    BY DEF Store!DestroyHget
<1>5. /\ stage' = [stage EXCEPT ![r] = "hget"]
      /\ target' = [target EXCEPT ![r] = i]
    BY DEF Store!DestroyHget
<1> QED BY <1>1, <1>3, <1>4, <1>5 DEF Store!TypeOK, Store!Stages

(* A destroy that read no list removes at most its target.                 *)
LEMMA DestroyFacts ==
    ASSUME Store!TypeOK, NEW r \in Requests, tokens[r] = {},
           stage[r] # "idle" => target[r] \in Uuids,
           \/ Store!DestroyLrange(r)
           \/ Store!DestroyDelTokens(r)
           \/ Store!DestroyDelKey(r)
           \/ Store!DestroyFails(r)
    PROVE  /\ Store!TypeOK'
           /\ \A i \in Uuids : \/ hash'[i] = hash[i]
                               \/ hash'[i] = {} /\ i = target[r]
           /\ \A i \in gone' : i \in gone \/ (i \in Uuids /\ hash'[i] = {})
           /\ stage[r] # "idle"
           /\ \A q \in Requests : q # r => /\ stage'[q] = stage[q]
                                           /\ target'[q] = target[q]
                                           /\ tokens'[q] = tokens[q]
           /\ stage'[r] = "idle" \/ target'[r] = target[r]
           /\ tokens'[r] = {}
<1>1. CASE Store!DestroyLrange(r)
  <2>1. Store!Listed(grant[r]) = {}
    BY DEF Store!Listed, Store!TypeOK
  <2>2. /\ tokens' = [tokens EXCEPT ![r] = {}]
        /\ stage' = [stage EXCEPT ![r] = "lrange"]
        /\ stage[r] = "hget"
        /\ UNCHANGED <<hash, ttl, list, target, grant, owed, gone>>
    BY <1>1, <2>1 DEF Store!DestroyLrange
  <2> QED BY <2>2 DEF Store!TypeOK, Store!Stages
<1>2. CASE Store!DestroyDelTokens(r)
  <2>1. /\ stage[r] = "lrange"
        /\ stage' = [stage EXCEPT ![r] = "del"]
        /\ hash' = [i \in Uuids |-> hash[i]]
        /\ ttl' = ttl
        /\ UNCHANGED <<list, target, grant, tokens, owed, gone>>
    BY <1>2 DEF Store!DestroyDelTokens, Store!Removed
  <2>2. hash' = hash
    BY <2>1 DEF Store!TypeOK
  <2> QED BY <2>1, <2>2 DEF Store!TypeOK, Store!Stages
<1>3. ASSUME Store!Reset(r)
      PROVE  /\ stage' \in [Requests -> Store!Stages]
             /\ target' \in [Requests -> Uuids \cup {None}]
             /\ grant' \in [Requests -> {None}]
             /\ tokens' \in [Requests -> SUBSET Uuids]
             /\ owed' \in [Requests -> SUBSET Uuids]
             /\ \A q \in Requests : q # r => /\ stage'[q] = stage[q]
                                             /\ target'[q] = target[q]
                                             /\ tokens'[q] = tokens[q]
             /\ stage'[r] = "idle"
             /\ tokens'[r] = {}
    BY <1>3 DEF Store!Reset, Store!TypeOK, Store!Stages
<1>4. CASE Store!DestroyDelKey(r)
  <2>1. /\ stage[r] = "del"
        /\ hash' = [i \in Uuids |-> IF i \in {target[r]} THEN {} ELSE hash[i]]
        /\ ttl' = ttl \ {target[r]}
        /\ gone' = gone \cup {target[r]}
        /\ list' = list
        /\ Store!Reset(r)
    BY <1>4 DEF Store!DestroyDelKey, Store!Removed
  <2> QED BY <1>3, <2>1 DEF Store!TypeOK
<1>5. CASE Store!DestroyFails(r)
  <2>1. /\ stage[r] \in {"hget", "lrange", "del"}
        /\ Store!Reset(r)
        /\ UNCHANGED <<list, gone>>
    BY <1>5 DEF Store!DestroyFails
  <2>2. CASE UNCHANGED <<hash, ttl>>
    BY <1>3, <2>1, <2>2 DEF Store!TypeOK
  <2>3. ASSUME NEW ids \in SUBSET tokens[r], Store!Removed(ids)
        PROVE  UNCHANGED <<hash, ttl>>
    <3>1. ids = {}
      OBVIOUS
    <3>2. hash' = [i \in Uuids |-> hash[i]] /\ ttl' = ttl
      BY <2>3, <3>1 DEF Store!Removed
    <3> QED BY <3>2 DEF Store!TypeOK
  <2>4. UNCHANGED <<hash, ttl>>
    BY <1>5, <2>3 DEF Store!DestroyFails
  <2> QED BY <2>2, <2>4
<1> QED BY <1>1, <1>2, <1>4, <1>5
-----------------------------------------------------------------------------
(* A step of one request that leaves the store alone.                      *)
LEMMA LocalStep ==
    ASSUME IInv, TypeOK', Untouched, NEW r \in Requests,
           pc'[r] # "idle", uuid'[r] \in Uuids,
           \A q \in Requests : q # r => /\ pc'[q] = pc[q]
                                        /\ kind'[q] = kind[q]
                                        /\ uuid'[q] = uuid[q]
                                        /\ proven'[q] = proven[q]
                                        /\ result'[q] = result[q],
           pc[r] # "idle" => /\ kind'[r] = kind[r]
                             /\ uuid'[r] = uuid[r]
                             /\ proven'[r] = proven[r],
           result[r] # None => result'[r] # None,
           pc'[r] = "details" => stage[r] = "idle",
           pc'[r] = "find" => kind'[r] = "confirm" /\ stage[r] = "idle",
           pc'[r] = "finish" => /\ kind'[r] = "confirm" /\ stage[r] = "idle"
                                /\ result'[r] # None,
           result'[r] \in Accounts =>
              \E q \in stored : uuid[q] = uuid'[r] /\ proven[q] = result'[r]
    PROVE  IInv'
<1>1. /\ hash' = hash /\ stored' = stored /\ content' = content /\ gone' = gone
      /\ stage' = stage /\ target' = target /\ tokens' = tokens
    BY DEF Untouched, storeVars
<1>2. \A q \in stored : /\ q \in Requests /\ pc[q] # "idle" /\ uuid[q] \in Uuids
                        /\ pc'[q] # "idle"
                        /\ uuid'[q] = uuid[q] /\ proven'[q] = proven[q]
    BY DEF IInv, StoredPast, TypeOK
<1>3. StoredPast'
    BY <1>1, <1>2 DEF StoredPast
<1>4. ContentProven'
    BY <1>1, <1>2 DEF IInv, ContentProven, Store!Present
<1>5. ConfirmPath'
    BY <1>1 DEF IInv, ConfirmPath
<1>6. ResultProven'
    BY <1>1, <1>2 DEF IInv, ResultProven
<1>7. LoginAwaitsConsent'
    BY <1>1, <1>2 DEF IInv, LoginAwaitsConsent, ConfirmPath, Store!Present
<1>8. SpentStaysSpent'
    BY <1>1 DEF IInv, SpentStaysSpent, Store!DestroyedStaysDestroyed, Store!FindResult
<1> QED BY <1>3, <1>4, <1>5, <1>6, <1>7, <1>8 DEF IInv

LEMMA ReceiveStep ==
    ASSUME IInv, NEW r \in Requests, NEW k \in Routes, NEW i \in Uuids,
           NEW a \in Accounts \cup {None}, Receive(r, k, i, a)
    PROVE  IInv'
<1>1. TypeOK'
    BY DEF Receive, Goto, Untouched, storeVars, IInv, TypeOK, Stages, Store!TypeOK
<1>2. /\ pc[r] = "idle" /\ result[r] = None /\ stage[r] = "idle"
      /\ pc' = [pc EXCEPT ![r] = "details"]
      /\ kind' = [kind EXCEPT ![r] = k]
      /\ uuid' = [uuid EXCEPT ![r] = i]
      /\ proven' = [proven EXCEPT ![r] = a]
      /\ result' = result
      /\ Untouched
    BY DEF Receive, Goto, IInv, ConfirmPath
<1>3. None \notin Accounts
    BY InteractionAssumption
<1> HIDE DEF Untouched
<1> QED BY <1>1, <1>2, <1>3, LocalStep DEF IInv, TypeOK

LEMMA FindRecordStep ==
    ASSUME IInv, NEW r \in Requests, FindRecord(r)
    PROVE  IInv'
<1>1. /\ pc[r] = "find" /\ kind[r] = "confirm" /\ uuid[r] \in Uuids
      /\ stage[r] = "idle" /\ Store!TypeOK
    BY DEF FindRecord, IInv, ConfirmPath, TypeOK
<1> DEFINE found == IF Store!FindResult(uuid[r]) = "destroyed" THEN Destroyed
                    ELSE content[uuid[r]]
<1>2. /\ pc' = [pc EXCEPT ![r] = "finish"]
      /\ result' = [result EXCEPT ![r] = found]
      /\ UNCHANGED <<kind, uuid, proven, answer, fault>>
      /\ Untouched
    BY DEF FindRecord, Goto, Stays
<1>3. \/ found = Destroyed
      \/ /\ found \in Accounts
         /\ \E q \in stored : uuid[q] = uuid[r] /\ proven[q] = found
  <2>1. CASE Store!FindResult(uuid[r]) = "destroyed"
    BY <2>1
  <2>2. CASE Store!FindResult(uuid[r]) # "destroyed"
    <3>1. Store!Present(uuid[r])
      BY <1>1, <2>2, FoundIsPresent
    <3>2. PICK q \in stored : /\ uuid[q] = uuid[r] /\ proven[q] # None
                              /\ proven[q] = content[uuid[r]]
      BY <1>1, <3>1 DEF IInv, ContentProven
    <3>3. content[uuid[r]] \in Accounts
      BY <1>1, <3>2 DEF IInv, TypeOK
    <3> QED BY <2>2, <3>2, <3>3
  <2> QED BY <2>1, <2>2
<1>4. ASSUME found = Destroyed, Destroyed \in Accounts
      PROVE  \E q \in stored : uuid[q] = uuid[r] /\ proven[q] = Destroyed
    BY <1>4, InteractionAssumption DEF Destroyed
<1>5. found # None
    BY <1>3, InteractionAssumption DEF Destroyed
<1>6. TypeOK'
    BY <1>2, <1>3 DEF IInv, TypeOK, Stages, Untouched, storeVars, Store!TypeOK
<1> HIDE DEF found
<1> QED BY <1>1, <1>2, <1>3, <1>4, <1>5, <1>6, LocalStep DEF IInv, TypeOK
(* The steps that only move one request on.                                *)
LEMMA PlainStep ==
    ASSUME IInv, NEW r \in Requests,
           \/ Details(r)
           \/ ClientFound(r)
           \/ LoginStoreFails(r)
           \/ Rendered(r)
           \/ LoginRefused(r)
           \/ Finished(r)
           \/ Fails(r)
           \/ Hangs(r)
    PROVE  IInv'
<1>1. /\ pc[r] # "idle"
      /\ UNCHANGED <<kind, uuid, proven, result>>
      /\ Untouched
    BY DEF Details, ClientFound, LoginStoreFails, Rendered, LoginRefused, Finished,
           Fails, Hangs, Stays
<1>2. \E s \in Stages \ {"idle", "details", "finish"} :
         /\ pc' = [pc EXCEPT ![r] = s]
         /\ s = "find" => kind[r] = "confirm" /\ pc[r] = "details"
    BY DEF Details, ClientFound, LoginStoreFails, Rendered, LoginRefused, Finished,
           Fails, Hangs, Goto, Answer, Stages
<1>3. answer' \in [Requests -> Answers] /\ fault' \in BOOLEAN
    BY DEF Details, ClientFound, LoginStoreFails, Rendered, LoginRefused, Finished,
           Fails, Hangs, Goto, Answer, Answers, IInv, TypeOK
<1>4. stage[r] # "idle" => pc[r] # "details"
    BY DEF IInv, ConfirmPath
<1>5. TypeOK'
    BY <1>1, <1>2, <1>3 DEF IInv, TypeOK, Untouched, storeVars, Store!TypeOK
<1>6. /\ uuid[r] \in Uuids
      /\ result[r] \in Accounts =>
            \E q \in stored : uuid[q] = uuid[r] /\ proven[q] = result[r]
    BY <1>1 DEF IInv, ConfirmPath, ResultProven
<1> QED BY <1>1, <1>2, <1>4, <1>5, <1>6, LocalStep DEF IInv, TypeOK

LEMMA LoginAcceptedStep ==
    ASSUME IInv, NEW r \in Requests, LoginAccepted(r)
    PROVE  IInv'
<1>1. /\ pc[r] = "account" /\ uuid[r] \in Uuids /\ Store!TypeOK
      /\ proven[r] # None
      /\ Store!Upsert(uuid[r], FALSE)
      /\ pc' = [pc EXCEPT ![r] = "render"]
      /\ content' = [content EXCEPT ![uuid[r]] = proven[r]]
      /\ stored' = stored \cup {r}
      /\ UNCHANGED <<kind, uuid, proven, result, answer, fault>>
    BY DEF LoginAccepted, Goto, Stays, IInv, ConfirmPath, TypeOK
<1>2. /\ Store!TypeOK'
      /\ hash'[uuid[r]] # {}
      /\ \A j \in Uuids : j # uuid[r] => hash'[j] = hash[j]
      /\ gone' = gone \ {uuid[r]}
      /\ UNCHANGED <<stage, target, tokens>>
    BY <1>1, UpsertFacts
<1>3. TypeOK'
    BY <1>1, <1>2 DEF IInv, TypeOK, Stages
<1>4. StoredPast'
    BY <1>1 DEF IInv, TypeOK, StoredPast
<1>5. ContentProven'
    BY <1>1, <1>2 DEF IInv, TypeOK, ContentProven, Store!Present
<1>6. ConfirmPath'
    BY <1>1, <1>2 DEF IInv, TypeOK, ConfirmPath
<1>7. ResultProven'
    BY <1>1 DEF IInv, ResultProven
<1>8. LoginAwaitsConsent'
    BY <1>1, <1>2 DEF IInv, StoredPast, LoginAwaitsConsent, Store!Present
<1>9. SpentStaysSpent'
    BY <1>1, <1>2 DEF IInv, TypeOK, Store!TypeOK, SpentStaysSpent,
       Store!DestroyedStaysDestroyed, Store!FindResult
<1> QED BY <1>3, <1>4, <1>5, <1>6, <1>7, <1>8, <1>9 DEF IInv

LEMMA FinishStep ==
    ASSUME IInv, NEW r \in Requests, Finish(r)
    PROVE  IInv'
<1>1. /\ pc[r] = "finish" /\ uuid[r] \in Uuids /\ kind[r] = "confirm"
      /\ result[r] # None /\ Store!TypeOK
      /\ Store!DestroyHget(r, uuid[r])
      /\ pc' = [pc EXCEPT ![r] = "finishing"]
      /\ UNCHANGED <<kind, uuid, proven, result, answer, fault, content, stored>>
    BY DEF Finish, Goto, Stays, IInv, ConfirmPath, TypeOK
<1>2. /\ Store!TypeOK'
      /\ UNCHANGED <<hash, gone, tokens>>
      /\ stage' = [stage EXCEPT ![r] = "hget"]
      /\ target' = [target EXCEPT ![r] = uuid[r]]
    BY <1>1, HgetFacts
<1>3. TypeOK'
    BY <1>1, <1>2 DEF IInv, TypeOK, Stages
<1>4. StoredPast' /\ ContentProven' /\ ResultProven' /\ LoginAwaitsConsent'
    BY <1>1, <1>2 DEF IInv, TypeOK, StoredPast, ContentProven, ResultProven,
       LoginAwaitsConsent, Store!Present
<1>5. ConfirmPath'
    BY <1>1, <1>2 DEF IInv, TypeOK, ConfirmPath, Store!TypeOK
<1>6. SpentStaysSpent'
    BY <1>2 DEF IInv, SpentStaysSpent, Store!DestroyedStaysDestroyed, Store!FindResult
<1> QED BY <1>3, <1>4, <1>5, <1>6 DEF IInv

LEMMA DestroyStep ==
    ASSUME IInv, NEW r \in Requests, Destroying(r) \/ DestroyFails(r)
    PROVE  IInv'
<1>1. /\ UNCHANGED <<pc, kind, uuid, proven, result, answer, content, stored>>
      /\ fault' \in BOOLEAN
    BY DEF Destroying, DestroyFails, requestVars, IInv, TypeOK
<1>2. /\ Store!TypeOK /\ tokens[r] = {}
      /\ stage[r] # "idle" => /\ target[r] \in Uuids /\ target[r] = uuid[r]
                              /\ kind[r] = "confirm" /\ result[r] # None
    BY DEF IInv, TypeOK, ConfirmPath
<1>3. /\ Store!TypeOK'
      /\ \A i \in Uuids : \/ hash'[i] = hash[i]
                          \/ hash'[i] = {} /\ i = target[r]
      /\ \A i \in gone' : i \in gone \/ (i \in Uuids /\ hash'[i] = {})
      /\ stage[r] # "idle"
      /\ \A q \in Requests : q # r => /\ stage'[q] = stage[q]
                                      /\ target'[q] = target[q]
                                      /\ tokens'[q] = tokens[q]
      /\ stage'[r] = "idle" \/ target'[r] = target[r]
      /\ tokens'[r] = {}
    BY <1>2, DestroyFacts DEF Destroying, DestroyFails
<1>4. TypeOK'
    BY <1>1, <1>3 DEF IInv, TypeOK
<1>5. StoredPast' /\ ResultProven'
    BY <1>1 DEF IInv, StoredPast, ResultProven
<1>6. ContentProven'
    BY <1>1, <1>3 DEF IInv, ContentProven, Store!Present
<1>7. ConfirmPath'
    BY <1>1, <1>2, <1>3 DEF IInv, ConfirmPath
<1>8. LoginAwaitsConsent'
    BY <1>1, <1>2, <1>3 DEF IInv, StoredPast, LoginAwaitsConsent, Store!Present
<1>9. SpentStaysSpent'
  <2>1. \A i \in gone : i \in Uuids /\ hash[i] = {}
    BY <1>2 DEF IInv, SpentStaysSpent, Store!DestroyedStaysDestroyed,
       Store!FindResult, Store!TypeOK
  <2> QED BY <1>3, <2>1 DEF SpentStaysSpent, Store!DestroyedStaysDestroyed,
          Store!FindResult
<1> QED BY <1>4, <1>5, <1>6, <1>7, <1>8, <1>9 DEF IInv
LEMMA CrashStep == ASSUME IInv, Crash PROVE IInv'
<1>1. /\ pc' = [r \in Requests |-> IF InFlight(r) THEN "lost" ELSE pc[r]]
      /\ fault' = TRUE
      /\ UNCHANGED <<kind, uuid, proven, result, answer, content, stored>>
    BY DEF Crash, Stays
<1>2. /\ Store!TypeOK'
      /\ hash' = hash /\ gone' = gone
      /\ \A r \in Requests : stage'[r] = "idle" /\ tokens'[r] = {}
  <2>1. CASE Store!Crash
    BY <2>1 DEF Store!Crash, Store!TypeOK, Store!Stages, IInv, TypeOK
  <2>2. CASE (\A r \in Requests : stage[r] = "idle") /\ UNCHANGED storeVars
    BY <2>2 DEF storeVars, IInv, TypeOK, ConfirmPath, Store!TypeOK
  <2> QED BY <2>1, <2>2 DEF Crash
<1>3. \A r \in Requests : \/ pc'[r] = pc[r] /\ pc[r] \in {"idle", "answered", "lost"}
                          \/ pc'[r] = "lost" /\ pc[r] # "idle"
    BY <1>1 DEF InFlight, IInv, TypeOK
<1>4. TypeOK'
    BY <1>1, <1>2 DEF IInv, TypeOK, Stages
<1>5. StoredPast'
    BY <1>1, <1>3 DEF IInv, TypeOK, StoredPast
<1>6. ContentProven' /\ ResultProven' /\ LoginAwaitsConsent'
    BY <1>1, <1>2 DEF IInv, ContentProven, ResultProven, LoginAwaitsConsent,
       Store!Present
<1>7. ConfirmPath'
    BY <1>1, <1>2, <1>3 DEF IInv, ConfirmPath
<1>8. SpentStaysSpent'
    BY <1>2 DEF IInv, SpentStaysSpent, Store!DestroyedStaysDestroyed, Store!FindResult
<1> QED BY <1>4, <1>5, <1>6, <1>7, <1>8 DEF IInv

LEMMA StutterStep == ASSUME IInv, UNCHANGED vars PROVE IInv'
<1>1. UNCHANGED <<pc, kind, uuid, proven, result, answer, content, stored, fault,
                  hash, ttl, list, stage, target, grant, tokens, owed, gone>>
    BY DEF vars, requestVars, storeVars
<1>2. TypeOK'
    BY <1>1 DEF IInv, TypeOK, Store!TypeOK
<1> QED BY <1>1, <1>2 DEF IInv, StoredPast, ContentProven, ConfirmPath, ResultProven,
        LoginAwaitsConsent, SpentStaysSpent, Store!Present, Store!FindResult,
        Store!DestroyedStaysDestroyed

LEMMA NextIInv == ASSUME IInv, [Next]_vars PROVE IInv'
<1>1. CASE UNCHANGED vars
    BY <1>1, StutterStep
<1>2. ASSUME NEW r \in Requests, Arrives(r) PROVE IInv'
    BY <1>2, ReceiveStep DEF Arrives
<1>3. ASSUME NEW r \in Requests, Step(r) PROVE IInv'
    BY <1>3, PlainStep, LoginAcceptedStep, FindRecordStep, FinishStep DEF Step
<1>4. ASSUME NEW r \in Requests, Hangs(r) PROVE IInv'
    BY <1>4, PlainStep
<1>5. ASSUME NEW r \in Requests, Destroying(r) \/ DestroyFails(r) PROVE IInv'
    BY <1>5, DestroyStep
<1>6. CASE Crash
    BY <1>6, CrashStep
<1> QED BY <1>1, <1>2, <1>3, <1>4, <1>5, <1>6 DEF Next

(* The invariant the properties follow from.                               *)
THEOREM IInvHolds == Spec => []IInv
BY InitIInv, NextIInv, PTL DEF Spec

(* Every variable of the routes keeps its type.                            *)
THEOREM TypeCorrect == Spec => []TypeOK
<1>1. IInv => TypeOK
    BY DEF IInv
<1> QED BY <1>1, IInvHolds, PTL

(* A confirm is finished only with a login proven in its interaction.      *)
THEOREM ResultProvenHolds == Spec => []ResultProven
<1>1. IInv => ResultProven
    BY DEF IInv
<1> QED BY <1>1, IInvHolds, PTL

(* A stored login stays until a confirm of its interaction.                *)
THEOREM LoginAwaitsConsentHolds == Spec => []LoginAwaitsConsent
<1>1. IInv => LoginAwaitsConsent
    BY DEF IInv
<1> QED BY <1>1, IInvHolds, PTL

(* What a request or a destroy does to the store is an operation of the    *)
(* Redis adapter, or nothing.                                              *)
LEMMA RequestImplements ==
    ASSUME IInv, NEW r \in Requests, Step(r) \/ Destroying(r) \/ DestroyFails(r)
    PROVE  [Store!Next]_(Store!vars)
<1>1. CASE LoginAccepted(r)
  <2>1. uuid[r] \in Uuids /\ Store!Upsert(uuid[r], FALSE)
    BY <1>1 DEF LoginAccepted, IInv, ConfirmPath
  <2>2. Store!Operations(uuid[r])
    BY <2>1 DEF Store!Operations
  <2> QED BY <2>1, <2>2 DEF Store!Next
<1>2. CASE Finish(r)
  <2>1. uuid[r] \in Uuids /\ Store!DestroyHget(r, uuid[r])
    BY <1>2 DEF Finish, IInv, ConfirmPath
  <2>2. Store!Destroying(r)
    BY <2>1 DEF Store!Destroying
  <2> QED BY <2>2 DEF Store!Next
<1>3. CASE Destroying(r) \/ DestroyFails(r)
  <2>1. Store!Destroying(r)
    BY <1>3 DEF Destroying, DestroyFails, Store!Destroying
  <2> QED BY <2>1 DEF Store!Next
<1>4. CASE \/ Details(r) \/ ClientFound(r) \/ LoginStoreFails(r) \/ Rendered(r)
           \/ LoginRefused(r) \/ FindRecord(r) \/ Finished(r) \/ Fails(r)
  <2>1. Untouched
    BY <1>4 DEF Details, ClientFound, LoginStoreFails, Rendered, LoginRefused,
       FindRecord, Finished, Fails
  <2> QED BY <2>1 DEF Untouched, storeVars, Store!vars
<1> QED BY <1>1, <1>2, <1>3, <1>4 DEF Step

LEMMA StepImplements == IInv /\ [Next]_vars => [Store!Next]_(Store!vars)
<1> SUFFICES ASSUME IInv, [Next]_vars PROVE [Store!Next]_(Store!vars)
    OBVIOUS
<1>1. CASE \E r \in Requests : Arrives(r) \/ Hangs(r)
    BY <1>1 DEF Arrives, Receive, Hangs, Untouched, storeVars, Store!vars
<1>2. CASE \E r \in Requests : Step(r) \/ Destroying(r) \/ DestroyFails(r)
    BY <1>2, RequestImplements
<1>3. CASE Crash
    BY <1>3 DEF Crash, storeVars, Store!vars, Store!Next
<1>4. CASE UNCHANGED vars
    BY <1>4 DEF vars, storeVars, Store!vars
<1> QED BY <1>1, <1>2, <1>3, <1>4 DEF Next

(* The routes use the Redis adapter as it is specified: whatever they do   *)
(* without awaiting it, restarts included, is a behaviour of RedisStore.   *)
THEOREM RoutesImplementStore == Spec => Store!Spec
<1>1. Init => Store!Init
    BY DEF Init
<1> QED BY <1>1, StepImplements, IInvHolds, PTL DEF Spec, Store!Spec

(* A destroyed interaction is not found again before the next login.       *)
THEOREM SpentStaysSpentHolds == Spec => []SpentStaysSpent
<1>1. IInv => SpentStaysSpent
    BY DEF IInv
<1> QED BY <1>1, IInvHolds, PTL
=============================================================================
