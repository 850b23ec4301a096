----------------------------- MODULE RedisStore -----------------------------
(***************************************************************************)
(* provider/adapters/eduidRedis.js: records as Redis hashes and, under     *)
(* grant:<grantId>, the list of keys issued under each grant.  One client  *)
(* connection executes the commands in the order they are issued, so a     *)
(* command takes effect at once, but destroy awaits three of them and any  *)
(* other operation can run in between.  The Node process can crash, or a   *)
(* command fail, between two commands; what Redis holds stays.             *)
(***************************************************************************)
CONSTANTS Ids,      \* keys, <model name>:<id>
          Grants,   \* grant ids
          NoGrant,  \* of a record without a grantId
          GrantOf,  \* the grantId of each record's payload
          Dumped,   \* keys of Client, Session, Interaction, ConfirmationKeys
          Procs,    \* concurrent calls of destroy
          NoId      \* no key

ASSUME StoreAssumption == /\ NoGrant \notin Grants
                          /\ GrantOf \in [Ids -> Grants \cup {NoGrant}]
                          /\ Dumped \subseteq Ids
                          /\ NoId \notin Ids

VARIABLES hash,   \* the fields of each hash; {} when the key does not exist
          ttl,    \* keys with an expiry
          list,   \* keys on each grant's list; never trimmed, never expired
          stage,  \* where each destroy is suspended
          target, \* the id it destroys
          grant,  \* the grantId that hget returned
          tokens, \* the keys that lrange returned
          owed,   \* history: the records this destroy must have removed
          gone    \* history: ids destroyed and not stored anew since

vars == <<hash, ttl, list, stage, target, grant, tokens, owed, gone>>
destroyVars == <<stage, target, grant, tokens>>

Fields == {"dump", "payload", "grantId", "consumed"}
Stages == {"idle", "hget", "lrange", "del"}

TypeOK == /\ hash \in [Ids -> SUBSET Fields]
          /\ ttl \subseteq Ids
          /\ list \in [Grants -> SUBSET Ids]
          /\ stage \in [Procs -> Stages]
          /\ target \in [Procs -> Ids \cup {NoId}]
          /\ grant \in [Procs -> Grants \cup {NoGrant}]
          /\ tokens \in [Procs -> SUBSET Ids]
          /\ owed \in [Procs -> SUBSET Ids]
          /\ gone \subseteq Ids

Init == /\ hash = [i \in Ids |-> {}]
        /\ ttl = {}
        /\ list = [g \in Grants |-> {}]
        /\ stage = [p \in Procs |-> "idle"]
        /\ target = [p \in Procs |-> NoId]
        /\ grant = [p \in Procs |-> NoGrant]
        /\ tokens = [p \in Procs |-> {}]
        /\ owed = [p \in Procs |-> {}]
        /\ gone = {}

(* A deep record is stored as one JSON field, in which a grantId is not    *)
(* seen; a flat one field by field.                                        *)
Stored(i) == IF i \in Dumped THEN {"dump"}
             ELSE IF GrantOf[i] = NoGrant THEN {"payload"}
             ELSE {"payload", "grantId"}

(* find: what the caller is told of a key.  A missing key is reported as   *)
(* {destroyed: true}, a dumped one without its `consumed` mark.            *)
FindResult(i) == IF hash[i] = {} THEN "destroyed"
                 ELSE IF "dump" \in hash[i] THEN "live"
                 ELSE IF "consumed" \in hash[i] THEN "consumed" ELSE "live"

Present(i) == hash[i] # {}
Released(i) == [p \in Procs |-> owed[p] \ {i}]

(* upsert: one MULTI of HMSET, EXPIRE if there is an expiry, and RPUSH if  *)
(* the stored fields have a grantId.  HMSET merges: an earlier `consumed`  *)
(* field and an earlier expiry stay.                                       *)
UpsertUnlisted(i, expires) ==  \* mutant: the push belongs to new keys only
    /\ hash' = [hash EXCEPT ![i] = @ \cup Stored(i)]
    /\ ttl' = IF expires THEN ttl \cup {i} ELSE ttl
    /\ list' = IF "grantId" \in Stored(i) /\ list[GrantOf[i]] = {}
               THEN [list EXCEPT ![GrantOf[i]] = {i}] ELSE list
    /\ owed' = Released(i)
    /\ gone' = gone \ {i}
    /\ UNCHANGED destroyVars

UpsertDumpListed(i, expires) ==  \* mutant: reads the grantId of the payload
    /\ hash' = [hash EXCEPT ![i] = @ \cup Stored(i)]
    /\ ttl' = IF expires THEN ttl \cup {i} ELSE ttl
    /\ list' = [g \in Grants \cup {GrantOf[i]} |->
                   {j \in Ids : (g \in Grants /\ j \in list[g])
                                \/ (g = GrantOf[i] /\ j = i)}]
    /\ owed' = Released(i)
    /\ gone' = gone \ {i}
    /\ UNCHANGED destroyVars

Upsert(i, expires) ==
    /\ hash' = [hash EXCEPT ![i] = @ \cup Stored(i)]
    /\ ttl' = IF expires THEN ttl \cup {i} ELSE ttl
    /\ list' = IF "grantId" \in Stored(i)
               THEN [list EXCEPT ![GrantOf[i]] = @ \cup {i}] ELSE list
    /\ owed' = Released(i)
    /\ gone' = gone \ {i}
    /\ UNCHANGED destroyVars

(* consume: one HSET, which creates the hash when it does not exist.       *)
Consume(i) ==
    /\ hash' = [hash EXCEPT ![i] = @ \cup {"consumed"}]
    /\ owed' = IF Present(i) THEN owed ELSE Released(i)
    /\ UNCHANGED <<ttl, list, gone, destroyVars>>

(* The server drops a key whose expiry has passed.                         *)
Expire(i) ==
    /\ i \in ttl
    /\ hash' = [hash EXCEPT ![i] = {}]
    /\ ttl' = ttl \ {i}
    /\ owed' = Released(i)
    /\ UNCHANGED <<list, gone, destroyVars>>

-----------------------------------------------------------------------------
(* destroy, line 60: HGET of the grantId.  The records of that grant that  *)
(* are stored now are the ones this destroy owes the removal of.           *)
Kin(i) == {j \in Ids : "grantId" \in hash[j] /\ GrantOf[j] = GrantOf[i]}

DestroyHget(p, i) ==
    /\ stage[p] = "idle"
    /\ stage' = [stage EXCEPT ![p] = "hget"]
    /\ target' = [target EXCEPT ![p] = i]
    /\ grant' = [grant EXCEPT ![p] = IF "grantId" \in hash[i] THEN GrantOf[i]
                                     ELSE NoGrant]
    /\ owed' = [owed EXCEPT ![p] = IF "grantId" \in hash[i] THEN Kin(i) ELSE {}]
    /\ UNCHANGED <<hash, ttl, list, tokens, gone>>

(* line 61: LRANGE of the grant's list; grant:null holds nothing.          *)
ListedAll(g) ==  \* mutant: one list for every grant
    UNION {list[h] : h \in Grants}

Listed(g) == IF g = NoGrant THEN {} ELSE list[g]

DestroyLrange(p) ==
    /\ stage[p] = "hget"
    /\ stage' = [stage EXCEPT ![p] = "lrange"]
    /\ tokens' = [tokens EXCEPT ![p] = Listed(grant[p])]
    /\ UNCHANGED <<hash, ttl, list, target, grant, owed, gone>>

(* line 63: the DELs of all listed keys are issued together.               *)
Removed(ids) == /\ hash' = [i \in Ids |-> IF i \in ids THEN {} ELSE hash[i]]
                /\ ttl' = ttl \ ids

DestroyDelTokensNone(p) ==  \* mutant: only the destroyed record is deleted
    /\ stage[p] = "lrange"
    /\ stage' = [stage EXCEPT ![p] = "del"]
    /\ UNCHANGED <<hash, ttl, list, target, grant, tokens, owed, gone>>

DestroyDelTokens(p) ==
    /\ stage[p] = "lrange"
    /\ stage' = [stage EXCEPT ![p] = "del"]
    /\ Removed(tokens[p])
    /\ UNCHANGED <<list, target, grant, tokens, owed, gone>>

(* line 64: the DEL of the record itself, not awaited; destroy resolves.   *)
Reset(p) == /\ stage' = [stage EXCEPT ![p] = "idle"]
            /\ target' = [target EXCEPT ![p] = NoId]
            /\ grant' = [grant EXCEPT ![p] = NoGrant]
            /\ tokens' = [tokens EXCEPT ![p] = {}]
            /\ owed' = [owed EXCEPT ![p] = {}]

DestroyDelKey(p) ==
    /\ stage[p] = "del"
    /\ Removed({target[p]})
    /\ gone' = gone \cup {target[p]}
    /\ Reset(p)
    /\ UNCHANGED list

(* A command of this destroy fails: the promise rejects (for the last,     *)
(* un-awaited DEL it resolves all the same), and what was executed before, *)
(* some of the DELs included, stays executed.                              *)
DestroyFails(p) ==
    /\ \/ stage[p] \in {"hget", "del"} /\ UNCHANGED <<hash, ttl>>
       \/ stage[p] = "lrange" /\ \E ids \in SUBSET tokens[p] : Removed(ids)
    /\ Reset(p)
    /\ UNCHANGED <<list, gone>>

(* The Node process ends: every destroy under way is forgotten.            *)
Crash ==
    /\ \E p \in Procs : stage[p] # "idle"
    /\ stage' = [p \in Procs |-> "idle"]
    /\ target' = [p \in Procs |-> NoId]
    /\ grant' = [p \in Procs |-> NoGrant]
    /\ tokens' = [p \in Procs |-> {}]
    /\ owed' = [p \in Procs |-> {}]
    /\ UNCHANGED <<hash, ttl, list, gone>>

Operations(i) == \/ \E expires \in BOOLEAN : Upsert(i, expires)
                 \/ Consume(i)
                 \/ Expire(i)

Destroying(p) == \/ \E i \in Ids : DestroyHget(p, i)
                 \/ DestroyLrange(p)
                 \/ DestroyDelTokens(p)
                 \/ DestroyDelKey(p)
                 \/ DestroyFails(p)

Next == \/ \E i \in Ids : Operations(i)
        \/ \E p \in Procs : Destroying(p)
        \/ Crash

Spec == Init /\ [][Next]_vars

-----------------------------------------------------------------------------
(* A stored record with a grantId is on that grant's list, whatever was    *)
(* expired, consumed, merged or destroyed in the meantime: a later destroy *)
(* finds it (upsert, lines 114-118, against destroy, line 61).             *)
GrantListCovers ==
    \A i \in Ids : "grantId" \in hash[i] => i \in list[GrantOf[i]]

(* The records that were stored under the grant when destroy began are     *)
(* gone when it resolves, unless somebody stored them anew: operations     *)
(* between its awaits do not make it miss one (lines 55-65).               *)
DestroyRemovesOwed ==
    [][\A p \in Procs : DestroyDelKey(p)
          => \A i \in owed[p] \cup {target[p]} : ~Present(i)']_vars

(* A record disappears only by its own expiry or by a destroy of a record  *)
(* of its own grant (or of itself): destroy never reaches foreign tokens.  *)
OnlyKinRemoved ==
    [][\A i \in Ids : Present(i) /\ ~Present(i)' =>
          \/ Expire(i)
          \/ \E p \in Procs :
                /\ target[p] # NoId
                /\ \/ i = target[p]
                   \/ (GrantOf[i] # NoGrant /\ GrantOf[i] = GrantOf[target[p]])]_vars

(* my_adapter.js:96-97: future finds of a destroyed id tell that it is     *)
(* gone.  Then it stays gone until it is stored anew.                      *)
DestroyedStaysDestroyed == \A i \in gone : FindResult(i) = "destroyed"
=============================================================================
