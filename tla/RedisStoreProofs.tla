-------------------------- MODULE RedisStoreProofs --------------------------
(***************************************************************************)
(* What the Redis adapter's destroy achieves although it is not atomic,    *)
(* for any number of records, grants and concurrent destroys.              *)
(***************************************************************************)
EXTENDS RedisStore, TLAPS

(* A list holds keys of its own grant only.                                *)
ListsOwn == \A g \in Grants : \A i \in list[g] : GrantOf[i] = g

(* What a suspended destroy has read is about the grant of its target.     *)
ReadsOwn ==
    \A p \in Procs :
        /\ stage[p] # "idle" => target[p] \in Ids
        /\ grant[p] # NoGrant => /\ grant[p] \in Grants
                                 /\ target[p] \in Ids
                                 /\ GrantOf[target[p]] = grant[p]
        /\ stage[p] \in {"idle", "hget"} => tokens[p] = {}
        /\ tokens[p] # {} => grant[p] # NoGrant
        /\ \A i \in tokens[p] : GrantOf[i] = grant[p]

(* Where the records owed to a destroy are, stage by stage: on the list it *)
(* will read, among the keys it has read, deleted.                         *)
OwedTracked ==
    \A p \in Procs :
        /\ stage[p] = "hget" /\ owed[p] # {} => grant[p] # NoGrant
        /\ stage[p] = "hget" => \A i \in owed[p] : i \in list[grant[p]]
        /\ stage[p] = "lrange" => owed[p] \subseteq tokens[p]
        /\ stage[p] = "del" => \A i \in owed[p] : ~Present(i)

(* The inductive invariant.                                                *)
IInv == TypeOK /\ GrantListCovers /\ ListsOwn /\ ReadsOwn /\ OwedTracked

(* A record has a grantId field only if its payload has one.               *)
GrantIdMeansGrant == \A i \in Ids : "grantId" \in hash[i] => GrantOf[i] \in Grants
-----------------------------------------------------------------------------
LEMMA InitIInv == Init => IInv /\ GrantIdMeansGrant
BY StoreAssumption DEF Init, IInv, TypeOK, GrantListCovers, ListsOwn, ReadsOwn,
   OwedTracked, GrantIdMeansGrant, Stages

LEMMA UpsertStep ==
    ASSUME IInv, GrantIdMeansGrant, NEW i \in Ids, NEW expires \in BOOLEAN,
           Upsert(i, expires)
    PROVE  IInv' /\ GrantIdMeansGrant'
<1> USE StoreAssumption
<1>1. /\ Stored(i) \subseteq Fields
      /\ "grantId" \in Stored(i) => GrantOf[i] \in Grants
    BY DEF Stored, Fields
<1>2. /\ hash' = [hash EXCEPT ![i] = @ \cup Stored(i)]
      /\ ttl' \subseteq Ids
      /\ list' \in [Grants -> SUBSET Ids]
      /\ \A g \in Grants : list[g] \subseteq list'[g]
      /\ \A g \in Grants : \A j \in list'[g] : j \in list[g] \/ GrantOf[j] = g
      /\ "grantId" \in Stored(i) => i \in list'[GrantOf[i]]
    BY <1>1 DEF Upsert, IInv, TypeOK
<1>3. /\ owed' = [p \in Procs |-> owed[p] \ {i}]
      /\ UNCHANGED <<stage, target, grant, tokens>>
      /\ gone' \subseteq Ids
    BY DEF Upsert, Released, destroyVars, IInv, TypeOK
<1>4. TypeOK'
    BY <1>1, <1>2, <1>3 DEF IInv, TypeOK
<1>5. GrantListCovers' /\ GrantIdMeansGrant'
    BY <1>1, <1>2 DEF IInv, TypeOK, GrantListCovers, GrantIdMeansGrant
<1>6. ListsOwn'
    BY <1>2 DEF IInv, ListsOwn
<1>7. ReadsOwn'
    BY <1>3 DEF IInv, ReadsOwn
<1>8. OwedTracked'
    BY <1>2, <1>3 DEF IInv, TypeOK, ReadsOwn, OwedTracked, Present
<1> QED BY <1>4, <1>5, <1>6, <1>7, <1>8 DEF IInv

LEMMA ConsumeStep ==
    ASSUME IInv, GrantIdMeansGrant, NEW i \in Ids, Consume(i)
    PROVE  IInv' /\ GrantIdMeansGrant'
<1> USE StoreAssumption
<1>1. /\ hash' = [hash EXCEPT ![i] = @ \cup {"consumed"}]
      /\ UNCHANGED <<ttl, list, gone, stage, target, grant, tokens>>
      /\ \A j \in Ids : "grantId" \in hash'[j] => "grantId" \in hash[j]
    BY DEF Consume, destroyVars, IInv, TypeOK
<1>2. /\ owed' \in [Procs -> SUBSET Ids]
      /\ \A p \in Procs : owed'[p] \subseteq owed[p]
      /\ \A p \in Procs : ~Present(i) => i \notin owed'[p]
    BY DEF Consume, Released, IInv, TypeOK
<1>3. TypeOK'
    BY <1>1, <1>2 DEF IInv, TypeOK, Fields
<1>4. GrantListCovers' /\ GrantIdMeansGrant' /\ ListsOwn'
    BY <1>1 DEF IInv, GrantListCovers, GrantIdMeansGrant, ListsOwn
<1>5. ReadsOwn'
    BY <1>1 DEF IInv, ReadsOwn
<1>6. OwedTracked'
  <2> SUFFICES ASSUME NEW p \in Procs, stage[p] = "del", NEW j \in owed'[p]
               PROVE  ~Present(j)'
    BY <1>1, <1>2 DEF IInv, OwedTracked
  <2>1. j \in Ids /\ ~Present(j) /\ j # i
    BY <1>2 DEF IInv, TypeOK, OwedTracked
  <2> QED BY <1>1, <2>1 DEF IInv, TypeOK, Present
<1> QED BY <1>3, <1>4, <1>5, <1>6 DEF IInv

(* Whatever deletes keys and forgets nothing owed keeps the invariant.     *)
LEMMA RemovalStep ==
    ASSUME IInv, GrantIdMeansGrant,
           hash' \in [Ids -> SUBSET Fields], ttl' \subseteq Ids, gone' \subseteq Ids,
           \A j \in Ids : hash'[j] = {} \/ hash'[j] = hash[j],
           UNCHANGED list,
           owed' \in [Procs -> SUBSET Ids],
           stage' \in [Procs -> Stages],
           target' \in [Procs -> Ids \cup {NoId}],
           grant' \in [Procs -> Grants \cup {NoGrant}],
           tokens' \in [Procs -> SUBSET Ids],
           \A p \in Procs :
              \/ /\ stage'[p] = stage[p] /\ target'[p] = target[p]
                 /\ grant'[p] = grant[p] /\ tokens'[p] = tokens[p]
                 /\ owed'[p] \subseteq owed[p]
              \/ /\ stage[p] = "lrange" /\ stage'[p] = "del"
                 /\ target'[p] = target[p]
                 /\ grant'[p] = grant[p] /\ tokens'[p] = tokens[p]
                 /\ owed'[p] = owed[p]
                 /\ \A j \in tokens[p] : hash'[j] = {}
              \/ /\ stage'[p] = "idle" /\ grant'[p] = NoGrant
                 /\ tokens'[p] = {} /\ owed'[p] = {}
    PROVE  IInv' /\ GrantIdMeansGrant'
<1> USE StoreAssumption
<1>1. TypeOK'
    BY DEF IInv, TypeOK
<1>2. GrantListCovers' /\ GrantIdMeansGrant' /\ ListsOwn'
    BY DEF IInv, GrantListCovers, GrantIdMeansGrant, ListsOwn
<1>3. ReadsOwn'
    BY DEF IInv, ReadsOwn
<1>4. OwedTracked'
    BY DEF IInv, TypeOK, OwedTracked, Present
<1> QED BY <1>1, <1>2, <1>3, <1>4 DEF IInv

LEMMA ExpireStep ==
    ASSUME IInv, GrantIdMeansGrant, NEW i \in Ids, Expire(i)
    PROVE  IInv' /\ GrantIdMeansGrant'
<1>1. /\ hash' = [hash EXCEPT ![i] = {}]
      /\ ttl' \subseteq Ids
      /\ owed' = [p \in Procs |-> owed[p] \ {i}]
      /\ UNCHANGED <<list, gone, stage, target, grant, tokens>>
    BY DEF Expire, Released, destroyVars, IInv, TypeOK
<1>2. /\ hash' \in [Ids -> SUBSET Fields]
      /\ owed' \in [Procs -> SUBSET Ids]
      /\ \A j \in Ids : hash'[j] = {} \/ hash'[j] = hash[j]
    BY <1>1 DEF IInv, TypeOK
<1> QED BY <1>1, <1>2, RemovalStep DEF IInv, TypeOK

LEMMA DestroyHgetStep ==
    ASSUME IInv, GrantIdMeansGrant, NEW p \in Procs, NEW i \in Ids,
           DestroyHget(p, i)
    PROVE  IInv' /\ GrantIdMeansGrant'
<1> USE StoreAssumption
<1>1. /\ UNCHANGED <<hash, ttl, list, tokens, gone>>
      /\ stage' = [stage EXCEPT ![p] = "hget"]
      /\ target' = [target EXCEPT ![p] = i]
    BY DEF DestroyHget
<1>2. /\ grant'[p] = IF "grantId" \in hash[i] THEN GrantOf[i] ELSE NoGrant
      /\ owed'[p] = IF "grantId" \in hash[i] THEN Kin(i) ELSE {}
      /\ \A q \in Procs : q # p => grant'[q] = grant[q] /\ owed'[q] = owed[q]
    BY DEF DestroyHget, IInv, TypeOK
<1>3. "grantId" \in hash[i] => GrantOf[i] \in Grants
    BY DEF GrantIdMeansGrant
<1>4. Kin(i) \subseteq Ids
    BY DEF Kin
<1>5. TypeOK'
    BY <1>1, <1>3, <1>4 DEF IInv, TypeOK, DestroyHget, Stages
<1>6. GrantListCovers' /\ GrantIdMeansGrant' /\ ListsOwn'
    BY <1>1 DEF IInv, GrantListCovers, GrantIdMeansGrant, ListsOwn
<1>7. tokens[p] = {}
    BY DEF DestroyHget, IInv, ReadsOwn
<1>8. ReadsOwn'
    BY <1>1, <1>2, <1>3, <1>7 DEF IInv, TypeOK, ReadsOwn
<1>9. OwedTracked'
    BY <1>1, <1>2, <1>3 DEF IInv, TypeOK, GrantListCovers, OwedTracked, Kin,
       Present
<1> QED BY <1>5, <1>6, <1>8, <1>9 DEF IInv

LEMMA DestroyLrangeStep ==
    ASSUME IInv, GrantIdMeansGrant, NEW p \in Procs, DestroyLrange(p)
    PROVE  IInv' /\ GrantIdMeansGrant'
<1> USE StoreAssumption
<1>1. /\ UNCHANGED <<hash, ttl, list, target, grant, owed, gone>>
      /\ stage[p] = "hget"
      /\ stage' = [stage EXCEPT ![p] = "lrange"]
      /\ tokens' = [tokens EXCEPT ![p] = Listed(grant[p])]
    BY DEF DestroyLrange
<1>2. /\ grant[p] = NoGrant => Listed(grant[p]) = {}
      /\ grant[p] # NoGrant => /\ grant[p] \in Grants
                               /\ Listed(grant[p]) = list[grant[p]]
    BY DEF Listed, IInv, TypeOK
<1>3. TypeOK'
    BY <1>1, <1>2 DEF IInv, TypeOK, Stages
<1>4. GrantListCovers' /\ GrantIdMeansGrant' /\ ListsOwn'
    BY <1>1 DEF IInv, GrantListCovers, GrantIdMeansGrant, ListsOwn
<1>5. ReadsOwn'
    BY <1>1, <1>2 DEF IInv, TypeOK, ReadsOwn, ListsOwn
<1>6. OwedTracked'
    BY <1>1, <1>2 DEF IInv, TypeOK, OwedTracked, Present
<1> QED BY <1>3, <1>4, <1>5, <1>6 DEF IInv

LEMMA RemovedKeys ==
    ASSUME IInv, NEW ids \in SUBSET Ids, Removed(ids)
    PROVE  /\ hash' \in [Ids -> SUBSET Fields]
           /\ ttl' \subseteq Ids
           /\ \A j \in Ids : hash'[j] = {} \/ hash'[j] = hash[j]
           /\ \A j \in ids : hash'[j] = {}
           /\ \A j \in Ids \ ids : hash'[j] = hash[j]
BY DEF Removed, IInv, TypeOK

LEMMA ResetProc ==
    ASSUME IInv, NEW p \in Procs, Reset(p)
    PROVE  /\ owed' \in [Procs -> SUBSET Ids]
           /\ stage' \in [Procs -> Stages]
           /\ target' \in [Procs -> Ids \cup {NoId}]
           /\ grant' \in [Procs -> Grants \cup {NoGrant}]
           /\ tokens' \in [Procs -> SUBSET Ids]
           /\ stage'[p] = "idle" /\ grant'[p] = NoGrant
           /\ tokens'[p] = {} /\ owed'[p] = {}
           /\ \A q \in Procs : q # p =>
                 /\ stage'[q] = stage[q] /\ target'[q] = target[q]
                 /\ grant'[q] = grant[q] /\ tokens'[q] = tokens[q]
                 /\ owed'[q] = owed[q]
BY DEF Reset, IInv, TypeOK, Stages

LEMMA DestroyDelTokensStep ==
    ASSUME IInv, GrantIdMeansGrant, NEW p \in Procs, DestroyDelTokens(p)
    PROVE  IInv' /\ GrantIdMeansGrant'
<1>1. /\ tokens[p] \in SUBSET Ids
      /\ Removed(tokens[p])
      /\ stage[p] = "lrange"
      /\ stage' = [stage EXCEPT ![p] = "del"]
      /\ UNCHANGED <<list, target, grant, tokens, owed, gone>>
    BY DEF DestroyDelTokens, IInv, TypeOK
<1>2. stage' \in [Procs -> Stages]
    BY <1>1 DEF IInv, TypeOK, Stages
<1>3. /\ hash' \in [Ids -> SUBSET Fields]
      /\ ttl' \subseteq Ids
      /\ \A j \in Ids : hash'[j] = {} \/ hash'[j] = hash[j]
      /\ \A j \in tokens[p] : hash'[j] = {}
    BY <1>1, RemovedKeys
<1> QED BY <1>1, <1>2, <1>3, RemovalStep DEF IInv, TypeOK

LEMMA DestroyDelKeyStep ==
    ASSUME IInv, GrantIdMeansGrant, NEW p \in Procs, DestroyDelKey(p)
    PROVE  IInv' /\ GrantIdMeansGrant'
<1>1. /\ target[p] \in Ids
      /\ Removed({target[p]})
      /\ Reset(p)
      /\ gone' = gone \cup {target[p]}
      /\ UNCHANGED list
    BY DEF DestroyDelKey, IInv, ReadsOwn
<1>2. /\ hash' \in [Ids -> SUBSET Fields]
      /\ ttl' \subseteq Ids
      /\ \A j \in Ids : hash'[j] = {} \/ hash'[j] = hash[j]
    BY <1>1, RemovedKeys
<1>3. gone' \subseteq Ids
    BY <1>1 DEF IInv, TypeOK
<1> QED BY <1>1, <1>2, <1>3, ResetProc, RemovalStep

LEMMA DestroyFailsStep ==
    ASSUME IInv, GrantIdMeansGrant, NEW p \in Procs, DestroyFails(p)
    PROVE  IInv' /\ GrantIdMeansGrant'
<1>1. Reset(p) /\ UNCHANGED <<list, gone>>
    BY DEF DestroyFails
<1>2. \/ UNCHANGED <<hash, ttl>>
      \/ \E ids \in SUBSET Ids : Removed(ids)
    BY DEF DestroyFails, IInv, TypeOK
<1>3. /\ hash' \in [Ids -> SUBSET Fields]
      /\ ttl' \subseteq Ids
      /\ \A j \in Ids : hash'[j] = {} \/ hash'[j] = hash[j]
    BY <1>2, RemovedKeys DEF IInv, TypeOK
<1>4. gone' \subseteq Ids
    BY <1>1 DEF IInv, TypeOK
<1> QED BY <1>1, <1>3, <1>4, ResetProc, RemovalStep

LEMMA CrashStep ==
    ASSUME IInv, GrantIdMeansGrant, Crash
    PROVE  IInv' /\ GrantIdMeansGrant'
BY RemovalStep DEF Crash, IInv, TypeOK, Stages

-----------------------------------------------------------------------------
LEMMA StepIInv ==
    ASSUME IInv, GrantIdMeansGrant, [Next]_vars
    PROVE  IInv' /\ GrantIdMeansGrant'
<1>1. ASSUME NEW i \in Ids, Operations(i) PROVE IInv' /\ GrantIdMeansGrant'
  BY <1>1, UpsertStep, ConsumeStep, ExpireStep DEF Operations
<1>2. ASSUME NEW p \in Procs, Destroying(p) PROVE IInv' /\ GrantIdMeansGrant'
  BY <1>2, DestroyHgetStep, DestroyLrangeStep, DestroyDelTokensStep,
     DestroyDelKeyStep, DestroyFailsStep DEF Destroying
<1>3. CASE Crash
  BY <1>3, CrashStep
<1>4. CASE UNCHANGED vars
  BY <1>4 DEF vars, IInv, TypeOK, GrantListCovers, ListsOwn, ReadsOwn,
     OwedTracked, GrantIdMeansGrant, Present
<1> QED BY <1>1, <1>2, <1>3, <1>4 DEF Next

THEOREM IInvHolds == Spec => [](IInv /\ GrantIdMeansGrant)
<1>1. IInv /\ GrantIdMeansGrant /\ [Next]_vars => (IInv /\ GrantIdMeansGrant)'
  BY StepIInv
<1> QED BY InitIInv, <1>1, PTL DEF Spec

(* Every variable keeps its type.                                          *)
THEOREM TypeCorrect == Spec => []TypeOK
BY IInvHolds, PTL DEF IInv

(* Every stored record with a grantId stays on its grant's list.           *)
THEOREM GrantListCoversHolds == Spec => []GrantListCovers
BY IInvHolds, PTL DEF IInv

(* A destroy that runs to its end has removed every record it owed.        *)
THEOREM DestroyRemovesOwedHolds == Spec => DestroyRemovesOwed
<1>1. ASSUME IInv, NEW p \in Procs, DestroyDelKey(p),
             NEW i \in owed[p] \cup {target[p]}
      PROVE  ~Present(i)'
  <2>1. target[p] \in Ids /\ stage[p] = "del" /\ owed[p] \subseteq Ids
    BY <1>1 DEF IInv, TypeOK, ReadsOwn, DestroyDelKey
  <2>2. Removed({target[p]})
    BY <1>1 DEF DestroyDelKey
  <2>3. i \in Ids /\ (i = target[p] \/ hash[i] = {})
    BY <1>1, <2>1 DEF IInv, OwedTracked, Present
  <2> QED BY <2>1, <2>2, <2>3 DEF Removed, Present
<1>2. IInv /\ [Next]_vars =>
        [\A p \in Procs : DestroyDelKey(p)
            => \A i \in owed[p] \cup {target[p]} : ~Present(i)']_vars
  BY <1>1
<1> QED BY <1>2, IInvHolds, PTL DEF Spec, DestroyRemovesOwed

(* Nothing but a record's own expiry or a destroy within its own grant     *)
(* removes it.                                                             *)
THEOREM OnlyKinRemovedHolds == Spec => OnlyKinRemoved
<1> DEFINE Lawful(i) ==
        \/ Expire(i)
        \/ \E p \in Procs :
              /\ target[p] # NoId
              /\ \/ i = target[p]
                 \/ (GrantOf[i] # NoGrant /\ GrantOf[i] = GrantOf[target[p]])
<1>1. ASSUME IInv, NEW p \in Procs, NEW ids \in SUBSET Ids, Removed(ids),
             ids \subseteq tokens[p] \cup {target[p]}, stage[p] # "idle",
             NEW i \in Ids, Present(i), ~Present(i)'
      PROVE  Lawful(i)
  <2>1. i \in ids
    BY <1>1 DEF Removed, Present
  <2>2. target[p] \in Ids /\ target[p] # NoId
    BY <1>1, StoreAssumption DEF IInv, ReadsOwn
  <2>3. i \in tokens[p] => GrantOf[i] # NoGrant /\ GrantOf[i] = GrantOf[target[p]]
    BY <1>1 DEF IInv, ReadsOwn
  <2> QED BY <1>1, <2>1, <2>2, <2>3
<1>2. ASSUME IInv, Next, NEW i \in Ids, Present(i), ~Present(i)'
      PROVE  Lawful(i)
  <2>1. ASSUME NEW j \in Ids, Operations(j) PROVE Lawful(i)
    <3>1. CASE Expire(j)
      BY <1>2, <3>1 DEF Expire, Present, IInv, TypeOK
    <3>2. CASE Consume(j)
      BY <1>2, <3>2 DEF Consume, Present, IInv, TypeOK
    <3>3. CASE \E expires \in BOOLEAN : Upsert(j, expires)
      BY <1>2, <3>3 DEF Upsert, Present, IInv, TypeOK
    <3> QED BY <2>1, <3>1, <3>2, <3>3 DEF Operations
  <2>2. ASSUME NEW p \in Procs, Destroying(p) PROVE Lawful(i)
    <3>1. tokens[p] \in SUBSET Ids
      BY <1>2 DEF IInv, TypeOK
    <3>2. CASE DestroyDelTokens(p)
      BY <1>1, <1>2, <3>1, <3>2 DEF DestroyDelTokens
    <3>3. CASE DestroyDelKey(p)
      <4>1. target[p] \in Ids
        BY <1>2, <3>3 DEF IInv, ReadsOwn, DestroyDelKey
      <4> QED BY <1>1, <1>2, <3>3, <4>1 DEF DestroyDelKey
    <3>4. CASE DestroyFails(p)
      <4>1. CASE UNCHANGED hash
        BY <1>2, <4>1 DEF Present
      <4>2. CASE \E ids \in SUBSET tokens[p] : Removed(ids)
        BY <1>1, <1>2, <3>1, <3>4, <4>2 DEF DestroyFails
      <4> QED BY <3>4, <4>1, <4>2 DEF DestroyFails
    <3>5. CASE UNCHANGED hash
      BY <1>2, <3>5 DEF Present
    <3> QED BY <2>2, <3>2, <3>3, <3>4, <3>5 DEF Destroying, DestroyHget,
            DestroyLrange
  <2>3. CASE Crash
    BY <1>2, <2>3 DEF Crash, Present
  <2> QED BY <1>2, <2>1, <2>2, <2>3 DEF Next
<1>3. IInv /\ [Next]_vars =>
        [\A i \in Ids : Present(i) /\ ~Present(i)' => Lawful(i)]_vars
  BY <1>2
<1> QED BY <1>3, IInvHolds, PTL DEF Spec, OnlyKinRemoved
=============================================================================
