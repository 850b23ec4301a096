---------------------------- MODULE MemoryStore -----------------------------
(***************************************************************************)
(* provider/adapters/memory.js: one LRU map holds the records and, under   *)
(* the key grant:<grantId>, the list of keys issued under each grant.      *)
(* Every operation runs to its end without an await.  The list only grows: *)
(* neither destroy nor expiry takes a key off it.                          *)
(***************************************************************************)
CONSTANTS Ids, Grants, NoGrant, GrantOf

ASSUME GrantAssumption == /\ NoGrant \notin Grants
                          /\ GrantOf \in [Ids -> Grants \cup {NoGrant}]

VARIABLES storage,  \* "absent", or the record with or without `consumed`
          list      \* grant:<grantId>; {} before the first push

vars == <<storage, list>>

TypeOK == /\ storage \in [Ids -> {"absent", "live", "consumed"}]
          /\ list \in [Grants -> SUBSET Ids]

Init == /\ storage = [i \in Ids |-> "absent"]
        /\ list = [g \in Grants |-> {}]

(* The push happens before the record is set; storage.set replaces an      *)
(* earlier record and with it its `consumed` mark.                         *)
PushedOnce(i) ==  \* mutant: an existing list is not pushed to
    IF GrantOf[i] = NoGrant \/ list[GrantOf[i]] # {} THEN list
    ELSE [list EXCEPT ![GrantOf[i]] = {i}]

PushedAlways(i) ==  \* mutant: `if (grantId)` dropped
    [g \in Grants \cup {GrantOf[i]} |->
        {j \in Ids : (g \in DOMAIN list /\ j \in list[g])
                     \/ (g = GrantOf[i] /\ j = i)}]

Pushed(i) == IF GrantOf[i] = NoGrant THEN list
             ELSE [list EXCEPT ![GrantOf[i]] = @ \cup {i}]

Upsert(i) == /\ list' = Pushed(i)
             /\ storage' = [storage EXCEPT ![i] = "live"]

(* On a missing record consume throws and changes nothing.                 *)
ConsumeMissing(i) ==  \* mutant: a missing record is created instead
    /\ storage' = [storage EXCEPT ![i] = "consumed"]
    /\ UNCHANGED list

Consume(i) == /\ storage[i] # "absent"
              /\ storage' = [storage EXCEPT ![i] = "consumed"]
              /\ UNCHANGED list

(* The grant is read from the record before the record is deleted; then    *)
(* every key on the grant's list goes.  A missing record has no grant to   *)
(* follow, and destroying it changes nothing.                              *)
Listed(i) == IF GrantOf[i] = NoGrant THEN {} ELSE list[GrantOf[i]]

Destroy(i) ==
    /\ storage[i] # "absent"
    /\ storage' = [j \in Ids |-> IF j = i \/ j \in Listed(i) THEN "absent"
                                 ELSE storage[j]]
    /\ UNCHANGED list

(* The record's maxAge has passed: storage.get no longer returns it.       *)
Expire(i) == /\ storage[i] # "absent"
             /\ storage' = [storage EXCEPT ![i] = "absent"]
             /\ UNCHANGED list

Next == \E i \in Ids : Upsert(i) \/ Consume(i) \/ Destroy(i) \/ Expire(i)

Spec == Init /\ [][Next]_vars

-----------------------------------------------------------------------------
(* destroy follows the list alone, so every stored record of a grant must  *)
(* be on that grant's list (upsert, lines 70-83), and no other record may  *)
(* be, or destroy would take it along (lines 33-37).                       *)
GrantListExact ==
    /\ \A i \in Ids : storage[i] # "absent" /\ GrantOf[i] # NoGrant
                         => i \in list[GrantOf[i]]
    /\ \A g \in Grants : \A i \in list[g] : GrantOf[i] = g

(* The memory adapter keeps the storage contract: in particular one        *)
(* destroy removes exactly the records of the same grant, atomically.      *)
Contract == INSTANCE GrantStore WITH state <- storage
ImplementsContract == Contract!Spec
=============================================================================
