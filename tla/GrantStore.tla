----------------------------- MODULE GrantStore -----------------------------
(***************************************************************************)
(* What a storage adapter owes to the OpenID provider (the interface that  *)
(* provider/adapters/my_adapter.js lays down): a record is stored, may be  *)
(* consumed once stored, may expire, and destroying one record removes all *)
(* the records issued under the same grant in one go.                      *)
(***************************************************************************)
CONSTANTS Ids,      \* keys, <model name>:<id>
          Grants,   \* grant ids
          NoGrant,  \* of a record that belongs to no grant
          GrantOf   \* the grantId of each record's payload; ids are random
                    \* and a record keeps the grant it was issued under

VARIABLE state  \* what a find of each id tells

Kin(i) == {i} \cup {j \in Ids : GrantOf[j] # NoGrant /\ GrantOf[j] = GrantOf[i]}

Init == state = [i \in Ids |-> "absent"]

Upsert(i) == state' = [state EXCEPT ![i] = "live"]

Consume(i) == /\ state[i] # "absent"
              /\ state' = [state EXCEPT ![i] = "consumed"]

Destroy(i) == /\ state[i] # "absent"
              /\ state' = [j \in Ids |-> IF j \in Kin(i) THEN "absent"
                                         ELSE state[j]]

Expire(i) == state' = [state EXCEPT ![i] = "absent"]

Next == \E i \in Ids : Upsert(i) \/ Consume(i) \/ Destroy(i) \/ Expire(i)

Spec == Init /\ [][Next]_state
=============================================================================
