------------------------- MODULE MemoryStoreProofs --------------------------
(***************************************************************************)
(* The memory adapter implements the storage contract, for any records and *)
(* grants.                                                                 *)
(***************************************************************************)
EXTENDS MemoryStore, TLAPS

IInv == TypeOK /\ GrantListExact

LEMMA InitIInv == Init => IInv
BY DEF Init, IInv, TypeOK, GrantListExact

LEMMA StepIInv ==
    ASSUME IInv, [Next]_vars
    PROVE  IInv'
<1> USE GrantAssumption
<1>1. ASSUME NEW i \in Ids, Upsert(i) PROVE IInv'
  <2>1. TypeOK'
    BY <1>1 DEF IInv, TypeOK, Upsert, Pushed
  <2>2. GrantListExact'
    BY <1>1 DEF IInv, TypeOK, GrantListExact, Upsert, Pushed
  <2> QED BY <2>1, <2>2 DEF IInv
<1>2. ASSUME NEW i \in Ids, Consume(i) PROVE IInv'
  BY <1>2 DEF IInv, TypeOK, GrantListExact, Consume
<1>3. ASSUME NEW i \in Ids, Destroy(i) PROVE IInv'
  BY <1>3 DEF IInv, TypeOK, GrantListExact, Destroy
<1>4. ASSUME NEW i \in Ids, Expire(i) PROVE IInv'
  BY <1>4 DEF IInv, TypeOK, GrantListExact, Expire
<1>5. CASE UNCHANGED vars
  BY <1>5 DEF IInv, TypeOK, GrantListExact, vars
<1> QED BY <1>1, <1>2, <1>3, <1>4, <1>5 DEF Next

THEOREM IInvHolds == Spec => []IInv
<1>1. IInv /\ [Next]_vars => IInv'
  BY StepIInv
<1> QED BY InitIInv, <1>1, PTL DEF Spec

(* Records and grant lists keep their types: no list grows for a record    *)
(* without a grant.                                                        *)
THEOREM TypeCorrect == Spec => []TypeOK
BY IInvHolds, PTL DEF IInv

(* The grant lists cover the stored records and nothing foreign.           *)
THEOREM GrantListExactHolds == Spec => []GrantListExact
BY IInvHolds, PTL DEF IInv

(* The keys that destroy follows are the stored records of the same grant. *)
LEMMA DestroyedAreKin ==
    ASSUME IInv, NEW i \in Ids, storage[i] # "absent",
           NEW j \in Ids, storage[j] # "absent"
    PROVE  j \in Contract!Kin(i) <=> j = i \/ j \in Listed(i)
BY GrantAssumption DEF IInv, TypeOK, GrantListExact, Listed, Contract!Kin

(* Every step of the memory adapter is a step of the contract.             *)
THEOREM MemoryImplementsContract == Spec => ImplementsContract
<1>1. Init => Contract!Init
  BY DEF Init, Contract!Init
<1>2. ASSUME IInv, [Next]_vars
      PROVE  [Contract!Next]_storage
  <2>1. ASSUME NEW i \in Ids, Upsert(i) PROVE Contract!Next
    BY <2>1 DEF Upsert, Contract!Next, Contract!Upsert
  <2>2. ASSUME NEW i \in Ids, Consume(i) PROVE Contract!Next
    BY <2>2 DEF Consume, Contract!Next, Contract!Consume
  <2>3. ASSUME NEW i \in Ids, Destroy(i) PROVE Contract!Next
    <3>1. \A j \in Ids : j \in Contract!Kin(i) \/ storage[j] = "absent"
                           <=> j = i \/ j \in Listed(i) \/ storage[j] = "absent"
      BY <1>2, <2>3, DestroyedAreKin DEF Destroy
    <3>2. storage' = [j \in Ids |-> IF j \in Contract!Kin(i) THEN "absent"
                                    ELSE storage[j]]
      BY <2>3, <3>1 DEF Destroy
    <3> QED BY <2>3, <3>2 DEF Destroy, Contract!Next, Contract!Destroy
  <2>4. ASSUME NEW i \in Ids, Expire(i) PROVE Contract!Next
    BY <2>4 DEF Expire, Contract!Next, Contract!Expire
  <2>5. CASE UNCHANGED vars
    BY <2>5 DEF vars
  <2> QED BY <1>2, <2>1, <2>2, <2>3, <2>4, <2>5 DEF Next
<1> QED BY <1>1, <1>2, IInvHolds, PTL DEF Spec, ImplementsContract, Contract!Spec
=============================================================================
