--------------------------- MODULE MCMemoryStore ----------------------------
(* MemoryStore with two grants of two tokens each and a record without one. *)
EXTENDS MemoryStore

CONSTANTS t1, t2, t3, t4, s1, g1, g2

Keys == {t1, t2, t3, t4, s1}
GrantIds == {g1, g2}
Issued == [i \in Keys |-> IF i \in {t1, t2} THEN g1
                          ELSE IF i \in {t3, t4} THEN g2 ELSE NoGrant]
=============================================================================
