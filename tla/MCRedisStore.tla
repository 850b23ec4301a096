---------------------------- MODULE MCRedisStore ----------------------------
(* RedisStore with two tokens of one grant, one of another and a dumped    *)
(* record (a session, which carries no grantId).                           *)
EXTENDS RedisStore, TLC

CONSTANTS t1, t2, t3, s1, g1, g2, p1, p2

Keys == {t1, t2, t3, s1}
GrantIds == {g1, g2}
Issued == [i \in Keys |-> IF i \in {t1, t2} THEN g1
                          ELSE IF i = t3 THEN g2 ELSE NoGrant]
Sessions == {s1}
TwoDestroys == {p1, p2}

(* The two tokens of one grant, and the destroys, are interchangeable.     *)
Symmetry == Permutations({t1, t2}) \cup Permutations(TwoDestroys)

(* None of the properties checked, but for TypeOK, reads the history        *)
(* variable gone, and no guard does.                                       *)
WithoutGone == <<hash, ttl, list, stage, target, grant, tokens, owed>>
=============================================================================
