-------------------------- MODULE MCDirectoryLogin --------------------------
(* Two callers; a login that two entries carry and one that is a wildcard; *)
(* two entries with one id between them.                                   *)
EXTENDS DirectoryLogin, TLC

CONSTANTS c1, c2, u1, u2, u3, svc, la, star, i1, i2

TwoCallers == {c1, c2}
ThreeUsers == {u1, u2, u3}
ServerDirect == {svc}
(* A password opens one of the entries the login selects, no other.        *)
CredentialPairs == {[name |-> la, pass |-> u1], [name |-> star, pass |-> u2]}
TwoUsers == {u1, u2}
LoginTable == (la :> {u1, u2}) @@ (star :> {u1, u2, u3})
IdFilterTable == (i1 :> {u1}) @@ (i2 :> {u2, u3})
IdTable == (u1 :> i1) @@ (u2 :> i2) @@ (u3 :> i2)
=============================================================================
