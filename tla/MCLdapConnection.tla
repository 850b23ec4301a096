-------------------------- MODULE MCLdapConnection --------------------------
(* LdapConnection on small sets of callers and users.                      *)
EXTENDS LdapConnection, TLC

CONSTANTS c1, c2, c3, u1, u2, svc

ThreeCallers == {c1, c2, c3}
TwoUsers == {u1, u2}

(* The unit tests also open an adapter with a user's credentials.          *)
TestDirect == {svc, u1}

CallerSymmetry == Permutations(Callers)
=============================================================================
