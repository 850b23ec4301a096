-------------------------- MODULE MCAssertionGrant --------------------------
(***************************************************************************)
(* One trust agent, one relying party, two users whose device keys share a *)
(* kid.                                                                    *)
(***************************************************************************)
EXTENDS AssertionGrant, TLC

CONSTANTS r1, r2, r3, ta, rp, inst, uri, ck, d1, d2, d0, kc, kd, a1, a2, l1, any

ThreeRequests == {r1, r2, r3}
TwoRequests == {r1, r2}
OneRequest == {r1}
ClientIds == {ta, rp}
PartyIds == {ta, rp, inst, uri}
KeyPairs == {ck, d1, d2, d0}
KeyIds == {kc, kd}
AccountIds == {a1, a2}
NameSet == {a1, a2, l1, any}
KidTable == (ck :> kc) @@ (d1 :> kd) @@ (d2 :> kd) @@ (d0 :> None)
JwksTable == (ta :> {ck}) @@ (rp :> {})
RedirectTable == (ta :> {}) @@ (rp :> {uri})
RefreshingClients == {rp}
(* l1 is the login of one account, any a wildcard; nobody logs in by id.   *)
LoginTable == (l1 :> {a1}) @@ (any :> {a1, a2}) @@ (a1 :> {}) @@ (a2 :> {})
PlainSubs == (a1 :> a1) @@ (a2 :> a2)

(* Authentication of a user by the trust agent, for its instance inst.     *)
Authn(login, pw, key) ==
    [hkid |-> kc, signer |-> ck, iss |-> ta, azp |-> inst, sub |-> login,
     cnfKid |-> None, cnfJwk |-> key, crd |-> pw, defect |-> "none",
     iat |-> 0, nbf |-> 0, exp |-> 0]

(* Authorisation with the device key, for the redirect URI of rp.          *)
Authz(key, sub) ==
    [hkid |-> kd, signer |-> key, iss |-> inst, azp |-> uri, sub |-> sub,
     cnfKid |-> kd, cnfJwk |-> None, crd |-> None, defect |-> "none",
     iat |-> 0, nbf |-> 0, exp |-> 0]

RequestSymmetry == Permutations(Requests)

(* The two users authenticate, one with a wildcard for a login, and        *)
(* authorise; one assertion mixes them up, one names no redirect URI of rp.*)
Core == {Authn(l1, a1, d1), Authn(any, a2, d2), Authz(d1, a1), Authz(d2, a2),
         Authz(d1, a2), [Authz(d1, a1) EXCEPT !.azp = inst]}
CoreAssertions == [r \in Requests |-> Core]

(* Each way of being refused, beside one assertion of each path.           *)
Refused == {[Authn(l1, a1, d1) EXCEPT !.defect = d] : d \in Defects \ {"none"}}
           \cup {[Authn(l1, a1, d1) EXCEPT !.crd = x] : x \in {None, NotString, Wrong}}
           \cup {[Authn(l1, a1, d1) EXCEPT !.cnfJwk = x] : x \in {None, Null, d0}}
           \cup {[Authn(l1, a1, d1) EXCEPT !.signer = d1],
                 [Authn(l1, a1, d1) EXCEPT !.azp = None],
                 [Authz(d1, a1) EXCEPT !.sub = l1],
                 [Authz(d1, a1) EXCEPT !.iss = ta],
                 [Authz(d1, a1) EXCEPT !.hkid = kc]}
(* Assertions that come of age, or expire, while a request is under way.   *)
Dated == {[Authn(l1, a1, d1) EXCEPT !.iat = 1], [Authn(l1, a1, d1) EXCEPT !.exp = 1]}

Answerable == Refused \cup Dated \cup {Authn(l1, a1, d1), Authz(d1, a1)}

(* One request of any kind beside one that is in order.                    *)
BroadAssertions == (r1 :> Answerable) @@ (r2 :> {Authn(l1, a1, d1), Authz(d1, a1)})

DatedAssertions == [r \in Requests |->
    {[Authn(l1, a1, d1) EXCEPT !.iat = i, !.nbf = n, !.exp = e] :
        i \in -1..3, n \in -1..3, e \in {-1, 0, 3, 5}}]
=============================================================================
