------------------------------- MODULE JwtTime -------------------------------
(***************************************************************************)
(* The timestamp checks of provider/actions/assertion/verifyJWT.js.        *)
(* Times are seconds; a claim that is absent, or 0, is falsy in JavaScript *)
(* and counts as absent.  now is the rounded clock.                        *)
(***************************************************************************)
EXTENDS Integers

CONSTANT MaxAge  \* 1800 seconds in the code

ASSUME MaxAgeAssumption == MaxAge \in Nat \ {0}

Absent == 0
Old(now) == now - MaxAge

(* iat: positive, strictly in the past, and without an exp claim younger   *)
(* than MaxAge.                                                            *)
IatOk(now, iat, exp) ==
    iat # Absent => /\ iat > 0
                    /\ iat < now
                    /\ exp = Absent => iat > Old(now)

(* nbf: positive and strictly in the past; without an exp claim the code   *)
(* refuses it unless it is OLDER than MaxAge.                              *)
NbfOk(now, nbf, exp) ==
    nbf # Absent => /\ nbf > 0
                    /\ nbf < now
                    /\ exp = Absent => nbf < Old(now)

(* exp: positive and not passed; the very second still counts.             *)
ExpOk(now, exp) == exp # Absent => exp > 0 /\ exp >= now

Timely(now, a) == /\ IatOk(now, a.iat, a.exp)
                  /\ NbfOk(now, a.nbf, a.exp)
                  /\ ExpOk(now, a.exp)
=============================================================================
