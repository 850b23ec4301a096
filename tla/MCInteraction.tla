--------------------------- MODULE MCInteraction ---------------------------
(* Two requests of any route, two accounts and two interactions: one that *)
(* begins with a login, one that only asks for consent.                    *)
EXTENDS Interaction, TLC

CONSTANTS i1, i2, a1, a2, r1, r2

TwoInteractions == {i1, i2}
TwoAccounts == {a1, a2}
TwoRequests == {r1, r2}
Reasons == (i1 :> "login_required") @@ (i2 :> "consent_required")
=============================================================================
