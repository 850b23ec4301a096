---------------------------- MODULE TokenService ----------------------------
(***************************************************************************)
(* What the assertion grant owes to users, clients and trust agents,       *)
(* whatever it reads, checks and waits for on the way: an account proves   *)
(* itself, a request asks, tokens are issued, the request is answered.     *)
(***************************************************************************)
CONSTANTS Requests,
          Clients,
          Refreshing,  \* the clients that get refresh tokens as well
          Accounts,
          Keys,        \* the keys of users' devices, and of trust agents
          NoKey

(* A request comes from a client and vouches for its subjects with a key;  *)
(* it may carry the passwords of some accounts; its tokens are meant for   *)
(* the audience.                                                           *)
Asks == [client : Clients, key : Keys \cup {NoKey}, subjects : SUBSET Accounts,
         passwords : SUBSET Accounts, audience : SUBSET Clients]

Refusals == {"invalid_request", "server_error"}

VARIABLES proofs,  \* accounts that proved themselves, with the key
          asked,   \* what the requests that came in ask for
          tokens,
          answers

vars == <<proofs, asked, tokens, answers>>

Proof(a, k) == [account |-> a, key |-> k]
Token(kind, a, r) == [kind |-> kind, account |-> a, client |-> asked[r].client,
                      req |-> r]

Init == /\ proofs = {}
        /\ asked = <<>>
        /\ tokens = {}
        /\ answers = [r \in Requests |-> "none"]

Open(r) == r \in DOMAIN asked /\ answers[r] = "none"
Refuses(r) == \E a \in Refusals : answers' = [answers EXCEPT ![r] = a]

(* A request comes in, and may be refused at once.                         *)
Ask(r) == /\ r \notin DOMAIN asked
          /\ DOMAIN asked' = DOMAIN asked \cup {r}
          /\ asked'[r] \in Asks
          /\ \A q \in DOMAIN asked : asked'[q] = asked[q]
          /\ UNCHANGED answers \/ Refuses(r)
          /\ UNCHANGED <<proofs, tokens>>

(* The password is right: from now on the key speaks for the account.      *)
Prove(r, a) == /\ Open(r)
               /\ a \in asked[r].subjects \cap asked[r].passwords
               /\ proofs' = proofs \cup {Proof(a, asked[r].key)}
               /\ UNCHANGED <<asked, tokens, answers>>

(* The one access token of a request is for a subject for whom its key     *)
(* speaks, and goes to a client it is meant for.  The client may be refused*)
(* all the same, but never afterwards.                                     *)
IssueAccess(r, a) == /\ Open(r)
                     /\ \A t \in tokens : t.req # r
                     /\ a \in asked[r].subjects
                     /\ Proof(a, asked[r].key) \in proofs
                     /\ asked[r].client \in asked[r].audience
                     /\ tokens' = tokens \cup {Token("access", a, r)}
                     /\ UNCHANGED answers \/ Refuses(r)
                     /\ UNCHANGED <<proofs, asked>>

IssueRefresh(r, a) == /\ Open(r)
                      /\ Token("access", a, r) \in tokens
                      /\ asked[r].client \in Refreshing
                      /\ tokens' = tokens \cup {Token("refresh", a, r)}
                      /\ UNCHANGED answers \/ Refuses(r)
                      /\ UNCHANGED <<proofs, asked>>

Refuse(r) == /\ Open(r)
             /\ Refuses(r)
             /\ UNCHANGED <<proofs, asked, tokens>>

(* A request is granted when its client has all the tokens it is due.      *)
Grant(r, a) == /\ Open(r)
               /\ Token("access", a, r) \in tokens
               /\ asked[r].client \in Refreshing => Token("refresh", a, r) \in tokens
               /\ answers' = [answers EXCEPT ![r] = "granted"]
               /\ UNCHANGED <<proofs, asked, tokens>>

Next == \E r \in Requests :
           \/ Ask(r)
           \/ Refuse(r)
           \/ \E a \in Accounts : \/ Prove(r, a)
                                  \/ IssueAccess(r, a)
                                  \/ IssueRefresh(r, a)
                                  \/ Grant(r, a)

Spec == Init /\ [][Next]_vars
=============================================================================
