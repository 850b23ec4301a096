--------------------------- MODULE DirectoryLogin ---------------------------
(***************************************************************************)
(* The configurator's accountByLogin and accountById on the LDAP storage   *)
(* adapter (provider/adapters/ldap.js) and one shared LdapConnection: a    *)
(* login looks its name up, binds as the first entry found, reads that     *)
(* entry over the user's own connection, and then looks the account up     *)
(* once more, by the id in the entry, over the root connection.  The       *)
(* directory is other people's: entries come and go between the steps.     *)
(*                                                                         *)
(* Every step is a step of LdapConnection for the same caller, a step of   *)
(* the user's connection, or a change of the directory.  The class, base   *)
(* and filter of the organization only decide which entries a lookup can   *)
(* see; filters are the matter of DirectoryLookup.                         *)
(***************************************************************************)
EXTENDS LdapConnection, FiniteSets

CONSTANTS ByLogin,    \* the entries the filter `bind=<login>` selects
          ById,       \* the entries the filter `id=<id>` selects
          IdOf,       \* the id attribute of each entry
          InScope,    \* entries of org.class below org.base: find sees them
          OrgBase,    \* is org.base configured?
          Credentials,  \* bound: the names and passwords callers log in with
          Changing      \* bound: the entries that come and go

(* Logins and ids go into their filters as they are, so what a filter      *)
(* selects need not be the entries with that very value: "*", filter       *)
(* syntax and the directory's own matching rules select others.            *)
Logins == DOMAIN ByLogin
Ids == DOMAIN ById

ASSUME DirectoryAssumption ==
    /\ ByLogin \in [Logins -> SUBSET Users]
    /\ ById \in [Ids -> SUBSET Users]
    /\ IdOf \in [Users -> Ids]
    /\ None \notin Logins \cup Ids
    /\ InScope \subseteq Users
    /\ OrgBase \in BOOLEAN
    /\ Service \in Direct
    /\ Credentials \subseteq [name : Logins, pass : Users \cup {None}]
    /\ Changing \subseteq Users

VARIABLES dir,    \* the entries that exist
          stage,  \* how far the call of each caller has come
          login,  \* the name and the password an accountByLogin was given
          bound,  \* the entry the user's connection is bound as
          want,   \* the id an accountById looks for
          reply   \* what the configurator answered

loginVars == <<dir, stage, login, bound, want, reply>>
allVars == <<vars, loginVars>>

(* "bind": adapter.findAndBind; "base": findBase over the user's           *)
(* connection; "account": accountById; "answered": the caller has not yet  *)
(* taken its answer; "gone": findBase never answers; "ended": the process  *)
(* is gone.                                                                *)
LoginStages == {"none", "bind", "base", "account", "answered", "gone",
                "ended"}

NoLogin == [name |-> None, pass |-> None]
Answer(kind, id, dn) == [kind |-> kind, id |-> id, dn |-> dn]
NoAnswer == Answer("none", None, None)
LoginFailed == Answer("failed", None, None)
AccountMissing == Answer("missing", None, None)
Rejected == Answer("error", None, None)

LoginTypeOK ==
    /\ dir \subseteq Users
    /\ stage \in [Callers -> LoginStages]
    /\ login \in [Callers -> [name : Logins \cup {None},
                              pass : Users \cup {None}]]
    /\ bound \in [Callers -> Users \cup {None}]
    /\ want \in [Callers -> Ids \cup {None}]
    /\ reply \in [Callers -> [kind : {"none", "account", "failed", "missing",
                                      "error"},
                              id : Ids \cup {None}, dn : Users \cup {None}]]

LoginInit == /\ Init
             /\ root = None
             /\ dir = Users
             /\ stage = [c \in Callers |-> "none"]
             /\ login = [c \in Callers |-> NoLogin]
             /\ bound = [c \in Callers |-> None]
             /\ want = [c \in Callers |-> None]
             /\ reply = [c \in Callers |-> NoAnswer]

-----------------------------------------------------------------------------
(* raw_find, with or without a root connection.                            *)
Asks(c, req) == FindParks(c, req) \/ FindSearches(c, req)

LoginRequest(pass) == [op |-> "findAndBind", pass |-> pass, based |-> HasBase]
AccountRequest == [op |-> "find", pass |-> None, based |-> OrgBase \/ HasBase]

(* findAndBind of the adapter searches below the connection's base;        *)
(* find searches below org.base and always asks for org.class.             *)
LoginRows(name) == dir \cap ByLogin[name]
AccountRows(id) == dir \cap InScope \cap ById[id]

Settles(c, answer) == /\ stage' = [stage EXCEPT ![c] = "answered"]
                      /\ reply' = [reply EXCEPT ![c] = answer]
                      /\ UNCHANGED <<dir, login, bound, want>>

AccountByLogin(c, cred) ==
    /\ stage[c] = "none"
    /\ Asks(c, LoginRequest(cred.pass))
    /\ stage' = [stage EXCEPT ![c] = "bind"]
    /\ login' = [login EXCEPT ![c] = cred]
    /\ UNCHANGED <<dir, bound, want, reply>>

(* Without a login or without credentials the adapter throws at once.      *)
CredentialsMissing(c) ==
    /\ stage[c] = "none" /\ pc[c] = "idle"
    /\ Settles(c, Rejected)
    /\ UNCHANGED vars

(* accountById, called by oidc-provider with the id in a session or token. *)
AccountById(c, id) ==
    /\ stage[c] = "none"
    /\ Asks(c, AccountRequest)
    /\ stage' = [stage EXCEPT ![c] = "account"]
    /\ want' = [want EXCEPT ![c] = id]
    /\ UNCHANGED <<dir, login, bound, reply>>

-----------------------------------------------------------------------------
(* The login's search returns the matching entries, in no order; the first *)
(* one is the entry to bind as.                                            *)
EntryFound(c) == /\ stage[c] = "bind"
                 /\ \E e \in LoginRows(login[c].name) : LoginFound(c, e)
                 /\ UNCHANGED loginVars

EntryNotFound(c) == /\ stage[c] = "bind"
                    /\ LoginRows(login[c].name) = {}
                    /\ LoginNotFound(c)
                    /\ UNCHANGED loginVars

(* Without a connection the adapter returns null and accountByLogin throws *)
(* "Login Failed"; an error of the search is passed on.                    *)
RefusalBinds(c) ==  \* mutant: `if (connection)` of the adapter dropped
    /\ stage[c] = "bind"
    /\ pc[c] = "done" /\ out[c].kind \in {"null", "error"}
    /\ stage' = [stage EXCEPT ![c] = "base"]
    /\ bound' = [bound EXCEPT ![c] = entry[c]]
    /\ Return(c)
    /\ UNCHANGED <<dir, login, want, reply>>

RefusalForgotten(c) ==  \* mutant: `throw new Error("Login Failed")` dropped
    /\ stage[c] = "bind"
    /\ pc[c] = "done" /\ out[c].kind \in {"null", "error"}
    /\ Return(c)
    /\ UNCHANGED loginVars

LoginRefused(c) ==
    /\ stage[c] = "bind"
    /\ pc[c] = "done" /\ out[c].kind \in {"null", "error"}
    /\ Settles(c, IF out[c].kind = "null" THEN LoginFailed ELSE Rejected)
    /\ UNCHANGED vars

LoginBound(c) ==
    /\ stage[c] = "bind"
    /\ pc[c] = "done" /\ out[c].kind = "conn"
    /\ stage' = [stage EXCEPT ![c] = "base"]
    /\ bound' = [bound EXCEPT ![c] = out[c].dn]
    /\ Return(c)
    /\ UNCHANGED <<dir, login, want, reply>>

BaseReadLogin(c) ==  \* mutant: the login attribute in place of the id
    /\ stage[c] = "base"
    /\ bound[c] \in dir
    /\ Asks(c, AccountRequest)
    /\ stage' = [stage EXCEPT ![c] = "account"]
    /\ want' = [want EXCEPT ![c] = login[c].name]
    /\ UNCHANGED <<dir, login, bound, reply>>

(* The user's connection returns the entry, and accountById starts with    *)
(* the id in it.                                                           *)
BaseRead(c) ==
    /\ stage[c] = "base"
    /\ bound[c] \in dir
    /\ Asks(c, AccountRequest)
    /\ stage' = [stage EXCEPT ![c] = "account"]
    /\ want' = [want EXCEPT ![c] = IdOf[bound[c]]]
    /\ UNCHANGED <<dir, login, bound, reply>>

(* The user may not read the own entry: no row, "Login Failed".            *)
BaseHidden(c) == /\ stage[c] = "base"
                 /\ Settles(c, LoginFailed)
                 /\ UNCHANGED vars

BaseErrs(c) == /\ stage[c] = "base"
               /\ Settles(c, Rejected)
               /\ UNCHANGED vars

(* The user's connection is closed or silent.  (An entry that is gone, an  *)
(* "error" event, ends the process.)                                       *)
BaseUnanswered(c) == /\ stage[c] = "base"
                     /\ stage' = [stage EXCEPT ![c] = "gone"]
                     /\ UNCHANGED <<vars, dir, login, bound, want, reply>>

-----------------------------------------------------------------------------
(* find takes one entry, and none if the id is ambiguous.                  *)
AccountRead(c) ==
    /\ stage[c] = "account"
    /\ FindEnds(c)
    /\ LET rows == AccountRows(want[c])
       IN  \/ /\ Cardinality(rows) = 1
              /\ \E e \in rows : Settles(c, Answer("account", want[c], e))
           \/ /\ Cardinality(rows) # 1
              /\ Settles(c, AccountMissing)

LookupRejected(c) == /\ stage[c] = "account"
                     /\ pc[c] = "done" /\ out[c].kind = "error"
                     /\ Settles(c, Rejected)
                     /\ UNCHANGED vars

(* The caller of the configurator, or of connect(), has its answer.        *)
CallReturns(c) ==
    /\ stage[c] = "answered" \/ (stage[c] = "none" /\ pc[c] = "done")
    /\ IF pc[c] = "done" THEN Return(c) ELSE UNCHANGED vars
    /\ stage' = [stage EXCEPT ![c] = "none"]
    /\ login' = [login EXCEPT ![c] = NoLogin]
    /\ bound' = [bound EXCEPT ![c] = None]
    /\ want' = [want EXCEPT ![c] = None]
    /\ reply' = [reply EXCEPT ![c] = NoAnswer]
    /\ UNCHANGED dir

Changes(e) == /\ dir' \in {dir \cup {e}, dir \ {e}}
              /\ dir' # dir
              /\ UNCHANGED <<vars, stage, login, bound, want, reply>>

(* An error event ends the process, with every login in it.                *)
LoginsEnd == /\ ProcessEnds
             /\ stage' = [c \in Callers |-> "ended"]
             /\ UNCHANGED <<dir, login, bound, want, reply>>

-----------------------------------------------------------------------------
Bind(c) == BindAnswered(c) /\ UNCHANGED loginVars

Search(c) == \/ EntryFound(c)
             \/ EntryNotFound(c)
             \/ AccountRead(c)
             \/ SearchErrs(c) /\ UNCHANGED loginVars
             \/ SearchUnanswered(c) /\ UNCHANGED loginVars

Base(c) == BaseRead(c) \/ BaseHidden(c) \/ BaseErrs(c) \/ BaseUnanswered(c)

Continue(c) == \/ LoginRefused(c)
               \/ LoginBound(c)
               \/ LookupRejected(c)
               \/ CallReturns(c)

(* connect() is also called on its own, as the service.                    *)
Connects(c) == /\ stage[c] = "none"
               /\ \/ ConnectDials(c, Service, None)
                  \/ ConnectReturns(c, Service, None)
               /\ UNCHANGED loginVars

Flush == FlushDone /\ UNCHANGED loginVars

LoginNext ==
    \/ \E c \in Callers : \/ \E cred \in Credentials : AccountByLogin(c, cred)
                          \/ CredentialsMissing(c)
                          \/ \E id \in Ids : AccountById(c, id)
                          \/ Connects(c)
                          \/ Bind(c)
                          \/ Search(c)
                          \/ Base(c)
                          \/ Continue(c)
    \/ Flush
    \/ ConnectionLost /\ UNCHANGED loginVars
    \/ LoginsEnd
    \/ \E e \in Changing : Changes(e)

LoginSpec == LoginInit /\ [][LoginNext]_allVars

(* Every bind is answered one way or the other or never will be, every     *)
(* search, also one on the user's connection, ends or its connection is    *)
(* closed or silent, and the event loop runs the continuations that are    *)
(* ready.  Nothing makes callers call, connections fail or the process     *)
(* end.                                                                    *)
LoginFairSpec == /\ LoginSpec
                 /\ \A c \in Callers : /\ WF_allVars(Bind(c))
                                       /\ WF_allVars(Search(c))
                                       /\ WF_allVars(Base(c))
                                       /\ WF_allVars(Continue(c))
                 /\ WF_allVars(Flush)

-----------------------------------------------------------------------------
(* A login is answered with an account only after the password presented   *)
(* was accepted for the entry it is bound as, one of the entries the       *)
(* login's filter selects - not always one whose name is the login.  The   *)
(* account goes by that entry's id, and it is that very entry unless the   *)
(* id selects others (accountByLogin 199-220, ldap.js 172-209 and 80-109), *)
(* whatever other callers and the directory do between the four round      *)
(* trips.                                                                  *)
Twins(e) == ById[IdOf[e]] \ {e}

AccountProven ==
    \A c \in Callers :
        reply[c].kind = "account" /\ login[c] # NoLogin
            => /\ bound[c] = login[c].pass
               /\ bound[c] \in ByLogin[login[c].name]
               /\ reply[c].id = IdOf[bound[c]]
               /\ Twins(bound[c]) = {} => reply[c].dn = bound[c]

(* Every login and every lookup of an account is answered, unless one of   *)
(* its connections is closed or silent, the adapter is wedged, or an error *)
(* event ends the process.                                                 *)
LoginsSettle ==
    \A c \in Callers :
        stage[c] # "none" ~> \/ stage[c] \in {"answered", "gone"}
                             \/ pc[c] = "lost"
                             \/ Wedged
                             \/ Ended
=============================================================================
