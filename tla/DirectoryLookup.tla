--------------------------- MODULE DirectoryLookup --------------------------
(***************************************************************************)
(* How the LDAP storage adapter (provider/adapters/ldap.js) looks up       *)
(* accounts and clients: it joins the key, the object class and the        *)
(* configured restriction cfg.ldap.organization[name].filter into one      *)
(* array, from which buildFilter (ldapconnection.js) makes the LDAP        *)
(* filter.  buildFilter takes its array apart with shift(); the array is   *)
(* new for every lookup, but the arrays nested in the restriction are the  *)
(* ones of the configuration, shared by all lookups of the process.        *)
(*                                                                         *)
(* A lookup is one step: concat copies only the outer array, so it does    *)
(* not matter when a lookup that has to wait for the connection is built.  *)
(* Rows and DNs are the matter of LdapConnection.                          *)
(***************************************************************************)
EXTENDS Naturals, Sequences

CONSTANTS Depth,         \* how deep the terms of a restriction are nested
          Literals,      \* every literal of an LDAP filter
          Restrictions,  \* the org.filter settings: sequences of terms
          Classes,       \* the org.class settings, "" for none
          KeyFilters     \* the literals <attribute>=<value> of lookups

(* JSON values: a string, or an array of values.                           *)
Lit(s) == [arr |-> FALSE, s |-> s, es |-> <<>>]
Arr(es) == [arr |-> TRUE, s |-> "", es |-> es]
Nonempty(f) == IF f.arr THEN f.es # <<>> ELSE f.s # ""

And == Lit("&")
Or == Lit("|")
Not == Lit("!")
EmptyFilter == Lit("")
AnyObject == Lit("objectClass=*")

Words == Literals \cup {"", "&", "|", "!", "objectClass=*", "objectClass=undefined"}
Strings == [arr : {FALSE}, s : Words, es : {<<>>}]

(* The values whose arrays are nested up to n deep; a lookup puts the terms*)
(* of the restriction into one more array.                                 *)
Nested[n \in 0..Depth + 1] ==
    IF n = 0 THEN Strings
    ELSE Strings \cup [arr : {TRUE}, s : {""}, es : Seq(Nested[n - 1])]

Term == Nested[Depth]
Value == Nested[Depth + 1]

(* A key is an assignment, a class one with objectClass: no operators.     *)
ASSUME LookupAssumption ==
    /\ Depth \in Nat \ {0}
    /\ Restrictions \subseteq Seq(Term)
    /\ Classes \subseteq Literals \cup {""}
    /\ KeyFilters \subseteq Literals
    /\ Literals \cap {"", "&", "|", "!"} = {}

VARIABLES org,     \* the organization as it was configured
          shared,  \* org.filter as the process holds it now
          kind,    \* the latest lookup
          key,     \* the literal it looked for
          asked,   \* the array it handed to the connection
          sent     \* the filter that went to the directory

vars == <<org, shared, kind, key, asked, sent>>

-----------------------------------------------------------------------------
(* buildFilter's array: a string is wrapped, an empty one is no element.   *)
Elements(f) == IF f.arr THEN f.es ELSE IF f.s = "" THEN <<>> ELSE <<f>>

(* The filters that are not empty, in their order.                         *)
Filled(qs) ==
    LET Upto[i \in 0..Len(qs)] ==
            IF i = 0 THEN <<>>
            ELSE IF qs[i] = EmptyFilter THEN Upto[i - 1] ELSE Append(Upto[i - 1], qs[i])
    IN  Upto[Len(qs)]

(* The operands of & and | that turned out empty are left out, and a       *)
(* single one stands for itself.                                           *)
JoinedAlone(op, qs) ==  \* mutant: `if (qs.length === 1)` dropped
    IF Len(qs) > 1 THEN Arr(<<op>> \o qs) ELSE EmptyFilter

Joined(op, qs) == IF Len(qs) > 1 THEN Arr(<<op>> \o qs)
                  ELSE IF Len(qs) = 1 THEN qs[1] ELSE EmptyFilter

(* The filter buildFilter returns, as the array that spells it by the same *)
(* rules, (&(a)(b)) as ["&", "a", "b"]; a list stands for its first        *)
(* element.                                                                *)
Build[f \in Value] ==
    LET es == Elements(f)
        operands == Tail(es)
        built == [i \in DOMAIN operands |->
                    IF Nonempty(operands[i]) THEN Build[operands[i]] ELSE EmptyFilter]
    IN  IF es = <<>> THEN EmptyFilter
        ELSE IF Head(es) \in {And, Or} THEN Joined(Head(es), Filled(built))
        ELSE IF Head(es) = Not
             THEN IF Len(es) > 1 /\ Nonempty(es[2])
                  THEN Arr(<<Not, Build[es[2]]>>) ELSE EmptyFilter
        ELSE IF Head(es).arr THEN Build[Head(es)] ELSE Head(es)

(* What it leaves of an array: the operator is gone, the operands of & and *)
(* | are taken apart in their places, ! takes its operand along; of a list *)
(* the first element is gone.                                              *)
LeftOver[f \in Value] ==
    LET rest == Tail(f.es)
        taken == [i \in DOMAIN rest |-> LeftOver[rest[i]]]
    IN  IF ~f.arr \/ f.es = <<>> THEN f
        ELSE IF Head(f.es) \in {And, Or} THEN Arr(taken)
        ELSE IF Head(f.es) = Not /\ rest # <<>> THEN Arr(Tail(rest))
        ELSE Arr(rest)

Eroded(fs) == [i \in DOMAIN fs |-> LeftOver[fs[i]]]

-----------------------------------------------------------------------------
(* raw_find: what goes to the directory.                                   *)
Sent(f) == IF Build[f] = EmptyFilter THEN AnyObject ELSE Build[f]

Init == /\ org \in [class : Classes, filter : Restrictions]
        /\ shared = org.filter
        /\ kind = "none"
        /\ key = ""
        /\ asked = Arr(<<>>)
        /\ sent = EmptyFilter

Lookup(how, k, conditions) ==
    /\ kind' = how
    /\ key' = k
    /\ asked' = Arr(<<And>> \o conditions \o shared)
    /\ sent' = Sent(asked')
    /\ shared' = Eroded(shared)
    /\ UNCHANGED org

(* find always asks for a class.                                           *)
ClassLiteral == IF org.class = "" THEN "objectClass=undefined" ELSE org.class

Find(k) == Lookup("find", k, <<Lit(ClassLiteral), Lit(k)>>)

(* findByKey and findAndBind ask for one only if it is configured.         *)
OptionalClass == IF org.class = "" THEN <<>> ELSE <<Lit(org.class)>>

KeyConditionsOfClass(k) ==  \* mutant: the key is forgotten beside a class
    IF org.class = "" THEN <<Arr(<<Lit(k)>>)>> ELSE OptionalClass

KeyConditions(k) == <<Arr(<<Lit(k)>>)>> \o OptionalClass

FindByKey(k) == Lookup("findByKey", k, KeyConditions(k))
FindAndBind(k) == Lookup("findAndBind", k, KeyConditions(k))

(* After a successful login the user's own entry is read: findBase.        *)
FindBase == /\ kind = "findAndBind"
            /\ kind' = "findBase"
            /\ key' = ""
            /\ asked' = Arr(<<>>)
            /\ sent' = Sent(asked')
            /\ UNCHANGED <<org, shared>>

Next == \/ \E k \in KeyFilters : Find(k) \/ FindByKey(k) \/ FindAndBind(k)
        \/ FindBase

Spec == Init /\ [][Next]_vars

-----------------------------------------------------------------------------
(* An entry is the set of literals it matches; every entry has a class.    *)
Entries == SUBSET Literals
Having(s) == IF s = "objectClass=*" THEN Entries ELSE {entry \in Entries : s \in entry}

InAll(cs) == {entry \in Entries : \A c \in cs : entry \in c}
Complements(cs) == {Entries \ c : c \in cs}

(* The entries a filter selects.                                           *)
Selected[q \in Value] ==
    LET parts == {Selected[q.es[i]] : i \in 2..Len(q.es)}
    IN  IF q.es = <<>> THEN Having(q.s)
        ELSE IF Head(q.es) = And THEN InAll(parts)
        ELSE IF Head(q.es) = Or THEN UNION parts
        ELSE Entries \ UNION parts

(* Whether it is one: (!) selects nothing, the directory rejects it.       *)
WellFormed[q \in Value] ==
    q # EmptyFilter /\ \A i \in 2..Len(q.es) : WellFormed[q.es[i]]

(* The rules of the class comment, lines 37-50: a condition is the set of  *)
(* the entries it admits; {} stands for no condition, which is ignored,    *)
(* and {S} for the condition S.                                            *)
Conditions[f \in Value] ==
    LET parts == UNION {Conditions[f.es[i]] : i \in 2..Len(f.es)}
        Ignored(c) == IF parts = {} THEN {} ELSE {c}
    IN  IF f \in {And, Or, Not, EmptyFilter, Arr(<<>>)} THEN {}
        ELSE IF ~f.arr THEN {Having(f.s)}
        ELSE IF Head(f.es) = And THEN Ignored(InAll(parts))
        ELSE IF Head(f.es) = Or THEN Ignored(UNION parts)
        ELSE IF Head(f.es) = Not
             THEN IF Len(f.es) = 1 THEN {} ELSE Complements(Conditions[f.es[2]])
        ELSE Conditions[Head(f.es)]

Admitted(f) == IF Conditions[f] = {} THEN Entries
               ELSE CHOOSE c \in Conditions[f] : TRUE

Keyed == kind \in {"find", "findByKey", "findAndBind"}

(* The filter that is sent selects what the array means by the rules,      *)
(* unless it is no filter at all: the collapsing of single operands, nested*)
(* lists and empty parts is only notation (buildFilter, lines 163-211,     *)
(* raw_find, lines 234-238).                                               *)
FilterMeans ==
    kind # "none" /\ WellFormed[sent] => Selected[sent] = Admitted(asked)

(* A lookup always asks for its key, its class and every condition of the  *)
(* restriction that is written as a bare string, however often the nested  *)
(* parts of the restriction were taken apart before: whoever logs in       *)
(* matches them (ldap.js 94-104, 145-163, 183-201).                        *)
Bare(f) == ~f.arr /\ f \notin {And, Or, Not, EmptyFilter}

LookupSelective ==
    Keyed => \A entry \in Selected[sent] :
        /\ entry \in Having(key)
        /\ org.class # "" => entry \in Having(org.class)
        /\ \A i \in DOMAIN org.filter :
              Bare(org.filter[i]) => entry \in Having(org.filter[i].s)

(* ldapconnection.js:41-42: braces become arrays, and braces around        *)
(* literals are optional.  Then every lookup is restricted by the whole    *)
(* configured filter.                                                      *)
RestrictionKept ==
    Keyed => Selected[sent] \subseteq Admitted(Arr(<<And>> \o org.filter))
=============================================================================
