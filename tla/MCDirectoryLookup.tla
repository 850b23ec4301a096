-------------------------- MODULE MCDirectoryLookup -------------------------
(* Restrictions of up to two terms, nested up to two deep, over two        *)
(* literals; literals are optional class names, keys and conditions.       *)
EXTENDS DirectoryLookup

CONSTANTS a, b, id, mail, person

ClassNames == {"", person}
KeyLiterals == {id, mail}
LiteralSet == {a, b, id, mail, person, "objectClass=undefined"}

Plain == {Lit(a), Lit(b), Lit("")}

Applied(terms) ==
    {Arr(<<op, x>>) : op \in {And, Or, Not}, x \in terms}
    \cup {Arr(<<op, x, y>>) : op \in {And, Or}, x \in terms, y \in Plain}
Listed(terms) == {Arr(<<x>>) : x \in terms} \cup {Arr(<<x, Lit(b)>>) : x \in terms}

Shallow == Applied(Plain) \cup Listed(Plain) \cup {Arr(<<>>)}
Deep == Applied(Shallow) \cup Listed(Shallow)
Top == Plain \cup {Or} \cup Shallow

RestrictionSet == {<<>>} \cup {<<x>> : x \in Top \cup Deep}
                  \cup {<<x, y>> : x \in Plain, y \in Top}

(* The smallest restriction in which the braces show.                      *)
Braced == {<<Lit(a)>>, <<Arr(<<Lit(a)>>)>>}
=============================================================================
