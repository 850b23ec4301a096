--------------------------- MODULE MCClaimMapping ---------------------------
(***************************************************************************)
(* Two or three claims over one plain attribute and the labeled URIs: the  *)
(* first with every combination of the options, the other ones reading the *)
(* same attributes or set below the first.                                 *)
(***************************************************************************)
EXTENDS ClaimMapping

Plain == {"x", "y", "z", "x;y", "J", "N", "u1", "u2"}
PieceTable == [s \in Plain |-> IF s = "x;y" THEN <<"x", "y">> ELSE <<s>>]
SwapTable == ("x" :> "w") @@ ("y" :> "")
JsonTable == ("J" :> Obj("j" :> Str("x"))) @@ ("N" :> Null)
SuffixTable == [s \in Plain \cup {"w"} |-> s \o "@"]
LowerTable == [s \in Plain \cup {"w"} \cup {SuffixTable[p] : p \in DOMAIN SuffixTable}
                 |-> "low " \o s]

(* Labeled URIs: two of label l, one of label m, one without a label.      *)
UrlTable == ("u1 l" :> "u1") @@ ("u2 l" :> "u2") @@ ("u1 m" :> "u1") @@ ("u2" :> "u2")
LabelTable == ("u1 l" :> "l") @@ ("u2 l" :> "l") @@ ("u1 m" :> "m") @@ ("u2" :> "")

Strs(ss) == Arr([i \in DOMAIN ss |-> Str(ss[i])])
PlainValues == {Str("x;y"), Str("J"), Str("N"), Str("y"), Strs(<<"x", "y", "z">>),
                Strs(<<"x;y", "z">>), Strs(<<"J", "N">>)}
UriValues == {Strs(<<"u1 l", "u2 l", "u1 m">>), Strs(<<"u1 l", "u2">>), Str("u1 m")}
EntrySet == {"p" :> v : v \in PlainValues}
            \cup {("uri" :> v) @@ ("q" :> Str("z")) : v \in UriValues}
            \cup {("p" :> Strs(<<"x", "y">>)) @@ ("uri" :> Strs(<<"u1 l", "u2 l">>))}

Options == [attr : {"p", "uri"}, label : {"", "l"}, sep : BOOLEAN,
            swap : BOOLEAN, json : BOOLEAN, keys : {<<>>, <<"k", "l">>},
            suffix : BOOLEAN, lower : BOOLEAN]
Claim(name, alts) == [name |-> name, alts |-> alts]
Pairing(a, l) == [Bare(a) EXCEPT !.label = l, !.keys = <<"l", "k">>]

Firsts == {Claim(<<"a">>, <<alt, Bare("q")>>) : alt \in Options}
Seconds == {Claim(n, <<alt>>) : n \in {<<"b">>, <<"a", "l">>},
                                alt \in {Bare("p"), Pairing("p", "")}}
           \cup {Claim(<<"b">>, <<alt>>) : alt \in {Bare("uri"), Pairing("uri", "l")}}
MappingSet == {<<f, s>> : f \in Firsts, s \in Seconds}
              \cup {<<s, f>> : s \in Seconds, f \in Firsts}
              \cup {<<Claim(<<"b">>, <<Bare("p")>>), Claim(<<"c">>, <<Pairing("p", "")>>),
                      Claim(<<"b", "l">>, <<Bare("q"), Pairing("p", "")>>)>>,
                    <<Claim(<<"b">>, <<Bare("uri")>>), Claim(<<"c">>, <<Bare("uri")>>),
                      Claim(<<"b", "k">>, <<Bare("q"), Pairing("uri", "l")>>)>>}
ForcedNames == {<<"b">>}
=============================================================================
