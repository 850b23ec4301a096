---------------------------- MODULE ClaimMapping ----------------------------
(***************************************************************************)
(* How the LDAP storage adapter turns a directory entry into claims or     *)
(* client metadata: splitLabeledUri groups the labeled URIs of the entry,  *)
(* mapClaims (provider/mapping/map_claims.js) then computes one claim      *)
(* after the other.  Values are JavaScript objects: a claim may hold the   *)
(* very array or object of the entry, which a later claim still changes,   *)
(* and the mapping itself is shared by all entries of the process.         *)
(*                                                                         *)
(* A step maps one claim.  Claim names have one dot at most: deeper names  *)
(* repeat the same level.  An alternative with a list of attributes stands *)
(* for one alternative per attribute, a 1:1 mapping for a list of one.     *)
(***************************************************************************)
EXTENDS Naturals, FiniteSets, Sequences, SequencesExt

CONSTANTS Mappings,   \* the mappings: sequences of claims
          Entries,    \* directory entries: functions from attributes
          Forced,     \* the names in forceArray
          UriAttr,    \* "labeledURI"
          UrlOf, LabelOf,  \* a labeled URI, taken apart at its space
          Pieces,     \* a string split at the separator
          Swap,       \* the replace table: strings to strings, or to ""
          Parsed,     \* the strings that are JSON, parsed
          Suffixed, Lowered  \* strings with the suffix, and in lower case

(* A value of an entry or a claim.                                         *)
Str(s) == [t |-> "str", s |-> s]
Arr(es) == [t |-> "arr", es |-> es]
Obj(m) == [t |-> "obj", m |-> m]
Null == [t |-> "null"]
Throw == [t |-> "throw"]

IsArr(v) == v.t = "arr"
IsObj(v) == v.t = "obj"
With(f, x, v) == [y \in DOMAIN f \cup {x} |-> IF y = x THEN v ELSE f[y]]
OnEach(v, Op(_)) == Arr([i \in DOMAIN v.es |-> Op(v.es[i])])

(* An alternative [attr, label, sep, swap, json, keys, suffix, lower]; a   *)
(* bare string in the list switches everything off.  The directory client  *)
(* returns a single value as a string, so an array has two or more.        *)
Bare(a) == [attr |-> a, label |-> "", sep |-> FALSE, swap |-> FALSE,
            json |-> FALSE, keys |-> <<>>, suffix |-> FALSE, lower |-> FALSE]

(* Names: <<"a">> for a, <<"a", "b">> for a.b.                             *)
Base(name) == <<name[1]>>

(* The mappings and entries there are.  A mapping is an object, so its     *)
(* names differ, and the keys of an assignment are meant to.               *)
Alternatives == [attr : STRING, label : STRING, sep : BOOLEAN, swap : BOOLEAN,
                 json : BOOLEAN, keys : Seq(STRING), suffix : BOOLEAN, lower : BOOLEAN]
Claims == [name : {n \in Seq(STRING) : Len(n) \in {1, 2}}, alts : Seq(Alternatives)]
Different(s) == \A i, j \in DOMAIN s : s[i] = s[j] => i = j

ASSUME MappingAssumption ==
    \A m \in Mappings :
        /\ m \in Seq(Claims)
        /\ Different([i \in DOMAIN m |-> m[i].name])
        /\ \A i \in DOMAIN m : \A n \in DOMAIN m[i].alts : Different(m[i].alts[n].keys)

(* A claim may take the labeled URIs as a whole and another one be set in  *)
(* them; what is set there is not read as if it were in the directory.     *)
TakesUris(claim) == \E n \in DOMAIN claim.alts : /\ claim.alts[n].attr = UriAttr
                                                 /\ claim.alts[n].label = ""
SetInUris(claim, above) == /\ Len(claim.name) = 2
                           /\ above.name = Base(claim.name)
                           /\ TakesUris(above)

ASSUME LabelAssumption ==
    \A m \in Mappings : \A i, j, k \in DOMAIN m : \A n \in DOMAIN m[k].alts :
        SetInUris(m[i], m[j]) /\ m[k].alts[n].attr = UriAttr =>
            m[k].alts[n].label # m[i].name[2]

(* An attribute has a string or a list of strings, all of which the tables *)
(* know; JSON yields values and null.                                      *)
Proper(v) == v.t \in {"str", "arr", "obj"}
IsList(es) == es \in Seq(ToSet(es))
Sound(v) == /\ Proper(v)
            /\ IsArr(v) => /\ IsList(v.es)
                           /\ \A x \in ToSet(v.es) : x = Null \/ Proper(x)
Texts(S) == {Str(x) : x \in S}
IsText(v, S) == IF IsArr(v) THEN v = Arr(v.es) /\ v.es \in Seq(Texts(S)) ELSE v \in Texts(S)

ASSUME EntryAssumption ==
    \A e \in Entries :
        /\ e = [a \in DOMAIN e |-> e[a]] /\ "" \notin DOMAIN e
        /\ \A a \in DOMAIN e :
              IsText(e[a], IF a = UriAttr THEN DOMAIN UrlOf ELSE DOMAIN Pieces)

ASSUME TableAssumption ==
    /\ UrlOf \in [DOMAIN UrlOf -> DOMAIN Pieces]
    /\ Pieces \in [DOMAIN Pieces -> Seq(STRING)]
    /\ \A s \in DOMAIN Parsed : Parsed[s] = Null \/ Sound(Parsed[s])

VARIABLES cfg,     \* the mapping as configured
          map,     \* the mapping as the process holds it
          entry,   \* the entry as the directory returned it
          source,  \* the entry as the process holds it, but for claims set in it
          next,    \* the claim to map
          target,  \* what is set so far: a value and its place in source
          status

vars == <<cfg, map, entry, source, next, target, status>>

-----------------------------------------------------------------------------
(* What filter() keeps of a list: the values at some of its places.        *)
Nth(S, n) == CHOOSE i \in S : Cardinality({j \in S : j <= i}) = n
Picked(es, S) == [n \in 1..Cardinality(S) |-> es[Nth(S, n)]]

(* splitLabeledUri: each URI under its label, one as a string, more as an  *)
(* array; URIs without a label are dropped.                                *)
WithLabel(us, l) == Picked([i \in DOMAIN us |-> Str(UrlOf[us[i].s])],
                           {i \in DOMAIN us : LabelOf[us[i].s] = l})

Grouped(us) ==
    Obj([l \in {LabelOf[us[i].s] : i \in DOMAIN us} \ {""} |->
            IF Len(WithLabel(us, l)) = 1 THEN WithLabel(us, l)[1]
            ELSE Arr(WithLabel(us, l))])

Labeled(e) ==
    IF UriAttr \notin DOMAIN e THEN e
    ELSE [e EXCEPT ![UriAttr] =
            IF @.t = "str" THEN Grouped(<<@>>)
            ELSE IF IsArr(@) THEN Grouped(@.es) ELSE @]

-----------------------------------------------------------------------------
(* What claims are read from: a value, and where in the entry it still is. *)
Nowhere == <<"", "">>
Read(v, at) == [val |-> v, at |-> IF v.t = "str" THEN Nowhere ELSE at]

At(src, at) == IF at[2] = "" THEN src[at[1]] ELSE src[at[1]].m[at[2]]
Current(slot, src) == IF slot.at = Nowhere THEN slot.val ELSE At(src, slot.at)

Fetched(alt, src) ==
    LET v == src[alt.attr]
    IN  IF alt.label = "" \/ ~IsObj(v) THEN Read(v, <<alt.attr, "">>)
        ELSE IF alt.label \in DOMAIN v.m
             THEN Read(v.m[alt.label], <<alt.attr, alt.label>>)
             ELSE Read(Null, Nowhere)

SplitString(v) == Arr([i \in DOMAIN Pieces[v.s] |-> Str(Pieces[v.s][i])])
Split(v) == IF v.t = "str" THEN SplitString(v)
            ELSE IF IsArr(v) THEN OnEach(v, SplitString) ELSE Throw

Swapped(v) == IF v.t # "str" \/ v.s \notin DOMAIN Swap THEN v
              ELSE IF Swap[v.s] = "" THEN Null ELSE Str(Swap[v.s])
NotNull(es) == Picked(es, {i \in DOMAIN es : es[i] # Null})
Replace(v) == IF v.t = "str" THEN Swapped(v)
              ELSE IF IsArr(v) THEN Arr(NotNull(OnEach(v, Swapped).es))
              ELSE Throw

(* JSON.parse makes a string of a list; only a list of one can be JSON.    *)
IsJson(v) == \/ v.t = "str" /\ v.s \in DOMAIN Parsed
             \/ IsArr(v) /\ Len(v.es) = 1 /\ v.es[1].s \in DOMAIN Parsed
ParsedJson(v) == IF IsArr(v) THEN Parsed[v.es[1].s] ELSE Parsed[v.s]
Json(v) == IF v.t = "str" /\ IsJson(v) THEN ParsedJson(v)
           ELSE IF IsArr(v) /\ \A i \in DOMAIN v.es : IsJson(v.es[i])
                THEN OnEach(v, ParsedJson) ELSE Null

ExtendString(v) == IF v.t = "str" THEN Str(Suffixed[v.s]) ELSE v
Extend(v) == IF IsArr(v) THEN OnEach(v, ExtendString) ELSE ExtendString(v)

LowerString(v) == IF v.t = "str" THEN Str(Lowered[v.s]) ELSE Throw
Lower(v) == IF ~IsArr(v) THEN LowerString(v)
            ELSE IF \E i \in DOMAIN v.es : v.es[i].t # "str" THEN Throw
            ELSE OnEach(v, LowerString)

(* A conversion that is switched on makes a value of its own.              *)
Convert(r, on, Op(_)) == IF on /\ r.val \notin {Null, Throw}
                         THEN Read(Op(r.val), Nowhere) ELSE r

Cleaned(alt, src) ==
    Convert(Convert(Convert(Fetched(alt, src), alt.sep, Split),
                    alt.swap, Replace), alt.json, Json)

AssignFrom(keys, es) ==  \* mutant: the list of values is not reversed
    LET taken == {i \in DOMAIN keys : i <= Len(es) /\ es[i] # Null}
    IN  Obj([k \in {keys[i] : i \in taken} |->
                es[CHOOSE i \in taken : keys[i] = k]])

(* valueAssign: both lists are reversed, the keys paired with the values   *)
(* and the last key, which was listed first, takes what is left over.      *)
Assign(keys, es) ==
    LET ks == Reverse(keys)
        vs == Reverse(es)
        n == Len(ks)
        taken == {i \in DOMAIN ks : i <= Len(vs) /\ vs[i] # Null}
        m == [k \in {ks[i] : i \in taken} |->
                 vs[CHOOSE i \in taken : ks[i] = k]]
    IN  IF n < Len(vs)
        THEN Obj(With(m, ks[n], Arr(Reverse(SubSeq(vs, n, Len(vs))))))
        ELSE Obj(m)

Assigns(alt, r) == alt.keys # <<>> /\ IsArr(r.val)
Assigned(alt, r) == IF Assigns(alt, r)
                    THEN Read(Assign(alt.keys, r.val.es), Nowhere) ELSE r

(* Everything up to the test for null.  The suffix leaves an object alone. *)
Worded(alt, r) == Convert(Convert(r, alt.suffix /\ ~IsObj(r.val), Extend),
                          alt.lower, Lower)
Cooked(alt, src) == Worded(alt, Assigned(alt, Cleaned(alt, src)))

(* The first alternative that yields something.                            *)
ChosenFitting(alts, src) ==  \* mutant: an alternative that throws is passed
    SelectInSeq(alts, LAMBDA alt : /\ alt.attr \in DOMAIN src
                                   /\ Cooked(alt, src).val \notin {Null, Throw})

Chosen(alts, src) ==
    SelectInSeq(alts, LAMBDA alt : /\ alt.attr \in DOMAIN src
                                   /\ Cooked(alt, src).val # Null)

(* A structured alternative unwraps an array of one.                       *)
Unwrapped(alt, r) == IF alt # Bare(alt.attr) /\ IsArr(r.val) /\ Len(r.val.es) = 1
                     THEN Read(r.val.es[1], Nowhere) ELSE r

Wrapped(name, r) == IF name \in Forced /\ r.val \notin {Null, Throw} /\ ~IsArr(r.val)
                    THEN Read(Arr(<<r.val>>), Nowhere) ELSE r

FoundIn(claim, n, src) ==
    IF n = 0 THEN Read(Null, Nowhere)
    ELSE Wrapped(claim.name, Unwrapped(claim.alts[n],
                                       Cooked(claim.alts[n], src)))

(* What finding the claim does to the entry: an array that was not copied  *)
(* on the way to the assignment stays reversed.                            *)
Put(src, at, v) == IF at[2] = "" THEN [src EXCEPT ![at[1]] = v]
                   ELSE [src EXCEPT ![at[1]].m[at[2]] = v]

Reversed(alt, r, src) == IF Assigns(alt, r) /\ r.at # Nowhere
                         THEN Put(src, r.at, Arr(Reverse(r.val.es))) ELSE src
Used(claim, n, src) ==
    IF n = 0 THEN src
    ELSE Reversed(claim.alts[n], Cleaned(claim.alts[n], src), src)

(* ... and to the mapping: the keys are reversed twice.                    *)
KeysAfter(keys) == Reverse(Reverse(keys))

MapAfter(m, i, n, src) ==
    IF n # 0 /\ Assigns(m[i].alts[n], Cleaned(m[i].alts[n], src))
    THEN [m EXCEPT ![i].alts[n].keys = KeysAfter(@)] ELSE m

-----------------------------------------------------------------------------
Init == /\ cfg \in Mappings
        /\ map = cfg
        /\ entry \in Entries
        /\ source = Labeled(entry)
        /\ next = 1
        /\ target = <<>>
        /\ status = "mapping"

Below(name) == {n \in DOMAIN target : Len(n) = 2 /\ n[1] = name[1]}

AbsentNever(v) == FALSE  \* mutant: `if (value !== null)` dropped
Absent(v) == v = Null

(* mapClaim.  A claim without a value leaves the result alone.             *)
Skips(r, src) == /\ Absent(r.val)
                 /\ source' = src
                 /\ UNCHANGED <<target, status>>

Sets(r) == r.val # Throw /\ ~Absent(r.val) /\ UNCHANGED status

(* A plain name replaces whatever was there.                               *)
SetsPlain(name, r, src) ==
    /\ Sets(r) /\ Len(name) = 1
    /\ target' = With(Restrict(target, DOMAIN target \ Below(name)), name, r)
    /\ source' = src

(* Below a name without a value an object is created.                      *)
SetsInNew(name, r, src) ==
    /\ Sets(r) /\ Len(name) = 2
    /\ Base(name) \notin DOMAIN target
    /\ target' = With(With(target, Base(name), Read(Obj(<<>>), Nowhere)), name, r)
    /\ source' = src

(* An object takes the claim: the entry's own, in which every claim that   *)
(* holds it finds what is set, or one made for the claim above.  The code  *)
(* writes it into that object of the entry; here it stays in target, under *)
(* its place in source, and LabelAssumption has nobody read it back.  On   *)
(* an array it is a property (no index) that JSON does not show.           *)
Holder(base) == IF target[base].at = Nowhere THEN base ELSE target[base].at

SetsBelow(name, r, src) ==
    /\ Sets(r) /\ Len(name) = 2
    /\ Base(name) \in DOMAIN target
    /\ LET base == Current(target[Base(name)], src)
       IN  /\ base.t # "str"
           /\ target' = IF IsObj(base)
                        THEN With(target, Append(Holder(Base(name)), name[2]), r)
                        ELSE target
    /\ source' = src

(* A conversion throws, or a string is asked to take a property.           *)
Throws(name, r, src) ==
    /\ \/ r.val = Throw
       \/ /\ ~Absent(r.val) /\ Len(name) = 2
          /\ Base(name) \in DOMAIN target
          /\ Current(target[Base(name)], src).t = "str"
    /\ status' = "threw"
    /\ source' = src
    /\ UNCHANGED target

Outcome(name, r, src) == \/ Skips(r, src)
                         \/ SetsPlain(name, r, src)
                         \/ SetsInNew(name, r, src)
                         \/ SetsBelow(name, r, src)
                         \/ Throws(name, r, src)

MapClaim ==
    /\ status = "mapping" /\ next <= Len(map)
    /\ \E n \in {Chosen(map[next].alts, source)} :
          /\ Outcome(map[next].name, FoundIn(map[next], n, source),
                     Used(map[next], n, source))
          /\ map' = MapAfter(map, next, n, source)
    /\ next' = next + 1
    /\ UNCHANGED <<cfg, entry>>

Finish == /\ status = "mapping" /\ next > Len(map)
          /\ status' = "done"
          /\ UNCHANGED <<cfg, map, entry, source, next, target>>

(* The next lookup, of an entry with the same mapping.                     *)
MapNext(e) == /\ status \in {"done", "threw"}
              /\ entry' = e
              /\ source' = Labeled(e)
              /\ next' = 1
              /\ target' = <<>>
              /\ status' = "mapping"
              /\ UNCHANGED <<cfg, map>>

Next == MapClaim \/ Finish \/ \E e \in Entries : MapNext(e)

Spec == Init /\ [][Next]_vars

-----------------------------------------------------------------------------
(* Every claim that is set has a value, and one that is held by reference  *)
(* is still in the entry.                                                  *)
TypeOK ==
    /\ status \in {"mapping", "done", "threw"}
    /\ next \in 1..(Len(cfg) + 1)
    /\ DOMAIN source = DOMAIN entry
    /\ \A name \in DOMAIN target :
          /\ Len(name) = 2 => Base(name) \in DOMAIN target
          /\ \/ target[name].at = Nowhere
             \/ target[name].at[1] \in DOMAIN source
          /\ Current(target[name], source).t \in {"str", "arr", "obj"}

(* mapping/README.md on assign: the keys take the values from the end, and *)
(* the key listed first pulls all the rest into an array.                  *)
DocAssign(keys, es) ==
    LET spare == Len(es) - Len(keys)
        paired == {j \in DOMAIN keys : spare + j >= 1 /\ es[spare + j] # Null}
        each == [k \in {keys[j] : j \in paired} |->
                    es[spare + CHOOSE j \in paired : keys[j] = k]]
    IN  Obj(IF spare > 0 THEN With(each, keys[1], Arr(SubSeq(es, 1, spare + 1)))
            ELSE each)

(* The value a claim should have, of an entry that nobody changes.         *)
Apply(on, v, Op(_)) == IF on /\ v \notin {Null, Throw} THEN Op(v) ELSE v

(* A label picks one of the labeled URIs; a plain attribute has none that  *)
(* it could pick, and the claim stays without a value (the test "labeled   *)
(* mapping without labels", 02_mapclaims.test.js, lines 195-211).          *)
DocLabel(alt, v) == IF alt.label = "" THEN v
                    ELSE IF IsObj(v) /\ alt.label \in DOMAIN v.m
                         THEN v.m[alt.label] ELSE Null

DocClean(alt, e) ==
    Apply(alt.json, Apply(alt.swap, Apply(alt.sep, DocLabel(alt, e[alt.attr]), Split),
                          Replace), Json)
DocSet(alt, v) == IF alt.keys # <<>> /\ IsArr(v) THEN DocAssign(alt.keys, v.es) ELSE v
DocOne(alt, v) == IF alt # Bare(alt.attr) /\ IsArr(v) /\ Len(v.es) = 1
                  THEN v.es[1] ELSE v
DocAlt(alt, e) ==
    Apply(alt.lower, Apply(alt.suffix, DocSet(alt, DocClean(alt, e)), Extend), Lower)

(* The first alternative that has a value, in an array if that is forced.  *)
DocFirst(claim, some, e) ==
    IF some = {} THEN Null
    ELSE LET first == CHOOSE n \in some : \A m \in some : n <= m
         IN  DocOne(claim.alts[first], DocAlt(claim.alts[first], e))
DocForced(name, v) == IF name \in Forced /\ v \notin {Null, Throw} /\ ~IsArr(v)
                      THEN Arr(<<v>>) ELSE v
DocValue(claim, e) ==
    DocForced(claim.name,
              DocFirst(claim, {n \in DOMAIN claim.alts :
                                  /\ claim.alts[n].attr \in DOMAIN e
                                  /\ DocAlt(claim.alts[n], e) # Null}, e))

(* Arrays of the entry from which some claim assigns without a copy: the   *)
(* others that read them may see them in reverse.                          *)
Borrows(alt, r) == IF Assigns(alt, r) THEN {r.at} \ {Nowhere} ELSE {}
Borrowed(m, e) ==
    UNION {Borrows(alt, Cleaned(alt, e)) :
              alt \in {a \in UNION {ToSet(m[i].alts) : i \in DOMAIN m} :
                          a.attr \in DOMAIN e}}

Turned(e, S) ==
    LET turn(v, at) == IF at \in S THEN Arr(Reverse(v.es)) ELSE v
    IN  [a \in DOMAIN e |->
            IF IsObj(e[a])
            THEN Obj([l \in DOMAIN e[a].m |-> turn(e[a].m[l], <<a, l>>)])
            ELSE turn(e[a], <<a, "">>)]

Readings(m, e) == {Turned(e, S) : S \in SUBSET Borrowed(m, e)}

(* The claims that have a value, and the values each may have.             *)
GivenClaims == {i \in DOMAIN cfg : DocValue(cfg[i], Labeled(entry)) # Null}
DocValues == [i \in DOMAIN cfg |->
                 {DocValue(cfg[i], e) : e \in Readings(cfg, Labeled(entry))}]

(* The value below which a dotted claim is set, if there is one.           *)
Bases(given, i) == {j \in given : j < i /\ cfg[j].name = Base(cfg[i].name)}
BaseIs(given, values, i, t) ==
    Len(cfg[i].name) = 2 /\ \E j \in Bases(given, i) : \A v \in values[j] : v.t = t

Shown(given, values, i) ==
    /\ i \in given
    /\ ~BaseIs(given, values, i, "arr")
    /\ \A j \in given : j > i => cfg[j].name # Base(cfg[i].name)

(* A claim set in the labeled URIs themselves is also set in the other     *)
(* claims that hold them, and one of these may replace it.                 *)
Apart(i) == \A j \in DOMAIN cfg : ~SetInUris(cfg[i], cfg[j])
Places(name) == {name, Base(name)} \cup
                (IF Len(name) = 2 THEN {<<UriAttr, "", name[2]>>} ELSE {})

(* The code takes a plain attribute as it is where that test expects no    *)
(* claim: a lookup that asks one for a label is not one of the documented. *)
Mislabeled(alt, e) == /\ alt.label # "" /\ alt.attr \in DOMAIN e
                      /\ ~IsObj(e[alt.attr])
LabelsFit == \A i \in DOMAIN cfg : \A n \in DOMAIN cfg[i].alts :
                 ~Mislabeled(cfg[i].alts[n], Labeled(entry))

(* The result is the one mapping/README.md describes, claim by claim: the  *)
(* aliasing of entry and claims never does more than reverse an array that *)
(* some claim assigns from uncopied, a later claim replaces an earlier one *)
(* only under its own name, and nothing else is in the result.             *)
AsDocumented(given, values) ==
    /\ \A i \in DOMAIN cfg :
          Shown(given, values, i) /\ Apart(i) =>
              /\ cfg[i].name \in DOMAIN target
              /\ Current(target[cfg[i].name], source) \in values[i]
    /\ \A name \in DOMAIN target : \E i \in given : name \in Places(cfg[i].name)

ClaimsAsDocumented ==
    status = "done" /\ LabelsFit => AsDocumented(GivenClaims, DocValues)

(* A mapping fails as a whole, and the lookup with it, only for a claim    *)
(* whose conversions do not fit its value or that is set below a string.   *)
Unfit(given, values, i) == \/ Throw \in values[i]
                           \/ i \in given /\ BaseIs(given, values, i, "str")
SomeUnfit(given, values) == \E i \in DOMAIN cfg : Unfit(given, values, i)

FailsOnlyUnfit == status # "mapping" /\ LabelsFit =>
                     (status = "threw" <=> SomeUnfit(GivenClaims, DocValues))
=============================================================================
