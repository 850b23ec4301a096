------------------------ MODULE DirectoryLookupProofs -----------------------
(***************************************************************************)
(* What is proved of the lookups, for every restriction, nested to any     *)
(* depth.  The functions of DirectoryLookup recurse over nested values; a  *)
(* function is shown to satisfy its equation by iterating the equation     *)
(* once for each level of nesting, and the lemmas about it go by induction *)
(* over the levels.                                                        *)
(***************************************************************************)
EXTENDS DirectoryLookup, SequenceTheorems, WellFoundedInduction, TLAPS

Levels == 0..Depth + 1

LEMMA DepthIsNat == Depth \in Nat \ {0}
    BY LookupAssumption DEF LookupAssumption

-----------------------------------------------------------------------------
(* Induction over the naturals, for a set of numbers.                      *)
LEMMA Counting ==
    ASSUME NEW T \in SUBSET Nat, 0 \in T, \A n \in T : n + 1 \in T
    PROVE  T = Nat
<1>1. SUFFICES ASSUME T # Nat PROVE FALSE
    OBVIOUS
<1>2. Nat \ T \subseteq Nat /\ Nat \ T # {}
    BY <1>1
<1>3. \E d \in Nat \ T : \A e \in Nat \ T : ~(<<e, d>> \in OpToRel(<, Nat))
    BY <1>2, NatLessThanWellFounded, WFMin, Zenon
<1>4. \A d, e \in Nat : ~(<<e, d>> \in OpToRel(<, Nat)) => ~(e < d)
    BY Zenon DEF OpToRel
<1>5. PICK d \in Nat \ T : \A e \in Nat \ T : ~(e < d)
    BY <1>3, <1>4
<1>6. d # 0 /\ d - 1 \in T
    BY <1>5
<1>7. d - 1 + 1 \in T
    BY <1>6
<1> QED BY <1>5, <1>6, <1>7

(* What holds at level 0 and goes from one to the next holds of all.       *)
LEMMA LevelInduction ==
    ASSUME NEW T \in SUBSET Levels, 0 \in T,
           \A n \in T : n + 1 \in Levels => n + 1 \in T
    PROVE  T = Levels
<1> DEFINE U == {n \in Nat : n \in Levels => n \in T}
<1>1. 0 \in U
    OBVIOUS
<1>2. \A n \in U : n + 1 \in U
    BY DepthIsNat DEF Levels
<1>3. U = Nat
    <2> HIDE DEF U
    <2> QED BY <1>1, <1>2, Counting DEF U
<1>4. \A n \in Nat : n \in U
    BY <1>3
<1>5. \A n \in Levels : n \in Nat
    BY DepthIsNat DEF Levels
<1>6. \A n \in Levels : n \in T
    BY <1>4, <1>5
<1> QED BY <1>6

-----------------------------------------------------------------------------
(* The nested values.                                                      *)
NestedBody(n, level) ==
    IF n = 0 THEN Strings
    ELSE Strings \cup [arr : {TRUE}, s : {""}, es : Seq(level[n - 1])]

LEMMA NestedDefined ==
    \A n \in Levels : Nested[n] = NestedBody(n, Nested)
<1> DEFINE T == {m \in Levels : \E g : /\ g = [n \in Levels |-> g[n]]
                                       /\ \A n \in 0..m : g[n] = NestedBody(n, g)}
<1>1. 0 \in T
    <2> DEFINE g == [n \in Levels |-> Strings]
    <2>1. g = [n \in Levels |-> g[n]]
        OBVIOUS
    <2>2. 0 \in Levels /\ g[0] = NestedBody(0, g)
        BY DepthIsNat DEF NestedBody, Levels
    <2> HIDE DEF g
    <2>3. \A n \in 0..0 : n = 0
        OBVIOUS
    <2>4. \A n \in 0..0 : g[n] = NestedBody(n, g)
        BY <2>2, <2>3
    <2> QED BY <2>1, <2>2, <2>4
<1>2. ASSUME NEW m \in T, m + 1 \in Levels PROVE m + 1 \in T
    <2>1. PICK g : g = [n \in Levels |-> g[n]] /\ \A n \in 0..m : g[n] = NestedBody(n, g)
        OBVIOUS
    <2> DEFINE h == [n \in Levels |-> NestedBody(n, g)]
    <2>0. /\ m \in Nat
          /\ \A n \in 0..(m + 1) : n \in Levels /\ n \in Nat /\ (n # 0 => n - 1 \in 0..m)
        BY <1>2, DepthIsNat DEF Levels
    <2>2. \A n \in 0..m : h[n] = g[n]
        BY <2>0, <2>1
    <2>3. \A n \in 0..(m + 1) : NestedBody(n, h) = NestedBody(n, g)
        <3> HIDE DEF h
        <3> QED BY <2>0, <2>2 DEF NestedBody
    <2>4. h = [n \in Levels |-> h[n]] /\ \A n \in 0..(m + 1) : h[n] = NestedBody(n, h)
        BY <2>0, <2>3
    <2> HIDE DEF h
    <2> QED BY <1>2, <2>4
<1>3. T = Levels
    <2> HIDE DEF T
    <2>1. T \in SUBSET Levels
        BY DEF T
    <2> QED BY <1>1, <1>2, <2>1, LevelInduction
<1>4. Depth + 1 \in T
    BY <1>3, DepthIsNat DEF Levels
<1>5. PICK g : /\ g = [n \in Levels |-> g[n]]
               /\ \A n \in 0..Depth + 1 : g[n] = NestedBody(n, g)
    BY <1>4
<1>6. g = [n \in 0..Depth + 1 |-> NestedBody(n, g)]
    BY <1>5 DEF Levels
<1>7. Nested = CHOOSE x : x = [n \in 0..Depth + 1 |-> NestedBody(n, x)]
    BY DEF Nested, NestedBody
<1>8. Nested = [n \in 0..Depth + 1 |-> NestedBody(n, Nested)]
    BY <1>6, <1>7
<1> QED BY <1>8 DEF Levels

Arrays(S) == [arr : {TRUE}, s : {""}, es : Seq(S)]

LEMMA LevelBelow ==
    ASSUME NEW n \in Levels
    PROVE  n \in Nat /\ n <= Depth + 1 /\ (n # 0 => n - 1 \in Levels)
    BY DepthIsNat DEF Levels

LEMMA NestedLevels ==
    /\ 0 \in Levels /\ Nested[0] = Strings
    /\ \A n \in Levels : n # 0 => Nested[n] = Strings \cup Arrays(Nested[n - 1])
    /\ \A n \in Levels : n + 1 \in Levels => Nested[n + 1] = Strings \cup Arrays(Nested[n])
<1>1. 0 \in Levels
    BY DepthIsNat DEF Levels
<1>2. Nested[0] = Strings
    BY <1>1, NestedDefined DEF NestedBody
<1>3. ASSUME NEW n \in Levels, n # 0
      PROVE  Nested[n] = Strings \cup Arrays(Nested[n - 1])
    BY <1>3, NestedDefined DEF NestedBody, Arrays
<1>4. ASSUME NEW n \in Levels, n + 1 \in Levels
      PROVE  Nested[n + 1] = Strings \cup Arrays(Nested[n])
    <2> DEFINE k == n + 1
    <2>1. k # 0 /\ k - 1 = n
        BY LevelBelow
    <2> HIDE DEF k
    <2>2. k \in Levels
        BY <1>4 DEF k
    <2>3. Nested[k] = Strings \cup Arrays(Nested[k - 1])
        BY <1>3, <2>1, <2>2
    <2>4. Nested[k] = Strings \cup Arrays(Nested[n])
        BY <2>1, <2>3
    <2> QED BY <2>4 DEF k
<1> QED BY <1>1, <1>2, <1>3, <1>4

LEMMA NestedGrows ==
    ASSUME NEW m \in Levels, NEW n \in Levels, m <= n
    PROVE  Nested[m] \subseteq Nested[n]
<1> DEFINE T == {k \in Levels : k + 1 \in Levels => Nested[k] \subseteq Nested[k + 1]}
<1>2. 0 \in T
    BY NestedLevels
<1>3. ASSUME NEW k \in T, k + 1 \in Levels PROVE k + 1 \in T
    <2>1. k \in Levels /\ Nested[k] \subseteq Nested[k + 1]
        BY <1>3
    <2>2. Arrays(Nested[k]) \subseteq Arrays(Nested[k + 1])
        <3>1. Seq(Nested[k]) \subseteq Seq(Nested[k + 1])
            BY <2>1
        <3> QED BY <3>1 DEF Arrays
    <2>3. Nested[k + 1] = Strings \cup Arrays(Nested[k])
        BY <1>3, <2>1, NestedLevels
    <2>4. k + 1 + 1 \in Levels => Nested[k + 1 + 1] = Strings \cup Arrays(Nested[k + 1])
        BY <1>3, NestedLevels
    <2>5. k + 1 + 1 \in Levels => Nested[k + 1] \subseteq Nested[k + 1 + 1]
        BY <2>2, <2>3, <2>4
    <2> QED BY <1>3, <2>5
<1>4. T = Levels
    <2> HIDE DEF T
    <2>1. T \in SUBSET Levels
        BY DEF T
    <2> QED BY <1>2, <1>3, <2>1, LevelInduction
<1> DEFINE U == {k \in Levels : m <= k => Nested[m] \subseteq Nested[k]}
<1>5. 0 \in U
    <2>1. m = 0 \/ ~(m <= 0)
        BY LevelBelow
    <2> QED BY <2>1, NestedLevels
<1>6. ASSUME NEW k \in U, k + 1 \in Levels PROVE k + 1 \in U
    <2>1. k \in Levels /\ k \in Nat /\ m \in Nat
        BY <1>6, LevelBelow
    <2>2. Nested[k] \subseteq Nested[k + 1]
        BY <1>4, <1>6, <2>1
    <2> QED BY <1>6, <2>1, <2>2
<1>7. U = Levels
    <2> HIDE DEF U
    <2>1. U \in SUBSET Levels
        BY DEF U
    <2> QED BY <1>5, <1>6, <2>1, LevelInduction
<1> QED BY <1>7

(* What a value of a level looks like: a string, or an array of values of  *)
(* the level below.                                                        *)
LEMMA ValueForms ==
    ASSUME NEW n \in Levels, NEW f \in Nested[n]
    PROVE  /\ f \in Value
           /\ n # 0 => n - 1 \in Levels
           /\ \/ ~f.arr /\ f.s \in Words /\ f.es = <<>> /\ f = Lit(f.s)
              \/ f.arr /\ n # 0 /\ f.s = "" /\ f.es \in Seq(Nested[n - 1]) /\ f = Arr(f.es)
<1>1. Depth + 1 \in Levels /\ n <= Depth + 1 /\ (n # 0 => n - 1 \in Levels)
    BY DepthIsNat, LevelBelow DEF Levels
<1>2. f \in Value
    BY <1>1, NestedGrows DEF Value
<1>3. f \in Strings \/ (n # 0 /\ f \in Arrays(Nested[n - 1]))
    BY NestedLevels
<1>4. \/ ~f.arr /\ f.s \in Words /\ f.es = <<>> /\ f = Lit(f.s)
      \/ f.arr /\ n # 0 /\ f.s = "" /\ f.es \in Seq(Nested[n - 1]) /\ f = Arr(f.es)
    BY <1>3 DEF Arrays, Strings, Lit, Arr
<1> QED BY <1>1, <1>2, <1>4

LEMMA ValueOf ==
    ASSUME NEW n \in Levels
    PROVE  /\ \A w \in Words : Lit(w) \in Nested[n]
           /\ n # 0 => \A es \in Seq(Nested[n - 1]) : Arr(es) \in Nested[n]
<1>1. \A w \in Words : Lit(w) \in Strings
    BY DEF Strings, Lit
<1>2. n # 0 => \A es \in Seq(Nested[n - 1]) : Arr(es) \in Arrays(Nested[n - 1])
    BY DEF Arrays, Arr
<1> QED BY <1>1, <1>2, NestedLevels

LEMMA ElementsBelow ==
    ASSUME NEW n \in Levels, NEW f \in Nested[n], NEW i \in 1..Len(f.es)
    PROVE  n # 0 /\ n - 1 \in Levels /\ f.es[i] \in Nested[n - 1] /\ f.es[i] \in Value
<1>0. f.es # <<>>
    OBVIOUS
<1>1. f.arr /\ n # 0 /\ n - 1 \in Levels /\ f.es \in Seq(Nested[n - 1])
    BY <1>0, ValueForms
<1>2. f.es[i] \in Nested[n - 1]
    BY <1>1
<1> QED BY <1>1, <1>2, ValueForms

LEMMA TopLevel == Depth + 1 \in Levels /\ Value = Nested[Depth + 1]
    BY DepthIsNat DEF Levels, Value

-----------------------------------------------------------------------------
(* The functions satisfy their equations: each of them looks at smaller    *)
(* values only, so the equation depends on the function below a value.     *)
Agree(n, g, h) == n # 0 => \A e \in Nested[n - 1] : g[e] = h[e]

BuildBody(f, build) ==
    LET es == Elements(f)
        operands == Tail(es)
        built == [i \in DOMAIN operands |->
                    IF Nonempty(operands[i]) THEN build[operands[i]] ELSE EmptyFilter]
    IN  IF es = <<>> THEN EmptyFilter
        ELSE IF Head(es) \in {And, Or} THEN Joined(Head(es), Filled(built))
        ELSE IF Head(es) = Not
             THEN IF Len(es) > 1 /\ Nonempty(es[2])
                  THEN Arr(<<Not, build[es[2]]>>) ELSE EmptyFilter
        ELSE IF Head(es).arr THEN build[Head(es)] ELSE Head(es)

LEMMA BuildBelow ==
    ASSUME NEW n \in Levels, NEW f \in Nested[n], NEW g, NEW h, Agree(n, g, h)
    PROVE  BuildBody(f, g) = BuildBody(f, h)
<1> DEFINE es == Elements(f)
           Built(x) == [i \in DOMAIN Tail(es) |->
                          IF Nonempty(Tail(es)[i]) THEN x[Tail(es)[i]] ELSE EmptyFilter]
<1>1. ASSUME NEW i \in 1..Len(es), f.arr PROVE g[es[i]] = h[es[i]]
    BY <1>1, ElementsBelow DEF Agree, Elements
<1>2. CASE f.arr
    <2>0. es = f.es /\ \E S : es \in Seq(S)
        BY <1>2, ValueForms DEF Elements
    <2>1. es # <<>> => Len(es) \in Nat \ {0} /\ Head(es) = es[1]
        <3> HIDE DEF es
        <3> QED BY <2>0
    <2>2. ASSUME es # <<>> PROVE Built(g) = Built(h)
        <3>1. /\ Len(es) \in Nat /\ DOMAIN Tail(es) = 1..(Len(es) - 1)
              /\ \A i \in DOMAIN Tail(es) : Tail(es)[i] = es[i + 1] /\ i + 1 \in 1..Len(es)
            <4>1. PICK S : es \in Seq(S)
                BY <2>0
            <4> HIDE DEF es
            <4> QED BY <2>2, <4>1
        <3>2. \A i \in DOMAIN Tail(es) : g[Tail(es)[i]] = h[Tail(es)[i]]
            BY <1>1, <1>2, <3>1
        <3> HIDE DEF es
        <3> QED BY <3>2
    <2>3. es # <<>> => g[Head(es)] = h[Head(es)] /\ (Len(es) > 1 => g[es[2]] = h[es[2]])
        BY <1>1, <1>2, <2>1
    <2> QED BY <2>2, <2>3 DEF BuildBody
<1>3. CASE ~f.arr
    <2>1. es = <<>> \/ es = <<f>>
        BY <1>3 DEF Elements
    <2>2. CASE es = <<>>
        BY <2>2 DEF BuildBody
    <2>3. CASE es = <<f>>
        <3>1. Tail(es) = <<>> /\ Head(es) = f /\ Len(es) = 1 /\ Built(g) = Built(h)
            BY <2>3
        <3> QED BY <1>3, <3>1 DEF BuildBody
    <2> QED BY <2>1, <2>2, <2>3
<1> QED BY <1>2, <1>3

LEMMA BuildDefined == \A f \in Value : Build[f] = BuildBody(f, Build)
<1> DEFINE Solves(m, g) == /\ g = [f \in Value |-> g[f]]
                           /\ \A n \in Levels : n < m =>
                                 \A f \in Nested[n] : g[f] = BuildBody(f, g)
           T == {m \in Nat : \E g : Solves(m, g)}
<1>1. 0 \in T
    <2> DEFINE g == [f \in Value |-> EmptyFilter]
    <2>1. g = [f \in Value |-> g[f]]
        OBVIOUS
    <2> HIDE DEF g
    <2>2. Solves(0, g)
        BY <2>1, LevelBelow
    <2> QED BY <2>2
<1>2. ASSUME NEW m \in T PROVE m + 1 \in T
    <2>1. PICK g : Solves(m, g)
        OBVIOUS
    <2> DEFINE h == [f \in Value |-> BuildBody(f, g)]
    <2>2. ASSUME NEW n \in Levels, n < m + 1, NEW f \in Nested[n]
          PROVE  h[f] = BuildBody(f, h)
        <3>1. f \in Value
            BY ValueForms
        <3>2. ASSUME n # 0, NEW e \in Nested[n - 1] PROVE g[e] = h[e]
            <4>1. n - 1 \in Levels /\ n - 1 < m
                BY <2>2, <3>2, LevelBelow
            <4>2. e \in Value
                BY <4>1, ValueForms
            <4>3. g[e] = BuildBody(e, g)
                BY <2>1, <4>1
            <4> QED BY <4>2, <4>3
        <3>3. Agree(n, g, h)
            BY <3>2 DEF Agree
        <3>4. BuildBody(f, g) = BuildBody(f, h)
            BY <3>3, BuildBelow
        <3> QED BY <3>1, <3>4
    <2>3. h = [f \in Value |-> h[f]]
        OBVIOUS
    <2> HIDE DEF h
    <2>4. Solves(m + 1, h)
        BY <2>2, <2>3
    <2> QED BY <2>4
<1>3. T = Nat
    <2> HIDE DEF T
    <2>1. T \in SUBSET Nat
        BY DEF T
    <2> QED BY <1>1, <1>2, <2>1, Counting
<1>4. PICK g : Solves(Depth + 2, g)
    BY <1>3, DepthIsNat
<1>5. \A f \in Value : g[f] = BuildBody(f, g)
    <2>1. Depth + 1 < Depth + 2
        BY DepthIsNat
    <2> QED BY <1>4, <2>1, TopLevel
<1>6. g = [f \in Value |-> BuildBody(f, g)]
    <2> HIDE DEF Solves
    <2>1. g = [f \in Value |-> g[f]]
        BY <1>4 DEF Solves
    <2> QED BY <1>5, <2>1
<1>7. Build = CHOOSE x : x = [f \in Value |-> BuildBody(f, x)]
    BY DEF Build, BuildBody
<1>8. Build = [f \in Value |-> BuildBody(f, Build)]
    BY <1>6, <1>7
<1> QED BY <1>8

LeftOverBody(f, left) ==
    LET rest == Tail(f.es)
        taken == [i \in DOMAIN rest |-> left[rest[i]]]
    IN  IF ~f.arr \/ f.es = <<>> THEN f
        ELSE IF Head(f.es) \in {And, Or} THEN Arr(taken)
        ELSE IF Head(f.es) = Not /\ rest # <<>> THEN Arr(Tail(rest))
        ELSE Arr(rest)

(* The elements after the first, which And, Or and Not look at.            *)
LEMMA RestBelow ==
    ASSUME NEW n \in Levels, NEW f \in Nested[n], f.es # <<>>
    PROVE  /\ n # 0 /\ n - 1 \in Levels /\ f.es \in Seq(Nested[n - 1])
           /\ Len(f.es) \in Nat \ {0} /\ Head(f.es) = f.es[1]
           /\ Tail(f.es) \in Seq(Nested[n - 1])
           /\ DOMAIN Tail(f.es) = 1..(Len(f.es) - 1)
           /\ \A i \in DOMAIN Tail(f.es) : Tail(f.es)[i] = f.es[i + 1]
           /\ \A i \in 2..Len(f.es) : i - 1 \in DOMAIN Tail(f.es)
<1>1. n # 0 /\ n - 1 \in Levels /\ f.es \in Seq(Nested[n - 1])
    BY ValueForms
<1> DEFINE es == f.es
<1>2. es # <<>> /\ es \in Seq(Nested[n - 1])
    BY <1>1
<1> HIDE DEF es
<1>3. /\ Len(es) \in Nat \ {0} /\ Head(es) = es[1]
      /\ Tail(es) \in Seq(Nested[n - 1])
      /\ DOMAIN Tail(es) = 1..(Len(es) - 1)
      /\ \A i \in DOMAIN Tail(es) : Tail(es)[i] = es[i + 1]
    BY <1>2
<1>4. \A i \in 2..Len(es) : i - 1 \in DOMAIN Tail(es)
    BY <1>3
<1> QED BY <1>1, <1>3, <1>4 DEF es

LEMMA AgreeOnRest ==
    ASSUME NEW n \in Levels, NEW f \in Nested[n], NEW g, NEW h, Agree(n, g, h)
    PROVE  /\ \A i \in 2..Len(f.es) : g[f.es[i]] = h[f.es[i]]
           /\ f.es # <<>> => g[Head(f.es)] = h[Head(f.es)]
<1>1. CASE f.es = <<>>
    BY <1>1
<1>2. CASE f.es # <<>>
    <2>1. /\ n # 0 /\ Len(f.es) \in Nat \ {0} /\ Head(f.es) = f.es[1]
          /\ f.es \in Seq(Nested[n - 1])
        BY <1>2, RestBelow
    <2>2. \A i \in 1..Len(f.es) : f.es[i] \in Nested[n - 1]
        BY <2>1
    <2>3. \A i \in 1..Len(f.es) : g[f.es[i]] = h[f.es[i]]
        BY <2>1, <2>2 DEF Agree
    <2> QED BY <2>1, <2>3
<1> QED BY <1>1, <1>2

LEMMA LeftOverBelow ==
    ASSUME NEW n \in Levels, NEW f \in Nested[n], NEW g, NEW h, Agree(n, g, h)
    PROVE  LeftOverBody(f, g) = LeftOverBody(f, h)
<1> DEFINE rest == Tail(f.es)
           Left(x) == [i \in DOMAIN rest |-> x[rest[i]]]
<1>1. CASE f.es = <<>> \/ ~f.arr
    BY <1>1 DEF LeftOverBody
<1>2. CASE f.es # <<>> /\ f.arr
    <2>1. n # 0 /\ \A i \in DOMAIN rest : rest[i] \in Nested[n - 1]
        BY <1>2, RestBelow
    <2>2. Left(g) = Left(h)
        BY <2>1 DEF Agree
    <2> QED BY <1>2, <2>2 DEF LeftOverBody
<1> QED BY <1>1, <1>2

LEMMA LeftOverDefined == \A f \in Value : LeftOver[f] = LeftOverBody(f, LeftOver)
<1> DEFINE Solves(m, g) == /\ g = [f \in Value |-> g[f]]
                           /\ \A n \in Levels : n < m =>
                                 \A f \in Nested[n] : g[f] = LeftOverBody(f, g)
           T == {m \in Nat : \E g : Solves(m, g)}
<1>1. 0 \in T
    <2> DEFINE g == [f \in Value |-> EmptyFilter]
    <2>1. g = [f \in Value |-> g[f]]
        OBVIOUS
    <2> HIDE DEF g
    <2>2. Solves(0, g)
        BY <2>1, LevelBelow
    <2> QED BY <2>2
<1>2. ASSUME NEW m \in T PROVE m + 1 \in T
    <2>1. PICK g : Solves(m, g)
        OBVIOUS
    <2> DEFINE h == [f \in Value |-> LeftOverBody(f, g)]
    <2>2. ASSUME NEW n \in Levels, n < m + 1, NEW f \in Nested[n]
          PROVE  h[f] = LeftOverBody(f, h)
        <3>1. f \in Value
            BY ValueForms
        <3>2. ASSUME n # 0, NEW e \in Nested[n - 1] PROVE g[e] = h[e]
            <4>1. n - 1 \in Levels /\ n - 1 < m
                BY <2>2, <3>2, LevelBelow
            <4>2. e \in Value
                BY <4>1, ValueForms
            <4>3. g[e] = LeftOverBody(e, g)
                BY <2>1, <4>1
            <4> QED BY <4>2, <4>3
        <3>3. Agree(n, g, h)
            BY <3>2 DEF Agree
        <3>4. LeftOverBody(f, g) = LeftOverBody(f, h)
            BY <3>3, LeftOverBelow
        <3> QED BY <3>1, <3>4
    <2>3. h = [f \in Value |-> h[f]]
        OBVIOUS
    <2> HIDE DEF h
    <2>4. Solves(m + 1, h)
        BY <2>2, <2>3
    <2> QED BY <2>4
<1>3. T = Nat
    <2> HIDE DEF T
    <2>1. T \in SUBSET Nat
        BY DEF T
    <2> QED BY <1>1, <1>2, <2>1, Counting
<1>4. PICK g : Solves(Depth + 2, g)
    BY <1>3, DepthIsNat
<1>5. \A f \in Value : g[f] = LeftOverBody(f, g)
    <2>1. Depth + 1 < Depth + 2
        BY DepthIsNat
    <2> QED BY <1>4, <2>1, TopLevel
<1>6. g = [f \in Value |-> LeftOverBody(f, g)]
    <2> HIDE DEF Solves
    <2>1. g = [f \in Value |-> g[f]]
        BY <1>4 DEF Solves
    <2> QED BY <1>5, <2>1
<1>7. LeftOver = CHOOSE x : x = [f \in Value |-> LeftOverBody(f, x)]
    BY DEF LeftOver, LeftOverBody
<1>8. LeftOver = [f \in Value |-> LeftOverBody(f, LeftOver)]
    BY <1>6, <1>7
<1> QED BY <1>8

SelectedBody(q, selected) ==
    LET parts == {selected[q.es[i]] : i \in 2..Len(q.es)}
    IN  IF q.es = <<>> THEN Having(q.s)
        ELSE IF Head(q.es) = And THEN InAll(parts)
        ELSE IF Head(q.es) = Or THEN UNION parts
        ELSE Entries \ UNION parts

LEMMA SelectedBelow ==
    ASSUME NEW n \in Levels, NEW f \in Nested[n], NEW g, NEW h, Agree(n, g, h)
    PROVE  SelectedBody(f, g) = SelectedBody(f, h)
<1> DEFINE Parts(x) == {x[f.es[i]] : i \in 2..Len(f.es)}
<1>1. Parts(g) = Parts(h)
    BY AgreeOnRest
<1> HIDE DEF Parts
<1>2. \A x : SelectedBody(f, x) =
          IF f.es = <<>> THEN Having(f.s)
          ELSE IF Head(f.es) = And THEN InAll(Parts(x))
          ELSE IF Head(f.es) = Or THEN UNION Parts(x)
          ELSE Entries \ UNION Parts(x)
    BY DEF SelectedBody, Parts
<1> QED BY <1>1, <1>2

LEMMA SelectedDefined == \A f \in Value : Selected[f] = SelectedBody(f, Selected)
<1> DEFINE Solves(m, g) == /\ g = [f \in Value |-> g[f]]
                           /\ \A n \in Levels : n < m =>
                                 \A f \in Nested[n] : g[f] = SelectedBody(f, g)
           T == {m \in Nat : \E g : Solves(m, g)}
<1>1. 0 \in T
    <2> DEFINE g == [f \in Value |-> EmptyFilter]
    <2>1. g = [f \in Value |-> g[f]]
        OBVIOUS
    <2> HIDE DEF g
    <2>2. Solves(0, g)
        BY <2>1, LevelBelow
    <2> QED BY <2>2
<1>2. ASSUME NEW m \in T PROVE m + 1 \in T
    <2>1. PICK g : Solves(m, g)
        OBVIOUS
    <2> DEFINE h == [f \in Value |-> SelectedBody(f, g)]
    <2>2. ASSUME NEW n \in Levels, n < m + 1, NEW f \in Nested[n]
          PROVE  h[f] = SelectedBody(f, h)
        <3>1. f \in Value
            BY ValueForms
        <3>2. ASSUME n # 0, NEW e \in Nested[n - 1] PROVE g[e] = h[e]
            <4>1. n - 1 \in Levels /\ n - 1 < m
                BY <2>2, <3>2, LevelBelow
            <4>2. e \in Value
                BY <4>1, ValueForms
            <4>3. g[e] = SelectedBody(e, g)
                BY <2>1, <4>1
            <4> QED BY <4>2, <4>3
        <3>3. Agree(n, g, h)
            BY <3>2 DEF Agree
        <3>4. SelectedBody(f, g) = SelectedBody(f, h)
            BY <3>3, SelectedBelow
        <3> QED BY <3>1, <3>4
    <2>3. h = [f \in Value |-> h[f]]
        OBVIOUS
    <2> HIDE DEF h
    <2>4. Solves(m + 1, h)
        BY <2>2, <2>3
    <2> QED BY <2>4
<1>3. T = Nat
    <2> HIDE DEF T
    <2>1. T \in SUBSET Nat
        BY DEF T
    <2> QED BY <1>1, <1>2, <2>1, Counting
<1>4. PICK g : Solves(Depth + 2, g)
    BY <1>3, DepthIsNat
<1>5. \A f \in Value : g[f] = SelectedBody(f, g)
    <2>1. Depth + 1 < Depth + 2
        BY DepthIsNat
    <2> QED BY <1>4, <2>1, TopLevel
<1>6. g = [f \in Value |-> SelectedBody(f, g)]
    <2> HIDE DEF Solves
    <2>1. g = [f \in Value |-> g[f]]
        BY <1>4 DEF Solves
    <2> QED BY <1>5, <2>1
<1>7. Selected = CHOOSE x : x = [q \in Value |-> SelectedBody(q, x)]
    BY DEF Selected, SelectedBody
<1>8. Selected = [f \in Value |-> SelectedBody(f, Selected)]
    BY <1>6, <1>7
<1> QED BY <1>8

WellFormedBody(q, formed) ==
    q # EmptyFilter /\ \A i \in 2..Len(q.es) : formed[q.es[i]]

LEMMA WellFormedBelow ==
    ASSUME NEW n \in Levels, NEW f \in Nested[n], NEW g, NEW h, Agree(n, g, h)
    PROVE  WellFormedBody(f, g) = WellFormedBody(f, h)
    BY AgreeOnRest DEF WellFormedBody

LEMMA WellFormedDefined == \A f \in Value : WellFormed[f] = WellFormedBody(f, WellFormed)
<1> DEFINE Solves(m, g) == /\ g = [f \in Value |-> g[f]]
                           /\ \A n \in Levels : n < m =>
                                 \A f \in Nested[n] : g[f] = WellFormedBody(f, g)
           T == {m \in Nat : \E g : Solves(m, g)}
<1>1. 0 \in T
    <2> DEFINE g == [f \in Value |-> EmptyFilter]
    <2>1. g = [f \in Value |-> g[f]]
        OBVIOUS
    <2> HIDE DEF g
    <2>2. Solves(0, g)
        BY <2>1, LevelBelow
    <2> QED BY <2>2
<1>2. ASSUME NEW m \in T PROVE m + 1 \in T
    <2>1. PICK g : Solves(m, g)
        OBVIOUS
    <2> DEFINE h == [f \in Value |-> WellFormedBody(f, g)]
    <2>2. ASSUME NEW n \in Levels, n < m + 1, NEW f \in Nested[n]
          PROVE  h[f] = WellFormedBody(f, h)
        <3>1. f \in Value
            BY ValueForms
        <3>2. ASSUME n # 0, NEW e \in Nested[n - 1] PROVE g[e] = h[e]
            <4>1. n - 1 \in Levels /\ n - 1 < m
                BY <2>2, <3>2, LevelBelow
            <4>2. e \in Value
                BY <4>1, ValueForms
            <4>3. g[e] = WellFormedBody(e, g)
                BY <2>1, <4>1
            <4> QED BY <4>2, <4>3
        <3>3. Agree(n, g, h)
            BY <3>2 DEF Agree
        <3>4. WellFormedBody(f, g) = WellFormedBody(f, h)
            BY <3>3, WellFormedBelow
        <3> QED BY <3>1, <3>4
    <2>3. h = [f \in Value |-> h[f]]
        OBVIOUS
    <2> HIDE DEF h
    <2>4. Solves(m + 1, h)
        BY <2>2, <2>3
    <2> QED BY <2>4
<1>3. T = Nat
    <2> HIDE DEF T
    <2>1. T \in SUBSET Nat
        BY DEF T
    <2> QED BY <1>1, <1>2, <2>1, Counting
<1>4. PICK g : Solves(Depth + 2, g)
    BY <1>3, DepthIsNat
<1>5. \A f \in Value : g[f] = WellFormedBody(f, g)
    <2>1. Depth + 1 < Depth + 2
        BY DepthIsNat
    <2> QED BY <1>4, <2>1, TopLevel
<1>6. g = [f \in Value |-> WellFormedBody(f, g)]
    <2> HIDE DEF Solves
    <2>1. g = [f \in Value |-> g[f]]
        BY <1>4 DEF Solves
    <2> QED BY <1>5, <2>1
<1>7. WellFormed = CHOOSE x : x = [f \in Value |-> WellFormedBody(f, x)]
    BY DEF WellFormed, WellFormedBody
<1>8. WellFormed = [f \in Value |-> WellFormedBody(f, WellFormed)]
    BY <1>6, <1>7
<1> QED BY <1>8

ConditionsBody(f, conds) ==
    LET parts == UNION {conds[f.es[i]] : i \in 2..Len(f.es)}
        Ignored(c) == IF parts = {} THEN {} ELSE {c}
    IN  IF f \in {And, Or, Not, EmptyFilter, Arr(<<>>)} THEN {}
        ELSE IF ~f.arr THEN {Having(f.s)}
        ELSE IF Head(f.es) = And THEN Ignored(InAll(parts))
        ELSE IF Head(f.es) = Or THEN Ignored(UNION parts)
        ELSE IF Head(f.es) = Not
             THEN IF Len(f.es) = 1 THEN {} ELSE Complements(conds[f.es[2]])
        ELSE conds[Head(f.es)]

LEMMA ConditionsBelow ==
    ASSUME NEW n \in Levels, NEW f \in Nested[n], NEW g, NEW h, Agree(n, g, h)
    PROVE  ConditionsBody(f, g) = ConditionsBody(f, h)
<1> DEFINE Parts(x) == UNION {x[f.es[i]] : i \in 2..Len(f.es)}
<1>1. Parts(g) = Parts(h)
    BY AgreeOnRest
<1>2. f.es # <<>> => /\ g[Head(f.es)] = h[Head(f.es)]
                     /\ Len(f.es) # 1 => g[f.es[2]] = h[f.es[2]]
    <2> DEFINE k == Len(f.es)
    <2>1. ASSUME f.es # <<>>, k # 1 PROVE 2 \in 2..k
        <3>1. k \in Nat \ {0}
            BY <2>1, RestBelow
        <3> HIDE DEF k
        <3> QED BY <2>1, <3>1
    <2> QED BY <2>1, AgreeOnRest
<1>3. f.arr /\ f # Arr(<<>>) => f.es # <<>>
    BY ValueForms
<1> HIDE DEF Parts
<1> DEFINE Conds(parts, second, first) ==
               LET Ignored(c) == IF parts = {} THEN {} ELSE {c}
               IN  IF f \in {And, Or, Not, EmptyFilter, Arr(<<>>)} THEN {}
                   ELSE IF ~f.arr THEN {Having(f.s)}
                   ELSE IF Head(f.es) = And THEN Ignored(InAll(parts))
                   ELSE IF Head(f.es) = Or THEN Ignored(UNION parts)
                   ELSE IF Head(f.es) = Not
                        THEN IF Len(f.es) = 1 THEN {} ELSE Complements(second)
                   ELSE first
<1>4. \A x : ConditionsBody(f, x) = Conds(Parts(x), x[f.es[2]], x[Head(f.es)])
    BY DEF ConditionsBody, Parts
<1>5. Conds(Parts(g), g[f.es[2]], g[Head(f.es)]) = Conds(Parts(h), h[f.es[2]], h[Head(f.es)])
    <2>1. CASE f.arr /\ f # Arr(<<>>)
        <3>1. g[Head(f.es)] = h[Head(f.es)] /\ (Len(f.es) # 1 => g[f.es[2]] = h[f.es[2]])
            BY <1>2, <1>3, <2>1
        <3>2. CASE Len(f.es) = 1
            BY <1>1, <3>1, <3>2
        <3>3. CASE Len(f.es) # 1
            <4> HIDE DEF Conds
            <4> QED BY <1>1, <3>1, <3>3
        <3> QED BY <3>2, <3>3
    <2>2. CASE ~f.arr \/ f = Arr(<<>>)
        BY <2>2
    <2> QED BY <2>1, <2>2
<1> QED BY <1>4, <1>5

LEMMA ConditionsDefined == \A f \in Value : Conditions[f] = ConditionsBody(f, Conditions)
<1> DEFINE Solves(m, g) == /\ g = [f \in Value |-> g[f]]
                           /\ \A n \in Levels : n < m =>
                                 \A f \in Nested[n] : g[f] = ConditionsBody(f, g)
           T == {m \in Nat : \E g : Solves(m, g)}
<1>1. 0 \in T
    <2> DEFINE g == [f \in Value |-> EmptyFilter]
    <2>1. g = [f \in Value |-> g[f]]
        OBVIOUS
    <2> HIDE DEF g
    <2>2. Solves(0, g)
        BY <2>1, LevelBelow
    <2> QED BY <2>2
<1>2. ASSUME NEW m \in T PROVE m + 1 \in T
    <2>1. PICK g : Solves(m, g)
        OBVIOUS
    <2> DEFINE h == [f \in Value |-> ConditionsBody(f, g)]
    <2>2. ASSUME NEW n \in Levels, n < m + 1, NEW f \in Nested[n]
          PROVE  h[f] = ConditionsBody(f, h)
        <3>1. f \in Value
            BY ValueForms
        <3>2. ASSUME n # 0, NEW e \in Nested[n - 1] PROVE g[e] = h[e]
            <4>1. n - 1 \in Levels /\ n - 1 < m
                BY <2>2, <3>2, LevelBelow
            <4>2. e \in Value
                BY <4>1, ValueForms
            <4>3. g[e] = ConditionsBody(e, g)
                BY <2>1, <4>1
            <4> QED BY <4>2, <4>3
        <3>3. Agree(n, g, h)
            BY <3>2 DEF Agree
        <3>4. ConditionsBody(f, g) = ConditionsBody(f, h)
            BY <3>3, ConditionsBelow
        <3> QED BY <3>1, <3>4
    <2>3. h = [f \in Value |-> h[f]]
        OBVIOUS
    <2> HIDE DEF h
    <2>4. Solves(m + 1, h)
        BY <2>2, <2>3
    <2> QED BY <2>4
<1>3. T = Nat
    <2> HIDE DEF T
    <2>1. T \in SUBSET Nat
        BY DEF T
    <2> QED BY <1>1, <1>2, <2>1, Counting
<1>4. PICK g : Solves(Depth + 2, g)
    BY <1>3, DepthIsNat
<1>5. \A f \in Value : g[f] = ConditionsBody(f, g)
    <2>1. Depth + 1 < Depth + 2
        BY DepthIsNat
    <2> QED BY <1>4, <2>1, TopLevel
<1>6. g = [f \in Value |-> ConditionsBody(f, g)]
    <2> HIDE DEF Solves
    <2>1. g = [f \in Value |-> g[f]]
        BY <1>4 DEF Solves
    <2> QED BY <1>5, <2>1
<1>7. Conditions = CHOOSE x : x = [f \in Value |-> ConditionsBody(f, x)]
    BY DEF Conditions, ConditionsBody
<1>8. Conditions = [f \in Value |-> ConditionsBody(f, Conditions)]
    BY <1>6, <1>7
<1> QED BY <1>8

-----------------------------------------------------------------------------
(* Dropping the empty filters of a sequence.                               *)
UptoBody(qs, i, upto) ==
    IF i = 0 THEN <<>>
    ELSE IF qs[i] = EmptyFilter THEN upto[i - 1] ELSE Append(upto[i - 1], qs[i])

LEMMA FilledDefined ==
    ASSUME NEW S, NEW qs \in Seq(S)
    PROVE  \E upto : /\ \A i \in 0..Len(qs) : upto[i] = UptoBody(qs, i, upto)
                     /\ Filled(qs) = upto[Len(qs)]
<1> DEFINE N == Len(qs)
<1>1. N \in Nat
    OBVIOUS
<1> HIDE DEF N
<1> DEFINE Solves(m, g) == /\ g = [i \in 0..N |-> g[i]]
                           /\ \A i \in 0..N : i < m => g[i] = UptoBody(qs, i, g)
           T == {m \in Nat : \E g : Solves(m, g)}
<1>2. 0 \in T
    <2> DEFINE g == [i \in 0..N |-> <<>>]
    <2>1. g = [i \in 0..N |-> g[i]]
        OBVIOUS
    <2> HIDE DEF g
    <2>2. Solves(0, g)
        BY <1>1, <2>1
    <2> QED BY <2>2
<1>3. ASSUME NEW m \in T PROVE m + 1 \in T
    <2>1. PICK g : Solves(m, g)
        OBVIOUS
    <2> DEFINE h == [i \in 0..N |-> UptoBody(qs, i, g)]
    <2>2. ASSUME NEW i \in 0..N, i < m + 1 PROVE h[i] = UptoBody(qs, i, h)
        <3>1. i # 0 => i - 1 \in 0..N /\ i - 1 < m
            BY <1>1, <2>2
        <3>2. i # 0 => g[i - 1] = h[i - 1]
            BY <2>1, <3>1
        <3>3. UptoBody(qs, i, g) = UptoBody(qs, i, h)
            <4> HIDE DEF h
            <4> QED BY <3>2 DEF UptoBody
        <3> QED BY <3>3
    <2>3. h = [i \in 0..N |-> h[i]]
        OBVIOUS
    <2> HIDE DEF h
    <2>4. Solves(m + 1, h)
        BY <2>2, <2>3
    <2>5. m + 1 \in Nat
        OBVIOUS
    <2> HIDE DEF Solves
    <2> QED BY <2>4, <2>5
<1>4. T = Nat
    <2> HIDE DEF T
    <2>1. T \in SUBSET Nat
        BY DEF T
    <2> QED BY <1>2, <1>3, <2>1, Counting
<1>5. PICK g : Solves(N + 1, g)
    BY <1>1, <1>4
<1>6. \A i \in 0..N : g[i] = UptoBody(qs, i, g)
    BY <1>1, <1>5
<1>7. g = [i \in 0..N |-> UptoBody(qs, i, g)]
    <2> HIDE DEF Solves
    <2>1. g = [i \in 0..N |-> g[i]]
        BY <1>5 DEF Solves
    <2> QED BY <1>6, <2>1
<1> DEFINE u == CHOOSE x : x = [i \in 0..N |-> UptoBody(qs, i, x)]
<1>8. Filled(qs) = u[N]
    BY DEF Filled, UptoBody, N
<1>9. u = [i \in 0..N |-> UptoBody(qs, i, u)]
    BY <1>7
<1> HIDE DEF u
<1>10. \A i \in 0..N : u[i] = UptoBody(qs, i, u)
    BY <1>9
<1> QED BY <1>8, <1>10 DEF N

Keeps(S, qs, m, kept) ==
    /\ kept \in Seq(S)
    /\ \A j \in 1..Len(kept) :
          kept[j] # EmptyFilter /\ \E i \in 1..m : kept[j] = qs[i]
    /\ \A i \in 1..m : qs[i] # EmptyFilter =>
          \E j \in 1..Len(kept) : kept[j] = qs[i]

(* The filters kept are those that are not empty, each of them.            *)
LEMMA FilledKeeps ==
    ASSUME NEW S, NEW qs \in Seq(S)
    PROVE  /\ Filled(qs) \in Seq(S)
           /\ \A j \in 1..Len(Filled(qs)) :
                 /\ Filled(qs)[j] # EmptyFilter
                 /\ \E i \in 1..Len(qs) : Filled(qs)[j] = qs[i]
           /\ \A i \in 1..Len(qs) : qs[i] # EmptyFilter =>
                 \E j \in 1..Len(Filled(qs)) : Filled(qs)[j] = qs[i]
<1> DEFINE N == Len(qs)
<1>1. PICK upto : /\ \A i \in 0..N : upto[i] = UptoBody(qs, i, upto)
                  /\ Filled(qs) = upto[N]
    BY FilledDefined
<1>2. N \in Nat /\ \A i \in 1..N : qs[i] \in S
    OBVIOUS
<1> HIDE DEF N
<1> DEFINE T == {m \in Nat : m <= N => Keeps(S, qs, m, upto[m])}
<1>3. 0 \in T
    <2>1. upto[0] = <<>>
        BY <1>1, <1>2 DEF UptoBody
    <2>2. <<>> \in Seq(S) /\ Len(<<>>) = 0
        OBVIOUS
    <2>3. Keeps(S, qs, 0, upto[0])
        BY <2>1, <2>2 DEF Keeps
    <2> QED BY <2>3
<1>4. ASSUME NEW m \in T PROVE m + 1 \in T
    <2>1. SUFFICES ASSUME m + 1 <= N PROVE Keeps(S, qs, m + 1, upto[m + 1])
        OBVIOUS
    <2>2. m \in Nat /\ m + 1 \in 1..N /\ m + 1 \in 0..N /\ m + 1 - 1 = m /\ m + 1 # 0
        BY <1>2, <2>1
    <2> DEFINE kept == upto[m]
               q == qs[m + 1]
    <2>3. Keeps(S, qs, m, kept) /\ q \in S
        BY <1>2, <2>2
    <2>4. upto[m + 1] = IF q = EmptyFilter THEN kept ELSE Append(kept, q)
        BY <1>1, <2>2 DEF UptoBody
    <2>5. \A i \in 1..(m + 1) : i \in 1..m \/ i = m + 1
        BY <2>2
    <2>6. \A i \in 1..m : i \in 1..(m + 1)
        BY <2>2
    <2>7. CASE q = EmptyFilter
        <3>1. Keeps(S, qs, m + 1, kept)
            <4> HIDE DEF kept
            <4> QED BY <2>3, <2>5, <2>6, <2>7 DEF Keeps
        <3> QED BY <2>4, <2>7, <3>1
    <2>8. CASE q # EmptyFilter
        <3>1. /\ Append(kept, q) \in Seq(S)
              /\ Len(Append(kept, q)) = Len(kept) + 1
              /\ Append(kept, q)[Len(kept) + 1] = q
              /\ \A j \in 1..Len(kept) : Append(kept, q)[j] = kept[j]
              /\ Len(kept) \in Nat
            <4> HIDE DEF kept, q
            <4> QED BY <2>3 DEF Keeps
        <3>2. \A j \in 1..Len(Append(kept, q)) : j \in 1..Len(kept) \/ j = Len(kept) + 1
            BY <3>1
        <3>3. \A j \in 1..Len(kept) : j \in 1..Len(Append(kept, q))
            BY <3>1
        <3>4. Len(kept) + 1 \in 1..Len(Append(kept, q))
            BY <3>1
        <3>5. upto[m + 1] = Append(kept, q)
            BY <2>4, <2>8
        <3> DEFINE longer == Append(kept, q)
        <3> HIDE DEF longer
        <3>6. \A j \in 1..Len(longer) :
                 longer[j] # EmptyFilter /\ \E i \in 1..(m + 1) : longer[j] = qs[i]
            BY <2>2, <2>3, <2>6, <2>8, <3>1, <3>2 DEF longer, Keeps
        <3>7. \A i \in 1..(m + 1) : qs[i] # EmptyFilter =>
                 \E j \in 1..Len(longer) : longer[j] = qs[i]
            BY <2>3, <2>5, <3>1, <3>3, <3>4 DEF longer, Keeps
        <3>8. longer \in Seq(S)
            BY <3>1 DEF longer
        <3>9. Keeps(S, qs, m + 1, longer)
            BY <3>6, <3>7, <3>8 DEF Keeps
        <3> QED BY <3>5, <3>9 DEF longer
    <2> QED BY <2>7, <2>8
<1>5. T = Nat
    <2> HIDE DEF T
    <2>1. T \in SUBSET Nat
        BY DEF T
    <2> QED BY <1>3, <1>4, <2>1, Counting
<1>6. Keeps(S, qs, N, upto[N])
    <2>1. N \in T /\ N <= N
        BY <1>2, <1>5
    <2> QED BY <2>1
<1> QED BY <1>1, <1>6 DEF N, Keeps

LEMMA FilledNone == Filled(<<>>) = <<>>
<1> DEFINE none == <<>>
           kept == Filled(none)
<1>1. none \in Seq(Value) /\ Len(none) = 0
    OBVIOUS
<1> HIDE DEF none
<1>2. /\ kept \in Seq(Value)
      /\ \A j \in 1..Len(kept) : \E i \in 1..Len(none) : kept[j] = none[i]
    BY <1>1, FilledKeeps
<1> HIDE DEF kept
<1>3. \A j \in 1..Len(kept) : FALSE
    BY <1>1, <1>2
<1>4. kept = <<>>
    BY <1>2, <1>3
<1> QED BY <1>4 DEF kept, none

-----------------------------------------------------------------------------
(* What buildFilter makes of each form of value.                           *)
LEMMA Strangers ==
    /\ And # Or /\ And # Not /\ Or # Not
    /\ EmptyFilter \notin {And, Or, Not}
    /\ \A x \in {And, Or, Not, EmptyFilter, AnyObject} :
          ~x.arr /\ x.es = <<>> /\ \A n \in Levels : x \in Nested[n]
<1>1. {"", "&", "|", "!", "objectClass=*"} \subseteq Words
    BY DEF Words
<1>2. \A n \in Levels : \A w \in Words : Lit(w) \in Nested[n]
    BY ValueOf
<1>3. \A x \in {And, Or, Not, EmptyFilter, AnyObject} : \A n \in Levels : x \in Nested[n]
    BY <1>1, <1>2 DEF And, Or, Not, EmptyFilter, AnyObject
<1>4. \A w : ~Lit(w).arr /\ Lit(w).es = <<>> /\ Lit(w).s = w
    BY DEF Lit
<1>5. /\ And.s = "&" /\ Or.s = "|" /\ Not.s = "!" /\ EmptyFilter.s = ""
    BY <1>4 DEF And, Or, Not, EmptyFilter
<1>6. \A x \in {And, Or, Not, EmptyFilter, AnyObject} : ~x.arr /\ x.es = <<>>
    BY <1>4 DEF And, Or, Not, EmptyFilter, AnyObject
<1> QED BY <1>3, <1>5, <1>6

LEMMA BuildString ==
    ASSUME NEW f \in Value, f.es = <<>>
    PROVE  /\ Bare(f) => Build[f] = f
           /\ ~Bare(f) => Build[f] = EmptyFilter
           /\ ~f.arr => (Nonempty(f) <=> f # EmptyFilter)
           /\ f.arr => ~Nonempty(f) /\ f = Arr(<<>>)
<1>1. Build[f] = BuildBody(f, Build)
    BY BuildDefined
<1>2. CASE f.arr
    <2>1. f = Arr(<<>>)
        BY <1>2, ValueForms, TopLevel
    <2> QED BY <1>1, <1>2, <2>1 DEF BuildBody, Elements, Bare, Nonempty
<1>3. CASE ~f.arr
    <2>1. f = Lit(f.s)
        BY <1>3, ValueForms, TopLevel
    <2>2. f.s = "" <=> f = EmptyFilter
        <3>1. EmptyFilter.s = ""
            BY DEF EmptyFilter, Lit
        <3> QED BY <2>1, <3>1 DEF EmptyFilter
    <2>3. CASE f = EmptyFilter
        BY <1>1, <1>3, <2>2, <2>3 DEF BuildBody, Elements, Bare, Nonempty
    <2>4. CASE f # EmptyFilter
        <3> DEFINE es == <<f>>
        <3>1. Elements(f) = es /\ es # <<>> /\ Head(es) = f /\ Tail(es) = <<>> /\ Len(es) = 1
            <4>1. f.s # ""
                BY <2>2, <2>4
            <4>2. Elements(f) = es
                BY <1>3, <4>1 DEF Elements
            <4>3. es # <<>> /\ Head(es) = f /\ Tail(es) = <<>> /\ Len(es) = 1
                OBVIOUS
            <4> QED BY <4>2, <4>3
        <3>2. Nonempty(f)
            BY <1>3, <2>2, <2>4 DEF Nonempty
        <3>3. CASE f \in {And, Or}
            <4>1. Build[f] = Joined(f, Filled([i \in DOMAIN Tail(es) |->
                       IF Nonempty(Tail(es)[i]) THEN Build[Tail(es)[i]] ELSE EmptyFilter]))
                BY <1>1, <3>1, <3>3 DEF BuildBody
            <4>2. [i \in DOMAIN Tail(es) |->
                       IF Nonempty(Tail(es)[i]) THEN Build[Tail(es)[i]] ELSE EmptyFilter] = <<>>
                BY <3>1
            <4>3. Build[f] = EmptyFilter
                BY <4>1, <4>2, FilledNone DEF Joined
            <4> QED BY <1>3, <2>4, <3>2, <3>3, <4>3 DEF Bare
        <3>4. CASE f = Not
            <4>1. Build[f] = EmptyFilter
                BY <1>1, <3>1, <3>4, Strangers DEF BuildBody
            <4> QED BY <1>3, <2>4, <3>2, <3>4, <4>1 DEF Bare
        <3>5. CASE f \notin {And, Or, Not}
            <4>1. Build[f] = f
                BY <1>1, <1>3, <3>1, <3>5 DEF BuildBody
            <4> QED BY <1>3, <2>4, <3>2, <3>5, <4>1 DEF Bare
        <3> QED BY <3>3, <3>4, <3>5
    <2> QED BY <2>3, <2>4
<1> QED BY <1>2, <1>3

LEMMA EmptyBuildsEmpty ==
    ASSUME NEW f \in Value, ~Nonempty(f)
    PROVE  Build[f] = EmptyFilter /\ f \in {EmptyFilter, Arr(<<>>)}
<1>1. f.es = <<>>
    BY ValueForms, TopLevel DEF Nonempty
<1>2. ~Bare(f) /\ f \in {EmptyFilter, Arr(<<>>)}
    BY <1>1, BuildString DEF Bare
<1> QED BY <1>1, <1>2, BuildString

LEMMA BuildJoins ==
    ASSUME NEW n \in Levels, NEW f \in Nested[n], f.es # <<>>, Head(f.es) \in {And, Or},
           NEW S, EmptyFilter \in S, \A i \in 2..Len(f.es) : Build[f.es[i]] \in S
    PROVE  \E kept \in Seq(S) :
              /\ Build[f] = Joined(Head(f.es), kept)
              /\ \A j \in 1..Len(kept) :
                    kept[j] # EmptyFilter /\ \E i \in 2..Len(f.es) : kept[j] = Build[f.es[i]]
              /\ \A i \in 2..Len(f.es) : Build[f.es[i]] # EmptyFilter =>
                    \E j \in 1..Len(kept) : kept[j] = Build[f.es[i]]
<1> DEFINE rest == Tail(f.es)
           built == [i \in DOMAIN rest |->
                        IF Nonempty(rest[i]) THEN Build[rest[i]] ELSE EmptyFilter]
           N == Len(f.es)
<1>1. /\ f.arr /\ f \in Value
      /\ N \in Nat \ {0} /\ DOMAIN rest = 1..(N - 1)
      /\ \A i \in 1..(N - 1) : rest[i] = f.es[i + 1]
    BY RestBelow, ValueForms
<1>2. \A i \in 2..N : f.es[i] \in Value
    BY <1>1, ElementsBelow
<1> HIDE DEF N
<1>3. \A i \in 1..(N - 1) : i + 1 \in 2..N /\ rest[i] \in Value
    BY <1>1, <1>2
<1>4. \A i \in DOMAIN rest : built[i] = Build[f.es[i + 1]]
    BY <1>1, <1>3, EmptyBuildsEmpty
<1>5. built = [i \in 1..(N - 1) |-> Build[f.es[i + 1]]]
    BY <1>1, <1>4
<1>6. Build[f] = Joined(Head(f.es), Filled(built))
    BY <1>1, BuildDefined DEF BuildBody, Elements
<1> HIDE DEF built, rest
<1>7. built \in Seq(S) /\ Len(built) = N - 1
    <2>1. \A i \in 1..(N - 1) : Build[f.es[i + 1]] \in S
        BY <1>3 DEF N
    <2>2. N - 1 \in Nat
        BY <1>1
    <2> QED BY <1>5, <2>1, <2>2
<1>8. \A i \in 2..N : i - 1 \in 1..Len(built) /\ built[i - 1] = Build[f.es[i]]
    BY <1>1, <1>5, <1>7
<1>9. \A i \in 1..Len(built) : i + 1 \in 2..N /\ built[i] = Build[f.es[i + 1]]
    BY <1>3, <1>5, <1>7
<1> DEFINE kept == Filled(built)
<1>10. /\ kept \in Seq(S)
       /\ \A j \in 1..Len(kept) :
             kept[j] # EmptyFilter /\ \E i \in 1..Len(built) : kept[j] = built[i]
       /\ \A i \in 1..Len(built) : built[i] # EmptyFilter =>
             \E j \in 1..Len(kept) : kept[j] = built[i]
    BY <1>7, FilledKeeps
<1>11. Build[f] = Joined(Head(f.es), kept)
    BY <1>6
<1> HIDE DEF kept
<1>12. \A j \in 1..Len(kept) :
          kept[j] # EmptyFilter /\ \E i \in 2..N : kept[j] = Build[f.es[i]]
    BY <1>9, <1>10
<1>13. \A i \in 2..N : Build[f.es[i]] # EmptyFilter =>
          \E j \in 1..Len(kept) : kept[j] = Build[f.es[i]]
    BY <1>8, <1>10
<1> QED BY <1>10, <1>11, <1>12, <1>13 DEF N

LEMMA BuildNot ==
    ASSUME NEW n \in Levels, NEW f \in Nested[n], f.es # <<>>, Head(f.es) = Not
    PROVE  /\ Len(f.es) = 1 => Build[f] = EmptyFilter
           /\ Len(f.es) # 1 =>
                 /\ 2 \in 2..Len(f.es)
                 /\ Build[f] = IF Nonempty(f.es[2]) THEN Arr(<<Not, Build[f.es[2]]>>)
                               ELSE EmptyFilter
<1> DEFINE N == Len(f.es)
<1>1. f.arr /\ f \in Value /\ N \in Nat \ {0}
    BY RestBelow, ValueForms
<1>2. Build[f] = BuildBody(f, Build) /\ Elements(f) = f.es
    BY <1>1, BuildDefined DEF Elements
<1>3. Build[f] = IF N > 1 /\ Nonempty(f.es[2]) THEN Arr(<<Not, Build[f.es[2]]>>)
                 ELSE EmptyFilter
    BY <1>2, Strangers DEF BuildBody
<1> HIDE DEF N
<1>4. N # 1 => N > 1 /\ 2 \in 2..N
    BY <1>1
<1>5. N = 1 => ~(N > 1)
    OBVIOUS
<1> QED BY <1>3, <1>4, <1>5 DEF N

LEMMA BuildList ==
    ASSUME NEW n \in Levels, NEW f \in Nested[n], f.es # <<>>,
           Head(f.es) \notin {And, Or, Not}
    PROVE  Build[f] = Build[Head(f.es)]
<1> DEFINE e == Head(f.es)
<1>1. f.arr /\ f \in Value /\ e \in Value
    <2>1. e = f.es[1] /\ 1 \in 1..Len(f.es)
        BY RestBelow
    <2> QED BY <2>1, ElementsBelow, ValueForms
<1>2. Build[f] = IF e.arr THEN Build[e] ELSE e
    BY <1>1, BuildDefined DEF BuildBody, Elements
<1>3. CASE e.arr
    BY <1>2, <1>3
<1>4. CASE ~e.arr
    <2>1. e.es = <<>>
        BY <1>1, <1>4, ValueForms, TopLevel
    <2>2. Build[e] = e
        BY <1>1, <1>4, <2>1, BuildString DEF Bare
    <2> QED BY <1>2, <1>4, <2>2
<1> QED BY <1>3, <1>4

LEMMA JoinedForms ==
    ASSUME NEW S, NEW op \in S, NEW kept \in Seq(S)
    PROVE  /\ kept = <<>> => Joined(op, kept) = EmptyFilter
           /\ Len(kept) = 1 => Joined(op, kept) = kept[1]
           /\ Len(kept) > 1 => Joined(op, kept) = Arr(<<op>> \o kept)
           /\ kept = <<>> \/ Len(kept) = 1 \/ Len(kept) > 1
           /\ Len(kept) \in Nat
           /\ <<op>> \o kept \in Seq(S)
           /\ Len(<<op>> \o kept) = Len(kept) + 1
           /\ <<op>> \o kept # <<>> /\ Head(<<op>> \o kept) = op
           /\ \A j \in 1..Len(kept) :
                 j + 1 \in 2..Len(<<op>> \o kept) /\ (<<op>> \o kept)[j + 1] = kept[j]
           /\ \A i \in 2..Len(<<op>> \o kept) :
                 i - 1 \in 1..Len(kept) /\ (<<op>> \o kept)[i] = kept[i - 1]
<1>1. /\ kept = <<>> => Joined(op, kept) = EmptyFilter
      /\ Len(kept) = 1 => Joined(op, kept) = kept[1]
      /\ Len(kept) > 1 => Joined(op, kept) = Arr(<<op>> \o kept)
      /\ kept = <<>> \/ Len(kept) = 1 \/ Len(kept) > 1
    <2> DEFINE k == Len(kept)
    <2>1. kept # <<>> => k \in Nat \ {0}
        BY EmptySeq
    <2>2. kept = <<>> => k = 0
        BY EmptySeq
    <2> HIDE DEF k
    <2>3. kept = <<>> \/ k = 1 \/ k > 1
        BY <2>1
    <2>4. kept = <<>> => ~(k > 1) /\ k # 1
        BY <2>2
    <2>5. k = 1 => ~(k > 1)
        OBVIOUS
    <2> QED BY <2>3, <2>4, <2>5 DEF Joined, k
<1> DEFINE es == <<op>> \o kept
           N == Len(kept)
<1>2. /\ es \in Seq(S) /\ Len(es) = N + 1 /\ es[1] = op /\ N \in Nat
      /\ \A j \in 1..N : es[j + 1] = kept[j]
    OBVIOUS
<1> HIDE DEF es, N
<1>3. es # <<>> /\ Head(es) = op
    BY <1>2
<1>4. \A j \in 1..N : j + 1 \in 2..Len(es) /\ es[j + 1] = kept[j]
    BY <1>2
<1>5. \A i \in 2..Len(es) : i - 1 \in 1..N /\ es[i] = kept[i - 1]
    BY <1>2
<1> QED BY <1>1, <1>2, <1>3, <1>4, <1>5 DEF es, N

LEMMA LevelsFromBelow ==
    ASSUME NEW T \in SUBSET Levels, \A n \in Levels : (n # 0 => n - 1 \in T) => n \in T
    PROVE  T = Levels
<1>1. 0 \in T
    BY NestedLevels
<1>2. ASSUME NEW n \in T, n + 1 \in Levels PROVE n + 1 \in T
    <2> DEFINE k == n + 1
    <2>1. k - 1 = n
        BY LevelBelow
    <2> HIDE DEF k
    <2>2. k \in Levels
        BY <1>2 DEF k
    <2>3. k - 1 \in T
        BY <2>1
    <2>4. k \in T
        BY <2>2, <2>3
    <2> QED BY <2>4 DEF k
<1> QED BY <1>1, <1>2, LevelInduction

(* The filter is nested no deeper than its array.                          *)
LEMMA BuildTyped == \A n \in Levels : \A f \in Nested[n] : Build[f] \in Nested[n]
<1> DEFINE T == {n \in Levels : \A f \in Nested[n] : Build[f] \in Nested[n]}
<1>1. ASSUME NEW n \in Levels, n # 0 => n - 1 \in T, NEW f \in Nested[n]
      PROVE  Build[f] \in Nested[n]
    <2>1. CASE f.es = <<>>
        BY <2>1, BuildString, Strangers, ValueForms
    <2>2. CASE f.es # <<>>
        <3>1. n # 0 /\ n - 1 \in Levels /\ Head(f.es) = f.es[1] /\ 1 \in 1..Len(f.es)
            BY <2>2, RestBelow
        <3>2. \A i \in 1..Len(f.es) :
                 f.es[i] \in Nested[n - 1] /\ Build[f.es[i]] \in Nested[n - 1]
            BY <1>1, <3>1, ElementsBelow
        <3>3. Nested[n - 1] \subseteq Nested[n]
            BY <3>1, NestedGrows, LevelBelow
        <3>4. \A i \in 2..Len(f.es) : i \in 1..Len(f.es)
            BY <2>2, RestBelow
        <3> DEFINE S == Nested[n - 1]
        <3>5. {And, Or, Not, EmptyFilter} \subseteq S
            BY <3>1, Strangers
        <3>6. \A es \in Seq(S) : Arr(es) \in Nested[n]
            BY <3>1, ValueOf
        <3> HIDE DEF S
        <3>7. CASE Head(f.es) \in {And, Or}
            <4>1. \A i \in 2..Len(f.es) : Build[f.es[i]] \in S
                BY <3>2, <3>4 DEF S
            <4>2. PICK kept \in Seq(S) : Build[f] = Joined(Head(f.es), kept)
                BY <2>2, <3>5, <3>7, <4>1, BuildJoins
            <4> DEFINE op == Head(f.es)
            <4>3. op \in S
                BY <3>5, <3>7
            <4> HIDE DEF op
            <4>4. /\ kept = <<>> => Joined(op, kept) = EmptyFilter
                  /\ Len(kept) = 1 => Joined(op, kept) = kept[1]
                  /\ Len(kept) > 1 => Joined(op, kept) = Arr(<<op>> \o kept)
                  /\ kept = <<>> \/ Len(kept) = 1 \/ Len(kept) > 1
                  /\ <<op>> \o kept \in Seq(S)
                BY <4>3, JoinedForms
            <4>5. Len(kept) = 1 => kept[1] \in S
                <5>1. Len(kept) = 1 => 1 \in 1..Len(kept)
                    OBVIOUS
                <5> QED BY <5>1, ElementOfSeq
            <4>6. S \subseteq Nested[n]
                BY <3>3 DEF S
            <4>7. Joined(op, kept) \in Nested[n]
                BY <3>5, <3>6, <4>4, <4>5, <4>6
            <4> QED BY <4>2, <4>7 DEF op
        <3>8. CASE Head(f.es) = Not
            <4>1. ASSUME NEW q \in S PROVE <<Not, q>> \in Seq(S)
                BY <3>5
            <4> QED BY <2>2, <3>2, <3>3, <3>4, <3>5, <3>6, <3>8, <4>1, BuildNot DEF S
        <3>9. CASE Head(f.es) \notin {And, Or, Not}
            BY <2>2, <3>1, <3>2, <3>3, <3>9, BuildList
        <3> QED BY <3>7, <3>8, <3>9
    <2> QED BY <2>1, <2>2
<1>2. T = Levels
    <2> HIDE DEF T
    <2>1. T \in SUBSET Levels
        BY DEF T
    <2>2. \A n \in Levels : (n # 0 => n - 1 \in T) => n \in T
        BY <1>1 DEF T
    <2> QED BY <2>1, <2>2, LevelsFromBelow
<1> QED BY <1>2

-----------------------------------------------------------------------------
(* What filters select.                                                    *)
Parts(q) == {Selected[q.es[i]] : i \in 2..Len(q.es)}

LEMMA SelectedForms ==
    ASSUME NEW q \in Value
    PROVE  Selected[q] = IF q.es = <<>> THEN Having(q.s)
                         ELSE IF Head(q.es) = And THEN InAll(Parts(q))
                         ELSE IF Head(q.es) = Or THEN UNION Parts(q)
                         ELSE Entries \ UNION Parts(q)
    BY SelectedDefined DEF SelectedBody, Parts

LEMMA OperandsBelow ==
    ASSUME NEW n \in Levels, NEW f \in Nested[n], NEW i \in 2..Len(f.es)
    PROVE  /\ i \in 1..Len(f.es) /\ n # 0 /\ n - 1 \in Levels
           /\ f.es[i] \in Nested[n - 1] /\ f.es[i] \in Value
<1>1. f.es # <<>>
    <2>1. f.es = <<>> => 2..Len(f.es) = {}
        OBVIOUS
    <2> QED BY <2>1
<1>2. Len(f.es) \in Nat
    BY <1>1, RestBelow
<1>3. i \in 1..Len(f.es)
    BY <1>2
<1> QED BY <1>3, ElementsBelow

LEMMA SelectedEntries == \A n \in Levels : \A q \in Nested[n] : Selected[q] \subseteq Entries
<1> DEFINE T == {n \in Levels : \A q \in Nested[n] : Selected[q] \subseteq Entries}
<1>1. ASSUME NEW n \in Levels, n # 0 => n - 1 \in T, NEW q \in Nested[n]
      PROVE  Selected[q] \subseteq Entries
    <2>1. q \in Value
        BY ValueForms
    <2>3. \A i \in 2..Len(q.es) : Selected[q.es[i]] \subseteq Entries
        BY <1>1, OperandsBelow
    <2>4. \A c \in Parts(q) : c \subseteq Entries
        BY <2>3 DEF Parts
    <2>5. Having(q.s) \subseteq Entries
        BY DEF Having
    <2>6. InAll(Parts(q)) \subseteq Entries
        BY DEF InAll
    <2>7. UNION Parts(q) \subseteq Entries /\ Entries \ UNION Parts(q) \subseteq Entries
        BY <2>4
    <2> QED BY <2>1, <2>5, <2>6, <2>7, SelectedForms
<1>2. T = Levels
    <2> HIDE DEF T
    <2>1. T \in SUBSET Levels
        BY DEF T
    <2>2. \A n \in Levels : (n # 0 => n - 1 \in T) => n \in T
        BY <1>1 DEF T
    <2> QED BY <2>1, <2>2, LevelsFromBelow
<1> QED BY <1>2

LEMMA ArrFields == \A es : Arr(es).arr /\ Arr(es).es = es /\ Arr(es) # EmptyFilter
    BY DEF Arr, EmptyFilter, Lit

(* A joined filter selects what its parts select together, or any of them: *)
(* that a single operand stands for itself makes no difference.            *)
Chosen(kept) == {Selected[kept[j]] : j \in 1..Len(kept)}

LEMMA JoinedMeans ==
    ASSUME NEW n \in Levels, n # 0, NEW op \in {And, Or}, NEW kept \in Seq(Nested[n - 1]),
           kept # <<>>, \A j \in 1..Len(kept) : kept[j] # EmptyFilter
    PROVE  /\ Joined(op, kept) # EmptyFilter
           /\ WellFormed[Joined(op, kept)] => \A j \in 1..Len(kept) : WellFormed[kept[j]]
           /\ Selected[Joined(op, kept)] =
                 IF op = And THEN InAll(Chosen(kept)) ELSE UNION Chosen(kept)
<1> DEFINE S == Nested[n - 1]
           N == Len(kept)
           q == Joined(op, kept)
<1>1. n - 1 \in Levels /\ op \in S
    BY LevelBelow, Strangers
<1>2. \A j \in 1..N : kept[j] \in S /\ kept[j] \in Value
    <2>1. \A j \in 1..N : kept[j] \in S
        BY ElementOfSeq
    <2> QED BY <1>1, <2>1, ValueForms
<1>3. CASE N = 1
    <2>1. q = kept[1]
        <3> HIDE DEF S
        <3>1. kept \in Seq(S)
            BY DEF S
        <3> QED BY <1>1, <1>3, <3>1, JoinedForms
    <2>2. 1 \in 1..N /\ \A j \in 1..N : j = 1
        <3> HIDE DEF N
        <3> QED BY <1>3
    <2>3. Selected[kept[1]] \subseteq Entries
        BY <1>1, <1>2, <2>2, SelectedEntries
    <2>4. Chosen(kept) = {Selected[kept[1]]}
        BY <2>2 DEF Chosen
    <2>5. /\ InAll({Selected[kept[1]]}) = Selected[kept[1]]
          /\ UNION {Selected[kept[1]]} = Selected[kept[1]]
        BY <2>3 DEF InAll
    <2> QED BY <2>1, <2>2, <2>4, <2>5
<1>4. CASE N # 1
    <2> DEFINE es == <<op>> \o kept
    <2>1. /\ q = Arr(es) /\ es \in Seq(S) /\ es # <<>> /\ Head(es) = op
          /\ \A j \in 1..N : j + 1 \in 2..Len(es) /\ es[j + 1] = kept[j]
          /\ \A i \in 2..Len(es) : i - 1 \in 1..N /\ es[i] = kept[i - 1]
        <3>1. kept \in Seq(S)
            OBVIOUS
        <3> HIDE DEF S
        <3> QED BY <1>1, <1>4, <3>1, JoinedForms
    <2>2. q.arr /\ q.es = es /\ q # EmptyFilter
        BY <2>1, ArrFields
    <2>3. q \in Value
        BY <1>1, <2>1, ValueOf, ValueForms
    <2> HIDE DEF es, q
    <2>4. Parts(q) = Chosen(kept)
        <3>1. Parts(q) = {Selected[es[i]] : i \in 2..Len(es)}
            BY <2>2 DEF Parts
        <3>2. \A i \in 2..Len(es) : \E j \in 1..N : es[i] = kept[j]
            BY <2>1
        <3>3. \A j \in 1..N : \E i \in 2..Len(es) : es[i] = kept[j]
            BY <2>1
        <3>4. Chosen(kept) = {Selected[kept[j]] : j \in 1..N}
            BY DEF Chosen
        <3> HIDE DEF N
        <3>5. \A c \in {Selected[es[i]] : i \in 2..Len(es)} :
                 c \in {Selected[kept[j]] : j \in 1..N}
            BY <3>2
        <3>6. \A c \in {Selected[kept[j]] : j \in 1..N} :
                 c \in {Selected[es[i]] : i \in 2..Len(es)}
            BY <3>3
        <3> QED BY <3>1, <3>4, <3>5, <3>6
    <2>5. Selected[q] = IF op = And THEN InAll(Chosen(kept)) ELSE UNION Chosen(kept)
        BY <2>1, <2>2, <2>3, <2>4, SelectedForms, Strangers
    <2>6. WellFormed[q] => \A i \in 2..Len(es) : WellFormed[es[i]]
        BY <2>2, <2>3, WellFormedDefined DEF WellFormedBody
    <2>7. WellFormed[q] => \A j \in 1..N : WellFormed[kept[j]]
        <3> HIDE DEF N
        <3>1. SUFFICES ASSUME WellFormed[q], NEW j \in 1..N PROVE WellFormed[kept[j]]
            OBVIOUS
        <3>2. WellFormed[es[j + 1]] /\ es[j + 1] = kept[j]
            BY <2>1, <2>6, <3>1 DEF N
        <3> QED BY <3>2
    <2> QED BY <2>2, <2>5, <2>7 DEF q
<1> QED BY <1>3, <1>4

-----------------------------------------------------------------------------
(* buildFilter keeps the meaning of its array.                             *)
Held(f) == UNION {Conditions[f.es[i]] : i \in 2..Len(f.es)}

LEMMA ConditionsForms ==
    ASSUME NEW f \in Value
    PROVE  Conditions[f] =
             IF f \in {And, Or, Not, EmptyFilter, Arr(<<>>)} THEN {}
             ELSE IF ~f.arr THEN {Having(f.s)}
             ELSE IF Head(f.es) = And
                  THEN IF Held(f) = {} THEN {} ELSE {InAll(Held(f))}
             ELSE IF Head(f.es) = Or
                  THEN IF Held(f) = {} THEN {} ELSE {UNION Held(f)}
             ELSE IF Head(f.es) = Not
                  THEN IF Len(f.es) = 1 THEN {} ELSE Complements(Conditions[f.es[2]])
             ELSE Conditions[Head(f.es)]
    BY ConditionsDefined DEF ConditionsBody, Held

(* A value means what is built of it: no condition if nothing is, else the *)
(* one condition to be among what the filter selects.                      *)
Means(f) ==
    IF Build[f] = EmptyFilter THEN Conditions[f] = {}
    ELSE WellFormed[Build[f]] => Conditions[f] = {Selected[Build[f]]}

LEMMA MeansString ==
    ASSUME NEW f \in Value, f.es = <<>>
    PROVE  Means(f)
<1>1. CASE f.arr
    <2>1. f = Arr(<<>>) /\ Build[f] = EmptyFilter
        BY <1>1, BuildString DEF Bare
    <2> QED BY <2>1, ConditionsForms DEF Means
<1>2. CASE ~f.arr /\ Bare(f)
    <2>1. Build[f] = f /\ f \notin {And, Or, Not, EmptyFilter}
        BY <1>2, BuildString DEF Bare
    <2>2. f # Arr(<<>>)
        BY <1>2, ArrFields
    <2>3. Conditions[f] = {Having(f.s)}
        BY <1>2, <2>1, <2>2, ConditionsForms
    <2>4. Selected[f] = Having(f.s)
        BY SelectedForms
    <2> QED BY <2>1, <2>3, <2>4 DEF Means
<1>3. CASE ~f.arr /\ ~Bare(f)
    <2>1. Build[f] = EmptyFilter /\ f \in {And, Or, Not, EmptyFilter}
        BY <1>3, BuildString DEF Bare
    <2>2. Conditions[f] = {}
        BY <2>1, ConditionsForms
    <2> QED BY <2>1, <2>2 DEF Means
<1> QED BY <1>1, <1>2, <1>3

LEMMA HeadedForms ==
    ASSUME NEW n \in Levels, NEW f \in Nested[n], f.es # <<>>
    PROVE  f \in Value /\ f.arr /\ f \notin {And, Or, Not, EmptyFilter, Arr(<<>>)}
<1>1. f \in Value /\ f.arr
    BY ValueForms
<1>2. Arr(<<>>).es = <<>>
    BY ArrFields
<1> QED BY <1>1, <1>2, Strangers

LEMMA MeansJoined ==
    ASSUME NEW n \in Levels, NEW f \in Nested[n], f.es # <<>>, Head(f.es) \in {And, Or},
           \A i \in 2..Len(f.es) : Means(f.es[i])
    PROVE  Means(f)
<1> DEFINE S == Nested[n - 1]
           op == Head(f.es)
           I == 2..Len(f.es)
<1>1. n # 0 /\ n - 1 \in Levels /\ EmptyFilter \in S
    BY RestBelow, Strangers
<1>2. \A i \in I : f.es[i] \in S /\ Build[f.es[i]] \in S
    BY OperandsBelow, BuildTyped
<1>3. PICK kept \in Seq(S) :
         /\ Build[f] = Joined(op, kept)
         /\ \A j \in 1..Len(kept) :
               kept[j] # EmptyFilter /\ \E i \in I : kept[j] = Build[f.es[i]]
         /\ \A i \in I : Build[f.es[i]] # EmptyFilter =>
               \E j \in 1..Len(kept) : kept[j] = Build[f.es[i]]
    <2> HIDE DEF S
    <2>1. \A i \in 2..Len(f.es) : Build[f.es[i]] \in S
        BY <1>2
    <2> QED BY <1>1, <2>1, BuildJoins
<1>4. Conditions[f] = IF Held(f) = {} THEN {}
                      ELSE IF op = And THEN {InAll(Held(f))} ELSE {UNION Held(f)}
    BY HeadedForms, ConditionsForms, Strangers
<1>5. CASE kept = <<>>
    <2>1. Build[f] = EmptyFilter
        <3>1. Len(kept) = 0
            BY <1>5
        <3> QED BY <1>3, <3>1 DEF Joined
    <2>2. \A i \in I : Build[f.es[i]] = EmptyFilter
        <3>1. 1..Len(kept) = {}
            BY <1>5
        <3> QED BY <1>3, <3>1
    <2>3. \A i \in I : Conditions[f.es[i]] = {}
        BY <2>2 DEF Means
    <2>4. Held(f) = {}
        BY <2>3 DEF Held
    <2> QED BY <1>4, <2>1, <2>4 DEF Means
<1>6. CASE kept # <<>>
    <2>1. /\ Build[f] # EmptyFilter
          /\ WellFormed[Build[f]] => \A j \in 1..Len(kept) : WellFormed[kept[j]]
          /\ Selected[Build[f]] = IF op = And THEN InAll(Chosen(kept)) ELSE UNION Chosen(kept)
        <3> HIDE DEF op
        <3>1. op \in {And, Or}
            BY DEF op
        <3>2. kept \in Seq(Nested[n - 1]) /\ \A j \in 1..Len(kept) : kept[j] # EmptyFilter
            BY <1>3
        <3>3. /\ Joined(op, kept) # EmptyFilter
              /\ WellFormed[Joined(op, kept)] => \A j \in 1..Len(kept) : WellFormed[kept[j]]
              /\ Selected[Joined(op, kept)] =
                    IF op = And THEN InAll(Chosen(kept)) ELSE UNION Chosen(kept)
            BY <1>1, <1>6, <3>1, <3>2, JoinedMeans
        <3>4. Build[f] = Joined(op, kept)
            BY <1>3
        <3> QED BY <3>3, <3>4
    <2>2. SUFFICES ASSUME WellFormed[Build[f]] PROVE Conditions[f] = {Selected[Build[f]]}
        BY <2>1 DEF Means
    <2> HIDE DEF I, S, op
    <2>3. \A j \in 1..Len(kept) : \E i \in I : Selected[kept[j]] \in Conditions[f.es[i]]
        <3>1. TAKE j \in 1..Len(kept)
        <3>2. PICK i \in I : kept[j] = Build[f.es[i]]
            BY <1>3
        <3>3. Build[f.es[i]] # EmptyFilter /\ WellFormed[Build[f.es[i]]]
            BY <1>3, <2>1, <2>2, <3>2
        <3>4. Means(f.es[i])
            BY DEF I
        <3>5. Conditions[f.es[i]] = {Selected[kept[j]]}
            BY <3>2, <3>3, <3>4 DEF Means
        <3> QED BY <3>5
    <2>4. \A i \in I : \A c \in Conditions[f.es[i]] :
             \E j \in 1..Len(kept) : c = Selected[kept[j]]
        <3>1. TAKE i \in I
        <3>2. Means(f.es[i])
            BY DEF I
        <3>3. CASE Build[f.es[i]] = EmptyFilter
            BY <3>2, <3>3 DEF Means
        <3>4. CASE Build[f.es[i]] # EmptyFilter
            <4>1. PICK j \in 1..Len(kept) : kept[j] = Build[f.es[i]]
                BY <1>3, <3>4
            <4>2. WellFormed[Build[f.es[i]]]
                BY <2>1, <2>2, <4>1
            <4>3. Conditions[f.es[i]] = {Selected[kept[j]]}
                BY <3>2, <3>4, <4>1, <4>2 DEF Means
            <4> QED BY <4>3
        <3> QED BY <3>3, <3>4
    <2>5. Held(f) = Chosen(kept)
        <3>1. Held(f) = UNION {Conditions[f.es[i]] : i \in I}
            BY DEF Held, I
        <3>2. Held(f) \subseteq Chosen(kept)
            BY <2>4, <3>1 DEF Chosen
        <3>3. Chosen(kept) \subseteq Held(f)
            BY <2>3, <3>1 DEF Chosen
        <3> QED BY <3>2, <3>3
    <2>6. Chosen(kept) # {}
        <3>1. 1 \in 1..Len(kept)
            <4>1. Len(kept) \in Nat /\ Len(kept) # 0
                BY <1>6, EmptySeq
            <4> QED BY <4>1
        <3> QED BY <3>1 DEF Chosen
    <2> QED BY <1>4, <2>1, <2>5, <2>6
<1> QED BY <1>5, <1>6

LEMMA MeansNot ==
    ASSUME NEW n \in Levels, NEW f \in Nested[n], f.es # <<>>, Head(f.es) = Not,
           \A i \in 2..Len(f.es) : Means(f.es[i])
    PROVE  Means(f)
<1>1. Conditions[f] = IF Len(f.es) = 1 THEN {} ELSE Complements(Conditions[f.es[2]])
    BY HeadedForms, ConditionsForms, Strangers
<1>2. CASE Len(f.es) = 1
    <2>1. Build[f] = EmptyFilter
        BY <1>2, BuildNot
    <2> QED BY <1>1, <1>2, <2>1 DEF Means
<1>3. CASE Len(f.es) # 1
    <2> DEFINE e == f.es[2]
               b == Build[e]
    <2>1. 2 \in 2..Len(f.es)
        BY <1>3, BuildNot
    <2>2. Build[f] = IF Nonempty(e) THEN Arr(<<Not, b>>) ELSE EmptyFilter
        BY <1>3, BuildNot
    <2>3. Means(e) /\ n # 0 /\ n - 1 \in Levels /\ e \in Nested[n - 1] /\ e \in Value
        BY <2>1, OperandsBelow
    <2>4. b \in Nested[n - 1] /\ b \in Value /\ Not \in Nested[n - 1]
        BY <2>3, BuildTyped, ValueForms, Strangers
    <2>5. Conditions[f] = Complements(Conditions[e])
        BY <1>1, <1>3
    <2> HIDE DEF e
    <2>6. CASE ~Nonempty(e)
        <3>1. b = EmptyFilter /\ Build[f] = EmptyFilter
            BY <2>2, <2>3, <2>6, EmptyBuildsEmpty
        <3>2. Conditions[e] = {}
            BY <2>3, <3>1 DEF Means
        <3>3. Conditions[f] = {}
            BY <2>5, <3>2 DEF Complements
        <3> QED BY <3>1, <3>3 DEF Means
    <2>7. CASE Nonempty(e)
        <3> HIDE DEF b
        <3> DEFINE es == <<Not, b>>
                   q == Arr(es)
        <3>1. Build[f] = q
            BY <2>2, <2>7
        <3>2. q.es = es /\ q # EmptyFilter
            BY ArrFields
        <3>3. es \in Seq(Nested[n - 1])
            <4> DEFINE S == Nested[n - 1]
            <4>1. b \in S /\ Not \in S
                BY <2>4
            <4> HIDE DEF S
            <4>2. es \in Seq(S)
                BY <4>1
            <4> QED BY <4>2 DEF S
        <3>4. Len(es) = 2 /\ Head(es) = Not /\ es[2] = b /\ es # <<>>
            OBVIOUS
        <3> HIDE DEF es, q
        <3>5. q \in Value
            <4>1. q \in Nested[n]
                BY <2>3, <3>3, ValueOf DEF q
            <4> QED BY <4>1, ValueForms
        <3>6. SUFFICES ASSUME WellFormed[q] PROVE Conditions[f] = {Selected[q]}
            BY <3>1, <3>2 DEF Means
        <3>7. WellFormed[b]
            <4>1. \A i \in 2..Len(q.es) : WellFormed[q.es[i]]
                BY <3>5, <3>6, WellFormedDefined DEF WellFormedBody
            <4>2. 2 \in 2..Len(q.es)
                BY <3>2, <3>4
            <4> QED BY <3>2, <3>4, <4>1, <4>2
        <3>8. b # EmptyFilter
            BY <2>4, <3>7, WellFormedDefined DEF WellFormedBody
        <3>9. Conditions[e] = {Selected[b]}
            BY <2>3, <3>7, <3>8 DEF Means, b
        <3>10. Parts(q) = {Selected[b]}
            <4>1. Parts(q) = {Selected[es[i]] : i \in 2..2}
                BY <3>2, <3>4 DEF Parts
            <4>2. 2..2 = {2}
                OBVIOUS
            <4> QED BY <3>4, <4>1, <4>2
        <3>11. Selected[q] = Entries \ UNION {Selected[b]}
            BY <3>2, <3>4, <3>5, <3>10, SelectedForms, Strangers
        <3>12. UNION {Selected[b]} = Selected[b]
            OBVIOUS
        <3>13. Conditions[f] = {Entries \ Selected[b]}
            BY <2>5, <3>9 DEF Complements
        <3> QED BY <3>11, <3>12, <3>13
    <2> QED BY <2>6, <2>7
<1> QED BY <1>2, <1>3

LEMMA MeansList ==
    ASSUME NEW n \in Levels, NEW f \in Nested[n], f.es # <<>>,
           Head(f.es) \notin {And, Or, Not}, Means(Head(f.es))
    PROVE  Means(f)
<1>1. Build[f] = Build[Head(f.es)]
    BY BuildList
<1>2. Conditions[f] = Conditions[Head(f.es)]
    BY HeadedForms, ConditionsForms
<1> QED BY <1>1, <1>2 DEF Means

LEMMA MeaningRight == \A n \in Levels : \A f \in Nested[n] : Means(f)
<1> DEFINE T == {n \in Levels : \A f \in Nested[n] : Means(f)}
<1>1. ASSUME NEW n \in Levels, n # 0 => n - 1 \in T, NEW f \in Nested[n]
      PROVE  Means(f)
    <2>1. CASE f.es = <<>>
        BY <2>1, MeansString, ValueForms
    <2>2. CASE f.es # <<>>
        <3>1. \A i \in 2..Len(f.es) : Means(f.es[i])
            BY <1>1, OperandsBelow
        <3>2. Means(Head(f.es))
            <4>1. Head(f.es) = f.es[1] /\ 1 \in 1..Len(f.es)
                BY <2>2, RestBelow
            <4> QED BY <1>1, <4>1, ElementsBelow
        <3>3. CASE Head(f.es) \in {And, Or}
            BY <2>2, <3>1, <3>3, MeansJoined
        <3>4. CASE Head(f.es) = Not
            BY <2>2, <3>1, <3>4, MeansNot
        <3>5. CASE Head(f.es) \notin {And, Or, Not}
            BY <2>2, <3>2, <3>5, MeansList
        <3> QED BY <3>3, <3>4, <3>5
    <2> QED BY <2>1, <2>2
<1>2. T = Levels
    <2> HIDE DEF T
    <2>1. T \in SUBSET Levels
        BY DEF T
    <2>2. \A n \in Levels : (n # 0 => n - 1 \in T) => n \in T
        BY <1>1 DEF T
    <2> QED BY <2>1, <2>2, LevelsFromBelow
<1> QED BY <1>2

-----------------------------------------------------------------------------
(* The invariant.                                                          *)
TypeOK ==
    /\ org \in [class : Classes, filter : Restrictions]
    /\ shared \in Seq(Term)
    /\ kind \in {"none", "find", "findByKey", "findAndBind", "findBase"}
    /\ key \in KeyFilters \cup {""}
    /\ asked \in Value
    /\ sent \in Value

(* However often the restriction was taken apart, it has its length and    *)
(* its strings: only the arrays nested in it lose elements.                *)
StringsStay ==
    /\ Len(shared) = Len(org.filter)
    /\ \A i \in 1..Len(org.filter) : ~org.filter[i].arr => shared[i] = org.filter[i]

(* An operand of the array is built to the literal w.                      *)
AsksFor(f, w) == \E i \in 2..Len(f.es) : Build[f.es[i]] = Lit(w)

(* The latest lookup asked for its key, for the class and for the strings  *)
(* of the restriction, all of them under one &.                            *)
Demands ==
    Keyed =>
        /\ asked.es # <<>> /\ Head(asked.es) = And
        /\ key \in KeyFilters /\ AsksFor(asked, key)
        /\ org.class # "" => AsksFor(asked, org.class)
        /\ \A i \in 1..Len(org.filter) :
              Bare(org.filter[i]) => AsksFor(asked, org.filter[i].s)

Answered == kind # "none" => sent = Sent(asked)

IInv == TypeOK /\ StringsStay /\ Demands /\ Answered

-----------------------------------------------------------------------------
(* What a lookup asks for.                                                 *)
LEMMA LookupLevels ==
    /\ Depth \in Levels /\ Term = Nested[Depth]
    /\ \E n \in Levels : n # 0 /\ Value = Nested[n] /\ Term = Nested[n - 1]
    /\ Term \subseteq Value
<1>1. Depth \in Levels /\ Depth + 1 \in Levels /\ Depth + 1 # 0 /\ Depth + 1 - 1 = Depth
         /\ Depth <= Depth + 1
    BY DepthIsNat DEF Levels
<1>2. Nested[Depth] \subseteq Nested[Depth + 1]
    BY <1>1, NestedGrows
<1>3. \E n \in Levels : n # 0 /\ Value = Nested[n] /\ Term = Nested[n - 1]
    <2> DEFINE n == Depth + 1
    <2>1. n \in Levels /\ n # 0 /\ n - 1 = Depth
        BY DepthIsNat DEF Levels
    <2>2. Value = Nested[n]
        BY DEF Value
    <2> HIDE DEF n
    <2>3. Nested[n - 1] = Nested[Depth]
        BY <2>1
    <2>4. Term = Nested[n - 1]
        BY <2>3 DEF Term
    <2> QED BY <2>1, <2>2, <2>4
<1> QED BY <1>1, <1>2, <1>3 DEF Term, Value

LEMMA OperandTerms ==
    ASSUME NEW f \in Value, NEW i \in 2..Len(f.es)
    PROVE  f.es[i] \in Term /\ Build[f.es[i]] \in Term
<1>1. PICK n \in Levels : n # 0 /\ Value = Nested[n] /\ Term = Nested[n - 1]
    BY LookupLevels
<1>2. f.es[i] \in Term
    BY <1>1, OperandsBelow
<1> QED BY <1>2, LookupLevels, BuildTyped

Condition == Literals \cup {"objectClass=undefined"}

LEMMA LiteralBuilds ==
    ASSUME NEW w \in Condition
    PROVE  /\ Lit(w) \in Term /\ Bare(Lit(w)) /\ Build[Lit(w)] = Lit(w)
           /\ Arr(<<Lit(w)>>) \in Term /\ Build[Arr(<<Lit(w)>>)] = Lit(w)
<1> DEFINE x == Lit(w)
           es == <<x>>
           y == Arr(es)
<1>1. w \in Words /\ w \notin {"", "&", "|", "!"}
    BY LookupAssumption DEF Condition, Words, LookupAssumption
<1>2. ~x.arr /\ x.es = <<>> /\ x.s = w
    BY DEF Lit
<1>3. Depth # 0 /\ Depth - 1 \in Levels
    BY DepthIsNat DEF Levels
<1>4. x \in Term /\ x \in Value /\ x \in Nested[Depth - 1]
    BY <1>1, <1>3, LookupLevels, ValueOf
<1>5. x \notin {And, Or, Not, EmptyFilter}
    <2>1. And.s = "&" /\ Or.s = "|" /\ Not.s = "!" /\ EmptyFilter.s = ""
        BY DEF And, Or, Not, EmptyFilter, Lit
    <2> QED BY <1>1, <1>2, <2>1
<1> HIDE DEF x
<1>6. Bare(x)
    BY <1>2, <1>5 DEF Bare
<1>7. Build[x] = x
    BY <1>2, <1>4, <1>6, BuildString
<1>8. es \in Seq(Nested[Depth - 1]) /\ es # <<>> /\ Head(es) = x
    <2> DEFINE S == Nested[Depth - 1]
    <2>1. x \in S
        BY <1>4
    <2> HIDE DEF S
    <2>2. es \in Seq(S) /\ es # <<>> /\ Head(es) = x
        BY <2>1
    <2> QED BY <2>2 DEF S
<1> HIDE DEF es
<1>9. y \in Term /\ y \in Nested[Depth]
    BY <1>3, <1>8, LookupLevels, ValueOf
<1>10. y.es = es
    BY ArrFields
<1> HIDE DEF y
<1>11. Build[y] = Build[Head(y.es)]
    BY <1>5, <1>8, <1>9, <1>10, LookupLevels, BuildList
<1> QED BY <1>4, <1>6, <1>7, <1>8, <1>9, <1>10, <1>11 DEF x, y, es

(* The elements of the array a lookup puts together.                       *)
AllOf(op, s, t) == <<op>> \o s \o t

LEMMA Concatenated ==
    ASSUME NEW S, NEW op \in S, NEW s \in Seq(S), NEW t \in Seq(S)
    PROVE  /\ AllOf(op, s, t) \in Seq(S)
           /\ AllOf(op, s, t) # <<>>
           /\ Head(AllOf(op, s, t)) = op
           /\ \A i \in 1..Len(s) :
                 \E m \in 2..Len(AllOf(op, s, t)) : AllOf(op, s, t)[m] = s[i]
           /\ \A i \in 1..Len(t) :
                 \E m \in 2..Len(AllOf(op, s, t)) : AllOf(op, s, t)[m] = t[i]
<1> DEFINE u == <<op>> \o s
           v == u \o t
           M == Len(s)
           N == Len(t)
           K == Len(u)
<1>1. M \in Nat /\ N \in Nat
    OBVIOUS
<1>2. u \in Seq(S) /\ K = M + 1 /\ u[1] = op /\ \A i \in 1..M : u[i + 1] = s[i]
    OBVIOUS
<1> HIDE DEF u
<1>3. /\ v \in Seq(S) /\ Len(v) = K + N
      /\ \A m \in 1..(K + N) : v[m] = IF m <= K THEN u[m] ELSE t[m - K]
    BY <1>2, ConcatProperties
<1> HIDE DEF v, M, N, K
<1>4. Len(v) = M + N + 1 /\ v[1] = op
    BY <1>1, <1>2, <1>3
<1>5. v # <<>> /\ Head(v) = op
    BY <1>1, <1>3, <1>4
<1>6. ASSUME NEW i \in 1..M PROVE \E m \in 2..Len(v) : v[m] = s[i]
    <2>1. \E m \in 2..Len(v) : m = i + 1 /\ m <= K /\ m \in 1..(K + N)
        BY <1>1, <1>2, <1>4
    <2>2. PICK m \in 2..Len(v) : m = i + 1 /\ m <= K /\ m \in 1..(K + N)
        BY <2>1
    <2>3. u[i + 1] = s[i]
        BY <1>2
    <2>4. u[m] = s[i]
        BY <2>2, <2>3
    <2> QED BY <1>3, <2>2, <2>4
<1>7. ASSUME NEW i \in 1..N PROVE \E m \in 2..Len(v) : v[m] = t[i]
    <2>1. \E m \in 2..Len(v) : m - K = i /\ ~(m <= K) /\ m \in 1..(K + N)
        <3> DEFINE m == i + K
        <3>1. m \in 2..Len(v) /\ m - K = i /\ ~(m <= K) /\ m \in 1..(K + N)
            BY <1>1, <1>2, <1>4
        <3> HIDE DEF m
        <3> QED BY <3>1
    <2>2. PICK m \in 2..Len(v) : m - K = i /\ ~(m <= K) /\ m \in 1..(K + N)
        BY <2>1
    <2>3. v[m] = t[m - K]
        BY <1>3, <2>2
    <2> QED BY <2>2, <2>3
<1>8. v = AllOf(op, s, t)
    BY DEF v, u, AllOf
<1> QED BY <1>3, <1>5, <1>6, <1>7, <1>8 DEF M, N

(* A joined filter selects no more than any operand.                       *)
LEMMA AndSelects ==
    ASSUME NEW f \in Value, f.es # <<>>, Head(f.es) = And,
           NEW i \in 2..Len(f.es), Build[f.es[i]] # EmptyFilter
    PROVE  /\ Build[f] # EmptyFilter
           /\ Selected[Build[f]] \subseteq Selected[Build[f.es[i]]]
<1> DEFINE b == Build[f.es[i]]
<1>1. PICK n \in Levels : n # 0 /\ Value = Nested[n] /\ Term = Nested[n - 1]
    BY LookupLevels
<1>2. \A j \in 2..Len(f.es) : Build[f.es[j]] \in Term
    BY OperandTerms
<1>3. EmptyFilter \in Term
    BY LookupLevels, Strangers
<1>4. PICK kept \in Seq(Term) :
         /\ Build[f] = Joined(And, kept)
         /\ \A j \in 1..Len(kept) : kept[j] # EmptyFilter
         /\ \E j \in 1..Len(kept) : kept[j] = b
    <2> DEFINE S == Term
    <2>1. Head(f.es) \in {And, Or}
        OBVIOUS
    <2>2. EmptyFilter \in S /\ \A j \in 2..Len(f.es) : Build[f.es[j]] \in S
        BY <1>2, <1>3
    <2> HIDE DEF S
    <2>3. PICK kept \in Seq(S) :
              /\ Build[f] = Joined(Head(f.es), kept)
              /\ \A j \in 1..Len(kept) :
                    kept[j] # EmptyFilter /\ \E m \in 2..Len(f.es) : kept[j] = Build[f.es[m]]
              /\ \A m \in 2..Len(f.es) : Build[f.es[m]] # EmptyFilter =>
                    \E j \in 1..Len(kept) : kept[j] = Build[f.es[m]]
        BY <1>1, <2>1, <2>2, BuildJoins
    <2>4. \E j \in 1..Len(kept) : kept[j] = b
        BY <2>3
    <2> QED BY <2>3, <2>4 DEF S
<1> HIDE DEF b
<1>5. PICK j \in 1..Len(kept) : kept[j] = b
    BY <1>4
<1>6. kept # <<>>
    <2>1. kept = <<>> => 1..Len(kept) = {}
        OBVIOUS
    <2> QED BY <2>1
<1>7. Joined(And, kept) # EmptyFilter /\ Selected[Joined(And, kept)] = InAll(Chosen(kept))
    <2>1. kept \in Seq(Nested[n - 1]) /\ And \in {And, Or}
        BY <1>1
    <2> QED BY <1>1, <1>4, <1>6, <2>1, JoinedMeans
<1>8. InAll(Chosen(kept)) \subseteq Selected[b]
    <2>1. Selected[b] \in Chosen(kept)
        BY <1>5 DEF Chosen
    <2> QED BY <2>1 DEF InAll
<1> QED BY <1>4, <1>7, <1>8 DEF b

LEMMA AsksSelects ==
    ASSUME NEW f \in Value, f.es # <<>>, Head(f.es) = And, NEW w, AsksFor(f, w),
           Lit(w) # EmptyFilter
    PROVE  Selected[Sent(f)] \subseteq Having(w)
<1>1. PICK i \in 2..Len(f.es) : Build[f.es[i]] = Lit(w)
    BY DEF AsksFor
<1>2. Build[f] # EmptyFilter /\ Selected[Build[f]] \subseteq Selected[Lit(w)]
    <2>1. Build[f.es[i]] # EmptyFilter
        BY <1>1
    <2>2. Build[f] # EmptyFilter /\ Selected[Build[f]] \subseteq Selected[Build[f.es[i]]]
        BY <2>1, AndSelects
    <2> QED BY <1>1, <2>2
<1>3. Lit(w) \in Value
    <2>1. Build[f.es[i]] \in Term
        BY OperandTerms
    <2> QED BY <1>1, <2>1, LookupLevels
<1>4. Lit(w).es = <<>> /\ Lit(w).s = w
    BY DEF Lit
<1>5. Selected[Lit(w)] = Having(w)
    BY <1>3, <1>4, SelectedForms
<1> QED BY <1>2, <1>5 DEF Sent

LEMMA SentTyped == \A f \in Value : Sent(f) \in Value
    BY BuildTyped, LookupLevels, Strangers DEF Sent

-----------------------------------------------------------------------------
(* What a lookup leaves of the restriction.                                *)
LEMMA LeftOverTyped ==
    \A n \in Levels : \A f \in Nested[n] :
        LeftOver[f] \in Nested[n] /\ (~f.arr => LeftOver[f] = f)
<1> DEFINE T == {n \in Levels : \A f \in Nested[n] : LeftOver[f] \in Nested[n]}
<1>1. ASSUME NEW n \in Levels, NEW f \in Nested[n]
      PROVE  f \in Value /\ LeftOver[f] = LeftOverBody(f, LeftOver)
    BY ValueForms, LeftOverDefined
<1>2. ASSUME NEW n \in Levels, n # 0 => n - 1 \in T, NEW f \in Nested[n]
      PROVE  LeftOver[f] \in Nested[n]
    <2>1. CASE f.es = <<>>
        BY <1>1, <2>1 DEF LeftOverBody
    <2>2. CASE f.es # <<>>
        <3> DEFINE rest == Tail(f.es)
                   S == Nested[n - 1]
                   taken == [i \in DOMAIN rest |-> LeftOver[rest[i]]]
        <3>1. n # 0 /\ rest \in Seq(S) /\ f.arr
            BY <2>2, RestBelow, ValueForms
        <3>2. \A e \in S : LeftOver[e] \in S
            BY <1>2, <3>1
        <3>3. \A es \in Seq(S) : Arr(es) \in Nested[n]
            BY <3>1, ValueOf
        <3>4. LeftOver[f] = IF Head(f.es) \in {And, Or} THEN Arr(taken)
                            ELSE IF Head(f.es) = Not /\ rest # <<>> THEN Arr(Tail(rest))
                            ELSE Arr(rest)
            BY <1>1, <2>2, <3>1 DEF LeftOverBody
        <3> HIDE DEF S, rest
        <3>5. taken \in Seq(S)
            BY <3>1, <3>2
        <3>6. rest # <<>> => Tail(rest) \in Seq(S)
            BY <3>1
        <3> HIDE DEF taken
        <3> QED BY <3>1, <3>3, <3>4, <3>5, <3>6
    <2> QED BY <2>1, <2>2
<1>3. T = Levels
    <2> HIDE DEF T
    <2>1. T \in SUBSET Levels
        BY DEF T
    <2>2. \A n \in Levels : (n # 0 => n - 1 \in T) => n \in T
        BY <1>2 DEF T
    <2> QED BY <2>1, <2>2, LevelsFromBelow
<1>4. \A n \in Levels : \A f \in Nested[n] : ~f.arr => LeftOver[f] = f
    BY <1>1 DEF LeftOverBody
<1> QED BY <1>3, <1>4

LEMMA ErodedKeeps ==
    ASSUME NEW fs \in Seq(Term)
    PROVE  /\ Eroded(fs) \in Seq(Term) /\ Len(Eroded(fs)) = Len(fs)
           /\ \A i \in 1..Len(fs) : ~fs[i].arr => Eroded(fs)[i] = fs[i]
<1> DEFINE S == Term
<1>1. \A f \in S : LeftOver[f] \in S /\ (~f.arr => LeftOver[f] = f)
    BY LookupLevels, LeftOverTyped
<1>2. fs \in Seq(S) /\ Eroded(fs) = [i \in 1..Len(fs) |-> LeftOver[fs[i]]]
    BY DEF Eroded
<1> HIDE DEF S
<1>3. Eroded(fs) \in Seq(S) /\ Len(Eroded(fs)) = Len(fs)
    BY <1>1, <1>2
<1>4. \A i \in 1..Len(fs) : Eroded(fs)[i] = LeftOver[fs[i]] /\ fs[i] \in S
    BY <1>2
<1> QED BY <1>1, <1>3, <1>4 DEF S

-----------------------------------------------------------------------------
(* The steps.                                                              *)
Among(conditions, w) == \E i \in 1..Len(conditions) : Build[conditions[i]] = Lit(w)

LEMMA OrgTyped ==
    ASSUME TypeOK
    PROVE  /\ org.class \in Classes /\ org.filter \in Seq(Term)
           /\ org.class # "" => org.class \in Condition
    BY LookupAssumption DEF TypeOK, LookupAssumption, Condition

LEMMA FindConditions ==
    ASSUME TypeOK, NEW k \in KeyFilters
    PROVE  /\ <<Lit(ClassLiteral), Lit(k)>> \in Seq(Term)
           /\ Among(<<Lit(ClassLiteral), Lit(k)>>, k)
           /\ org.class # "" => Among(<<Lit(ClassLiteral), Lit(k)>>, org.class)
<1> DEFINE x == Lit(ClassLiteral)
           y == Lit(k)
           es == <<x, y>>
           S == Term
<1>1. /\ ClassLiteral \in Condition /\ k \in Condition
      /\ org.class # "" => ClassLiteral = org.class
    BY OrgTyped, LookupAssumption DEF LookupAssumption, Condition, ClassLiteral
<1>2. x \in S /\ y \in S /\ Build[x] = x /\ Build[y] = y
    BY <1>1, LiteralBuilds
<1>3. org.class # "" => x = Lit(org.class)
    BY <1>1
<1> HIDE DEF S, x
<1>4. es \in Seq(S)
    BY <1>2
<1>5. Len(es) = 2 /\ es[1] = x /\ es[2] = y /\ 1 \in 1..Len(es) /\ 2 \in 1..Len(es)
    OBVIOUS
<1> HIDE DEF es
<1>6. Among(es, k)
    BY <1>2, <1>5 DEF Among
<1>7. org.class # "" => Among(es, org.class)
    BY <1>2, <1>3, <1>5 DEF Among
<1> QED BY <1>4, <1>6, <1>7 DEF es, S, x

LEMMA Prefixed ==
    ASSUME NEW S, NEW x \in S, NEW t \in Seq(S)
    PROVE  /\ <<x>> \o t \in Seq(S)
           /\ \E m \in 1..Len(<<x>> \o t) : (<<x>> \o t)[m] = x
           /\ \A i \in 1..Len(t) : \E m \in 1..Len(<<x>> \o t) : (<<x>> \o t)[m] = t[i]
<1> DEFINE es == <<x>> \o t
           N == Len(t)
<1>1. N \in Nat
    OBVIOUS
<1>2. es \in Seq(S) /\ Len(es) = N + 1 /\ es[1] = x /\ \A i \in 1..N : es[i + 1] = t[i]
    OBVIOUS
<1> HIDE DEF es, N
<1>3. 1 \in 1..Len(es) /\ \A i \in 1..N : i + 1 \in 1..Len(es)
    BY <1>1, <1>2
<1>4. \A i \in 1..N : \E m \in 1..Len(es) : es[m] = t[i]
    BY <1>2, <1>3
<1> QED BY <1>2, <1>3, <1>4 DEF es, N

LEMMA KeyConditionsHold ==
    ASSUME TypeOK, NEW k \in KeyFilters
    PROVE  /\ KeyConditions(k) \in Seq(Term)
           /\ Among(KeyConditions(k), k)
           /\ org.class # "" => Among(KeyConditions(k), org.class)
<1> DEFINE x == Arr(<<Lit(k)>>)
           y == Lit(org.class)
           es == KeyConditions(k)
           class == OptionalClass
           S == Term
<1>1. k \in Condition
    BY LookupAssumption DEF LookupAssumption, Condition
<1>2. x \in S /\ Build[x] = Lit(k)
    BY <1>1, LiteralBuilds
<1>3. org.class # "" => y \in S /\ Build[y] = y
    BY OrgTyped, LiteralBuilds
<1>4. (org.class = "" => class = <<>>) /\ (org.class # "" => class = <<y>>)
    BY DEF OptionalClass
<1>5. es = <<x>> \o class
    BY DEF KeyConditions
<1> HIDE DEF x, S, y, es, class
<1>6. class \in Seq(S) /\ (org.class # "" => class[1] = y /\ 1 \in 1..Len(class))
    <2>1. CASE org.class = ""
        <3>1. class = <<>>
            BY <1>4, <2>1
        <3>2. class \in Seq(S)
            BY <3>1, EmptySeq
        <3> QED BY <2>1, <3>2
    <2>2. CASE org.class # ""
        <3>1. y \in S /\ class = <<y>>
            BY <1>3, <1>4, <2>2
        <3> QED BY <3>1
    <2> QED BY <2>1, <2>2
<1>7. /\ es \in Seq(S) /\ \E m \in 1..Len(es) : es[m] = x
      /\ \A i \in 1..Len(class) : \E m \in 1..Len(es) : es[m] = class[i]
    <2>1. x \in S /\ class \in Seq(S)
        BY <1>2, <1>6
    <2>2. es \in Seq(S)
        BY <1>5, <2>1, Prefixed
    <2>3. \E m \in 1..Len(es) : es[m] = x
        BY <1>5, <2>1, Prefixed
    <2>4. \A i \in 1..Len(class) : \E m \in 1..Len(es) : es[m] = class[i]
        BY <1>5, <2>1, Prefixed
    <2> QED BY <2>2, <2>3, <2>4
<1>8. Among(es, k)
    BY <1>2, <1>7 DEF Among
<1>9. org.class # "" => Among(es, org.class)
    <2>1. SUFFICES ASSUME org.class # "" PROVE Among(es, org.class)
        OBVIOUS
    <2>2. PICK m \in 1..Len(es) : es[m] = y
        BY <1>6, <1>7, <2>1
    <2>3. Build[es[m]] = Lit(org.class)
        BY <1>3, <2>1, <2>2 DEF y
    <2> QED BY <2>3 DEF Among
<1> QED BY <1>7, <1>8, <1>9 DEF es, S

LEMMA AllTerms ==
    \A s, t \in Seq(Term) :
        /\ AllOf(And, s, t) \in Seq(Term) /\ AllOf(And, s, t) # <<>>
        /\ Head(AllOf(And, s, t)) = And
        /\ \A i \in 1..Len(s) :
              \E m \in 2..Len(AllOf(And, s, t)) : AllOf(And, s, t)[m] = s[i]
        /\ \A i \in 1..Len(t) :
              \E m \in 2..Len(AllOf(And, s, t)) : AllOf(And, s, t)[m] = t[i]
<1>1. And \in Term
    BY LookupLevels, Strangers
<1>2. ASSUME NEW s \in Seq(Term), NEW t \in Seq(Term)
      PROVE  AllOf(And, s, t) \in Seq(Term) /\ AllOf(And, s, t) # <<>>
    BY <1>1, Concatenated
<1>3. ASSUME NEW s \in Seq(Term), NEW t \in Seq(Term)
      PROVE  Head(AllOf(And, s, t)) = And
    BY <1>1, Concatenated
<1>4. ASSUME NEW s \in Seq(Term), NEW t \in Seq(Term)
      PROVE  \A i \in 1..Len(s) :
                \E m \in 2..Len(AllOf(And, s, t)) : AllOf(And, s, t)[m] = s[i]
    BY <1>1, Concatenated
<1>5. ASSUME NEW s \in Seq(Term), NEW t \in Seq(Term)
      PROVE  \A i \in 1..Len(t) :
                \E m \in 2..Len(AllOf(And, s, t)) : AllOf(And, s, t)[m] = t[i]
    BY <1>1, Concatenated
<1> QED BY <1>2, <1>3, <1>4, <1>5

LEMMA LookupInv ==
    ASSUME IInv, NEW how \in {"find", "findByKey", "findAndBind"}, NEW k \in KeyFilters,
           NEW conditions \in Seq(Term), Among(conditions, k),
           org.class # "" => Among(conditions, org.class),
           Lookup(how, k, conditions)
    PROVE  IInv'
<1> DEFINE es == AllOf(And, conditions, shared)
<1>1. asked' = Arr(es)
    BY DEF Lookup, AllOf
<1>2. TypeOK /\ shared \in Seq(Term) /\ org' = org
    BY DEF IInv, TypeOK, Lookup
<1>3. /\ es \in Seq(Term) /\ es # <<>> /\ Head(es) = And
      /\ \A i \in 1..Len(conditions) : \E m \in 2..Len(es) : es[m] = conditions[i]
      /\ \A i \in 1..Len(shared) : \E m \in 2..Len(es) : es[m] = shared[i]
    BY <1>2, AllTerms
<1> HIDE DEF es
<1>4. asked' \in Value
    <2>1. PICK n \in Levels : n # 0 /\ Value = Nested[n] /\ Term = Nested[n - 1]
        BY LookupLevels
    <2> QED BY <1>1, <1>3, <2>1, ValueOf
<1>5. asked'.es = es
    BY <1>1, ArrFields
<1>6. \A w : Among(conditions, w) => AsksFor(asked', w)
    <2>1. TAKE w
    <2>2. SUFFICES ASSUME Among(conditions, w) PROVE AsksFor(asked', w)
        OBVIOUS
    <2>3. PICK i \in 1..Len(conditions) : Build[conditions[i]] = Lit(w)
        BY <2>2 DEF Among
    <2>4. PICK m \in 2..Len(es) : es[m] = conditions[i]
        BY <1>3
    <2> QED BY <1>5, <2>3, <2>4 DEF AsksFor
<1>7. TypeOK'
    <2>1. sent' \in Value
        BY <1>4, SentTyped DEF Lookup
    <2>2. shared' \in Seq(Term)
        BY <1>2, ErodedKeeps DEF Lookup
    <2> QED BY <1>2, <1>4, <2>1, <2>2 DEF TypeOK, Lookup
<1>8. StringsStay'
    <2>1. shared' = Eroded(shared)
        BY DEF Lookup
    <2>2. /\ Len(shared') = Len(shared)
          /\ \A i \in 1..Len(shared) : ~shared[i].arr => shared'[i] = shared[i]
        BY <1>2, <2>1, ErodedKeeps
    <2>3. StringsStay
        BY DEF IInv
    <2> QED BY <1>2, <2>2, <2>3 DEF StringsStay
<1>9. Demands'
    <2>1. asked'.es # <<>> /\ Head(asked'.es) = And
        BY <1>3, <1>5
    <2>2. key' = k /\ AsksFor(asked', k)
        BY <1>6 DEF Lookup
    <2>3. org.class # "" => AsksFor(asked', org.class)
        BY <1>6
    <2>4. ASSUME NEW i \in 1..Len(org.filter), Bare(org.filter[i])
          PROVE  AsksFor(asked', org.filter[i].s)
        <3> DEFINE x == org.filter[i]
        <3>1. x \in Term /\ x \in Value
            BY <1>2, OrgTyped, ElementOfSeq, LookupLevels
        <3>2. ~x.arr /\ shared[i] = x /\ i \in 1..Len(shared)
            BY <2>4 DEF IInv, StringsStay, Bare
        <3> HIDE DEF x
        <3>3. x.es = <<>> /\ x = Lit(x.s)
            BY <3>1, <3>2, TopLevel, ValueForms
        <3>4. Build[x] = Lit(x.s)
            BY <2>4, <3>1, <3>3, BuildString DEF x
        <3>5. PICK m \in 2..Len(es) : es[m] = shared[i]
            BY <1>3, <3>2
        <3>6. AsksFor(asked', x.s)
            BY <1>5, <3>2, <3>4, <3>5 DEF AsksFor
        <3> QED BY <3>6 DEF x
    <2> QED BY <1>2, <2>1, <2>2, <2>3, <2>4 DEF Demands
<1>10. Answered'
    BY DEF Answered, Lookup
<1> QED BY <1>7, <1>8, <1>9, <1>10 DEF IInv

LEMMA FindBaseInv ==
    ASSUME IInv, FindBase
    PROVE  IInv'
<1> DEFINE es == <<>>
<1>1. asked' = Arr(es) /\ kind' = "findBase" /\ key' = "" /\ sent' = Sent(asked')
         /\ org' = org /\ shared' = shared
    BY DEF FindBase
<1>2. asked' \in Value
    <2>1. PICK n \in Levels : n # 0 /\ Value = Nested[n] /\ Term = Nested[n - 1]
        BY LookupLevels
    <2>2. es \in Seq(Nested[n - 1])
        OBVIOUS
    <2> QED BY <1>1, <2>1, <2>2, ValueOf
<1>3. TypeOK'
    BY <1>1, <1>2, SentTyped DEF IInv, TypeOK
<1>4. StringsStay'
    BY <1>1 DEF IInv, StringsStay
<1>5. Demands'
    BY <1>1 DEF Demands, Keyed
<1>6. Answered'
    BY <1>1 DEF Answered
<1> QED BY <1>3, <1>4, <1>5, <1>6 DEF IInv

LEMMA InitInv ==
    ASSUME Init
    PROVE  IInv
<1> DEFINE es == <<>>
<1>1. org.filter \in Seq(Term)
    BY LookupAssumption DEF Init, LookupAssumption
<1>2. asked \in Value
    <2>1. PICK n \in Levels : n # 0 /\ Value = Nested[n] /\ Term = Nested[n - 1]
        BY LookupLevels
    <2>2. es \in Seq(Nested[n - 1])
        OBVIOUS
    <2>3. asked = Arr(es)
        BY DEF Init
    <2> QED BY <2>1, <2>2, <2>3, ValueOf
<1>3. sent \in Value
    BY TopLevel, Strangers DEF Init
<1>4. TypeOK
    BY <1>1, <1>2, <1>3 DEF Init, TypeOK
<1>5. StringsStay
    BY DEF Init, StringsStay
<1>6. Demands /\ Answered
    BY DEF Init, Demands, Answered, Keyed
<1> QED BY <1>4, <1>5, <1>6 DEF IInv

(* The invariant holds: a lookup adds its key and class to the strings of  *)
(* the restriction, which no earlier lookup took.                          *)
THEOREM Invariance == Spec => []IInv
<1>1. Init => IInv
    BY InitInv
<1>2. IInv /\ [Next]_vars => IInv'
    <2>1. SUFFICES ASSUME IInv, [Next]_vars PROVE IInv'
        OBVIOUS
    <2>2. TypeOK
        BY <2>1 DEF IInv
    <2>3. ASSUME NEW k \in KeyFilters, Find(k) PROVE IInv'
        BY <2>1, <2>2, <2>3, FindConditions, LookupInv DEF Find
    <2>4. ASSUME NEW k \in KeyFilters, FindByKey(k) PROVE IInv'
        BY <2>1, <2>2, <2>4, KeyConditionsHold, LookupInv DEF FindByKey
    <2>5. ASSUME NEW k \in KeyFilters, FindAndBind(k) PROVE IInv'
        BY <2>1, <2>2, <2>5, KeyConditionsHold, LookupInv DEF FindAndBind
    <2>6. CASE FindBase
        BY <2>1, <2>6, FindBaseInv
    <2>7. CASE UNCHANGED vars
        BY <2>1, <2>7 DEF vars, IInv, TypeOK, StringsStay, Demands, Answered, Keyed
    <2> QED BY <2>1, <2>3, <2>4, <2>5, <2>6, <2>7 DEF Next
<1> QED BY <1>1, <1>2, PTL DEF Spec

(* Every lookup and every restriction are of their types.                  *)
THEOREM TypeCorrect == Spec => []TypeOK
<1>1. IInv => TypeOK
    BY DEF IInv
<1> QED BY <1>1, Invariance, PTL

-----------------------------------------------------------------------------
(* Whatever array is handed to the connection, nested to any depth, the    *)
(* filter that is sent selects what the array means by the rules of the    *)
(* class comment (buildFilter, lines 163-211, raw_find, lines 234-238).    *)
THEOREM BuildKeepsMeaning ==
    \A f \in Value : WellFormed[Sent(f)] => Selected[Sent(f)] = Admitted(f)
<1>1. TAKE f \in Value
<1>2. SUFFICES ASSUME WellFormed[Sent(f)] PROVE Selected[Sent(f)] = Admitted(f)
    OBVIOUS
<1>3. Means(f)
    BY TopLevel, MeaningRight
<1>4. CASE Build[f] = EmptyFilter
    <2>1. Sent(f) = AnyObject /\ Conditions[f] = {}
        BY <1>3, <1>4 DEF Sent, Means
    <2>2. AnyObject \in Value /\ AnyObject.es = <<>>
        BY TopLevel, Strangers
    <2>3. Selected[AnyObject] = Having(AnyObject.s)
        BY <2>2, SelectedForms
    <2>4. AnyObject.s = "objectClass=*"
        BY DEF AnyObject, Lit
    <2>5. Selected[AnyObject] = Entries
        BY <2>3, <2>4 DEF Having
    <2> QED BY <2>1, <2>5 DEF Admitted
<1>5. CASE Build[f] # EmptyFilter
    <2>1. Sent(f) = Build[f]
        BY <1>5 DEF Sent
    <2>2. Conditions[f] = {Selected[Build[f]]}
        BY <1>2, <1>3, <1>5, <2>1 DEF Means
    <2> QED BY <2>1, <2>2 DEF Admitted
<1> QED BY <1>4, <1>5

(* What goes to the directory means what the adapter asked for.            *)
THEOREM MeaningKept == Spec => []FilterMeans
<1>1. IInv => FilterMeans
    BY BuildKeepsMeaning DEF IInv, TypeOK, Answered, FilterMeans
<1> QED BY <1>1, Invariance, PTL

(* The filter that is sent selects only what has the key, and so on.       *)
LEMMA Selects ==
    ASSUME IInv, Keyed
    PROVE  /\ Selected[sent] \subseteq Having(key)
           /\ org.class # "" => Selected[sent] \subseteq Having(org.class)
           /\ \A i \in 1..Len(org.filter) :
                 Bare(org.filter[i]) => Selected[sent] \subseteq Having(org.filter[i].s)
<1>1. /\ TypeOK /\ asked \in Value /\ asked.es # <<>> /\ Head(asked.es) = And
      /\ AsksFor(asked, key) /\ key \in KeyFilters
      /\ org.class # "" => AsksFor(asked, org.class)
      /\ \A i \in 1..Len(org.filter) :
            Bare(org.filter[i]) => AsksFor(asked, org.filter[i].s)
    BY DEF IInv, Demands, TypeOK
<1>2. sent = Sent(asked)
    BY DEF IInv, Answered, Keyed
<1>3. \A w : AsksFor(asked, w) /\ Lit(w) # EmptyFilter => Selected[sent] \subseteq Having(w)
    BY <1>1, <1>2, AsksSelects
<1>4. \A w \in Condition : Lit(w) # EmptyFilter
    BY LiteralBuilds DEF Bare
<1>5. key \in Condition /\ (org.class # "" => org.class \in Condition)
    BY <1>1, OrgTyped, LookupAssumption DEF Condition, LookupAssumption
<1>6. ASSUME NEW i \in 1..Len(org.filter), Bare(org.filter[i])
      PROVE  Lit(org.filter[i].s) # EmptyFilter
    <2>1. org.filter[i] \in Value
        BY <1>1, OrgTyped, ElementOfSeq, LookupLevels
    <2>2. org.filter[i] = Lit(org.filter[i].s)
        BY <1>6, <2>1, TopLevel, ValueForms DEF Bare
    <2> QED BY <1>6, <2>2 DEF Bare
<1> QED BY <1>1, <1>3, <1>4, <1>5, <1>6

(* Whoever a lookup finds has the key, the class and every condition of the*)
(* restriction that is written as a string, whatever the lookups before it *)
(* left of the restriction (ldap.js 94-104, 145-163, 183-201).             *)
THEOREM LookupsSelect == Spec => []LookupSelective
<1>1. ASSUME IInv PROVE LookupSelective
    <2>1. DOMAIN org.filter = 1..Len(org.filter)
        BY <1>1, OrgTyped, LenProperties DEF IInv
    <2> QED BY <1>1, <2>1, Selects DEF LookupSelective
<1> QED BY <1>1, Invariance, PTL

Flat == \A i \in 1..Len(org.filter) : ~org.filter[i].arr

(* A restriction that is written with strings alone applies whole to every *)
(* lookup: only the arrays in the configuration, which buildFilter takes   *)
(* apart with shift() (ldapconnection.js 172), can lose a condition.       *)
THEOREM FlatRestrictionKept == Spec => [](Flat => RestrictionKept)
<1>1. ASSUME IInv, Flat, Keyed
      PROVE  Selected[sent] \subseteq Admitted(Arr(<<And>> \o org.filter))
    <2> DEFINE fs == org.filter
               none == <<>>
               es == <<And>> \o fs
               g == Arr(es)
    <2>1. fs \in Seq(Term) /\ \A i \in 1..Len(fs) : fs[i] \in Value
        BY <1>1, OrgTyped, ElementOfSeq, LookupLevels DEF IInv
    <2>2. /\ es \in Seq(Term) /\ es # <<>> /\ Head(es) = And
          /\ \A m \in 2..Len(es) : \E i \in 1..Len(fs) : es[m] = fs[i]
        <3> DEFINE S == Term
        <3>1. And \in S /\ fs \in Seq(S)
            BY <2>1, LookupLevels, Strangers
        <3> HIDE DEF S, fs
        <3>2. /\ es \in Seq(S) /\ es # <<>> /\ Head(es) = And
              /\ \A m \in 2..Len(es) : m - 1 \in 1..Len(fs) /\ es[m] = fs[m - 1]
            BY <3>1, JoinedForms
        <3> HIDE DEF es
        <3> QED BY <3>2 DEF S
    <2> HIDE DEF es
    <2>3. g.es = es /\ g.arr
        BY ArrFields
    <2>4. g \in Value
        <3>1. PICK n \in Levels : n # 0 /\ Value = Nested[n] /\ Term = Nested[n - 1]
            BY LookupLevels
        <3> QED BY <2>2, <3>1, ValueOf
    <2> HIDE DEF g
    <2>5. \A i \in 1..Len(fs) : \A c \in Conditions[fs[i]] : Selected[sent] \subseteq c
        <3>1. TAKE i \in 1..Len(fs)
        <3>2. ~fs[i].arr /\ fs[i] \in Value
            BY <1>1, <2>1 DEF Flat
        <3>3. CASE Bare(fs[i])
            <4>1. Selected[sent] \subseteq Having(fs[i].s)
                BY <1>1, <3>3, Selects
            <4>2. fs[i] # Arr(<<>>)
                BY <3>2, ArrFields
            <4>3. Conditions[fs[i]] = {Having(fs[i].s)}
                BY <3>2, <3>3, <4>2, ConditionsForms DEF Bare
            <4> QED BY <4>1, <4>3
        <3>4. CASE ~Bare(fs[i])
            <4>1. Conditions[fs[i]] = {}
                BY <3>2, <3>4, ConditionsForms DEF Bare
            <4> QED BY <4>1
        <3> QED BY <3>3, <3>4
    <2> HIDE DEF fs
    <2>6. \A c \in Held(g) : Selected[sent] \subseteq c
        BY <2>2, <2>3, <2>5 DEF Held
    <2>7. Selected[sent] \subseteq Entries
        BY <1>1, TopLevel, SelectedEntries DEF IInv, TypeOK
    <2>8. Conditions[g] = IF Held(g) = {} THEN {} ELSE {InAll(Held(g))}
        <3>1. PICK n \in Levels : n # 0 /\ Value = Nested[n] /\ Term = Nested[n - 1]
            BY LookupLevels
        <3>2. g.arr /\ g \notin {And, Or, Not, EmptyFilter, Arr(<<>>)}
            BY <2>2, <2>3, <2>4, <3>1, HeadedForms
        <3> QED BY <2>2, <2>3, <2>4, <3>2, ConditionsForms
    <2>9. Selected[sent] \subseteq InAll(Held(g))
        BY <2>6, <2>7 DEF InAll
    <2>10. Selected[sent] \subseteq Admitted(g)
        BY <2>7, <2>8, <2>9 DEF Admitted
    <2> QED BY <2>10 DEF g, es, fs
<1>2. IInv => (Flat => RestrictionKept)
    BY <1>1 DEF RestrictionKept
<1> QED BY <1>2, Invariance, PTL

=============================================================================
