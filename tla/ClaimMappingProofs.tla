------------------------- MODULE ClaimMappingProofs -------------------------
(***************************************************************************)
(* The claims are the documented ones for every mapping and every          *)
(* directory entry, whatever the entries mapped before.                    *)
(***************************************************************************)
EXTENDS ClaimMapping, FiniteSetTheorems, WellFoundedInduction, TLAPS

(* What filter() keeps: as many values as there are places, each of them   *)
(* from one of the places and from each place one.                         *)
LEMMA PlacesFinite ==
    ASSUME NEW m \in Nat, NEW S \in SUBSET (1..m)
    PROVE  IsFiniteSet(S) /\ Cardinality(S) \in Nat
BY FS_Interval, FS_Subset, FS_CardinalityType, 1 \in Int, m \in Int

LEMMA NthPlace ==
    ASSUME NEW m \in Nat, NEW S \in SUBSET (1..m)
    PROVE  /\ \A n \in 1..Cardinality(S) : Nth(S, n) \in S
           /\ \A i \in S : \E n \in 1..Cardinality(S) : Nth(S, n) = i
<1> DEFINE upto(i) == {j \in S : j <= i}
           rank == [i \in S |-> Cardinality(upto(i))]
           size == Cardinality(S)
<1>0. S \subseteq 1..m /\ \A i \in S : i \in 1..m /\ i \in Int
  OBVIOUS
<1>1. IsFiniteSet(S) /\ size \in Nat
  BY PlacesFinite
<1>2. \A i \in S : rank[i] \in 1..size
  <2> SUFFICES ASSUME NEW i \in S PROVE rank[i] \in 1..size
    OBVIOUS
  <2>0. i \in Int /\ i <= i
    BY <1>0
  <2>1. upto(i) \subseteq S /\ upto(i) \subseteq 1..m /\ i \in upto(i)
    BY <1>0, <2>0
  <2>2. IsFiniteSet(upto(i)) /\ Cardinality(upto(i)) \in Nat
    BY <2>1, PlacesFinite
  <2>3. Cardinality(upto(i)) <= size
    BY <2>1, <1>1, FS_Subset
  <2>4. Cardinality(upto(i)) # 0
    BY <2>1, <2>2, FS_EmptySet
  <2> QED BY <2>2, <2>3, <2>4, <1>1
<1>3. \A i, k \in S : i < k => rank[i] < rank[k]
  <2> SUFFICES ASSUME NEW i \in S, NEW k \in S, i < k PROVE rank[i] < rank[k]
    OBVIOUS
  <2>0. \A j \in S : j <= i => j <= k
    BY <1>0
  <2>1. upto(i) \subseteq upto(k) /\ upto(k) \subseteq 1..m /\ upto(i) \subseteq 1..m
    BY <1>0, <2>0
  <2>2. k \in upto(k) /\ k \notin upto(i)
    OBVIOUS
  <2>3. IsFiniteSet(upto(k)) /\ Cardinality(upto(k)) \in Nat /\ Cardinality(upto(i)) \in Nat
    BY <2>1, PlacesFinite
  <2>4. Cardinality(upto(i)) <= Cardinality(upto(k))
    BY <2>1, <2>3, FS_Subset
  <2>5. Cardinality(upto(i)) # Cardinality(upto(k))
    BY <2>1, <2>2, <2>3, FS_Subset
  <2> QED BY <2>3, <2>4, <2>5
<1>4. \A i, k \in S : rank[i] = rank[k] => i = k
  BY <1>2, <1>3
<1>5. rank \in Injection(S, 1..size)
  BY <1>2, <1>4 DEF Injection, IsInjective
<1>6. IsFiniteSet(1..size) /\ Cardinality(1..size) = size
  BY <1>1, FS_Interval
<1>7. rank \in Surjection(S, 1..size)
  BY <1>1, <1>5, <1>6, FS_Injection
<1>8. \A n \in 1..size : \E i \in S : rank[i] = n
  BY <1>7 DEF Surjection
<1>9. \A n \in 1..size : \A i \in S : Cardinality(upto(i)) = n <=> rank[i] = n
  OBVIOUS
<1> HIDE DEF rank, size
<1>10. ASSUME NEW n \in 1..size
       PROVE  Nth(S, n) \in S /\ rank[Nth(S, n)] = n
  <2>1. \E i \in S : Cardinality({j \in S : j <= i}) = n
    BY <1>8, <1>9
  <2>2. Nth(S, n) \in S /\ Cardinality({j \in S : j <= Nth(S, n)}) = n
    BY <2>1 DEF Nth
  <2> QED BY <2>2, <1>9
<1>11. ASSUME NEW i \in S
       PROVE  \E n \in 1..size : Nth(S, n) = i
  BY <1>10, <1>2, <1>4
<1> QED BY <1>10, <1>11 DEF size

LEMMA ListOf ==
    ASSUME NEW T, NEW es \in Seq(T)
    PROVE  IsList(es) /\ ToSet(es) \subseteq T
BY DEF IsList, ToSet

LEMMA InList ==
    ASSUME NEW T, NEW es \in Seq(T)
    PROVE  /\ Len(es) \in Nat /\ DOMAIN es = 1..Len(es)
           /\ \A i \in 1..Len(es) : es[i] \in T
OBVIOUS

LEMMA ListIs ==
    ASSUME NEW es, IsList(es)
    PROVE  /\ Len(es) \in Nat /\ DOMAIN es = 1..Len(es)
           /\ es = [i \in 1..Len(es) |-> es[i]]
           /\ \A i \in 1..Len(es) : es[i] \in ToSet(es)
BY DEF IsList, ToSet

LEMMA PickedList ==
    ASSUME NEW es, IsList(es), NEW S \in SUBSET DOMAIN es
    PROVE  /\ IsList(Picked(es, S))
           /\ Len(Picked(es, S)) = Cardinality(S)
           /\ ToSet(Picked(es, S)) = {es[i] : i \in S}
<1> DEFINE T == {es[i] : i \in S}
<1>1. Len(es) \in Nat /\ S \in SUBSET (1..Len(es))
  BY ListIs
<1>2. Cardinality(S) \in Nat
  BY <1>1, PlacesFinite
<1>3. /\ \A n \in 1..Cardinality(S) : Nth(S, n) \in S
      /\ \A i \in S : \E n \in 1..Cardinality(S) : Nth(S, n) = i
  BY <1>1, NthPlace
<1>4. Picked(es, S) \in Seq(T)
  BY <1>2, <1>3 DEF Picked
<1>5. Len(Picked(es, S)) = Cardinality(S) /\ DOMAIN Picked(es, S) = 1..Cardinality(S)
  BY <1>2 DEF Picked
<1>6. T \subseteq ToSet(Picked(es, S))
  BY <1>3, <1>5 DEF ToSet, Picked
<1> QED BY <1>4, <1>5, <1>6, ListOf

(* A list read from its end.                                               *)
LEMMA Mirror ==
    ASSUME NEW es, IsList(es)
    PROVE  /\ IsList(Reverse(es)) /\ Len(Reverse(es)) = Len(es)
           /\ ToSet(Reverse(es)) = ToSet(es)
           /\ \A i \in 1..Len(es) : Reverse(es)[i] = es[Len(es) + 1 - i]
           /\ Reverse(Reverse(es)) = es
<1>1. Len(es) \in Nat /\ DOMAIN es = 1..Len(es)
      /\ es = [i \in 1..Len(es) |-> es[i]]
      /\ \A i \in 1..Len(es) : es[i] \in ToSet(es)
  BY ListIs
<1>2. \A i \in 1..Len(es) : Len(es) - i + 1 \in 1..Len(es) /\ Len(es) - i + 1 = Len(es) + 1 - i
                            /\ Len(es) - (Len(es) - i + 1) + 1 = i
  BY <1>1
<1>3. Reverse(es) = [i \in 1..Len(es) |-> es[Len(es) - i + 1]]
  BY DEF Reverse
<1>4. Reverse(es) \in Seq(ToSet(es)) /\ Len(Reverse(es)) = Len(es)
      /\ DOMAIN Reverse(es) = 1..Len(es)
  BY <1>1, <1>2, <1>3
<1>5. \A i \in 1..Len(es) : Reverse(es)[i] = es[Len(es) + 1 - i]
  BY <1>2, <1>3
<1>6. \A i \in 1..Len(es) : es[i] = Reverse(es)[Len(es) - i + 1]
  BY <1>2, <1>3
<1>7. ToSet(es) \subseteq ToSet(Reverse(es))
  <2>1. \A i \in 1..Len(es) : Reverse(es)[Len(es) - i + 1] \in ToSet(Reverse(es))
    BY <1>2, <1>4 DEF ToSet
  <2>2. \A i \in 1..Len(es) : es[i] \in ToSet(Reverse(es))
    BY <2>1, <1>6
  <2> QED BY <2>2, <1>1 DEF ToSet
<1>8. Reverse(Reverse(es)) = es
  <2>1. Reverse(Reverse(es)) = [i \in 1..Len(es) |-> Reverse(es)[Len(es) - i + 1]]
    BY <1>4 DEF Reverse
  <2> QED BY <2>1, <1>1, <1>6
<1> QED BY <1>4, <1>5, <1>7, <1>8, ListOf

LEMMA MirrorNotNull ==
    ASSUME NEW es, IsList(es)
    PROVE  /\ IsList(NotNull(es)) /\ IsList(NotNull(Reverse(es)))
           /\ Len(NotNull(Reverse(es))) = Len(NotNull(es))
           /\ ToSet(NotNull(es)) = ToSet(es) \ {Null}
           /\ ToSet(NotNull(Reverse(es))) = ToSet(es) \ {Null}
<1> DEFINE n == Len(es)
           S == {i \in DOMAIN es : es[i] # Null}
           R == {i \in DOMAIN Reverse(es) : Reverse(es)[i] # Null}
           f == [i \in S |-> n + 1 - i]
<1>1. n \in Nat /\ DOMAIN es = 1..n
  BY ListIs
<1>2. IsList(Reverse(es)) /\ Len(Reverse(es)) = n /\ ToSet(Reverse(es)) = ToSet(es)
      /\ DOMAIN Reverse(es) = 1..n
  BY Mirror, ListIs
<1>3. \A i \in 1..n : Reverse(es)[i] = es[n + 1 - i]
  BY Mirror
<1>4. \A i \in 1..n : n + 1 - i \in 1..n /\ n + 1 - (n + 1 - i) = i
  BY <1>1
<1>5. f \in [S -> R]
  BY <1>1, <1>2, <1>3, <1>4
<1>6. \A i, k \in S : f[i] = f[k] => i = k
  BY <1>1
<1>7. \A k \in R : n + 1 - k \in S /\ f[n + 1 - k] = k
  BY <1>1, <1>2, <1>3, <1>4
<1>8. ExistsBijection(S, R)
  <2>1. f \in Injection(S, R)
    BY <1>5, <1>6 DEF Injection, IsInjective
  <2>2. f \in Surjection(S, R)
    BY <1>5, <1>7 DEF Surjection
  <2> QED BY <2>1, <2>2 DEF ExistsBijection, Bijection
<1>9. Cardinality(R) = Cardinality(S)
  BY <1>1, <1>8, PlacesFinite, FS_Bijection, S \in SUBSET (1..n)
<1>10. {es[i] : i \in S} = ToSet(es) \ {Null}
       /\ {Reverse(es)[i] : i \in R} = ToSet(Reverse(es)) \ {Null}
  BY DEF ToSet
<1> QED BY <1>2, <1>9, <1>10, PickedList, S \in SUBSET DOMAIN es,
           R \in SUBSET DOMAIN Reverse(es) DEF NotNull

-----------------------------------------------------------------------------
(* Assigning from the reversed lists is pairing from the end.              *)
LEMMA ReversedRest ==
    ASSUME NEW es, IsList(es), NEW n \in 1..Len(es)
    PROVE  Reverse(SubSeq(Reverse(es), n, Len(es))) = SubSeq(es, 1, Len(es) - n + 1)
<1> DEFINE L == Len(es)
           vs == Reverse(es)
           rest == SubSeq(vs, n, L)
<1>1. L \in Nat /\ n \in Nat /\ L - n + 1 \in Nat /\ L - n + 1 <= L
      /\ es \in Seq(ToSet(es)) /\ DOMAIN es = 1..L
  BY ListIs DEF IsList
<1>2. vs \in Seq(ToSet(es)) /\ Len(vs) = L
      /\ \A i \in 1..L : vs[i] = es[L + 1 - i]
  BY Mirror DEF IsList
<1>3. rest = [i \in 1..(L - n + 1) |-> vs[n + i - 1]] /\ Len(rest) = L - n + 1
  BY <1>1, <1>2
<1>4. \A i \in 1..(L - n + 1) : rest[(L - n + 1) - i + 1] = es[i]
  <2> SUFFICES ASSUME NEW i \in 1..(L - n + 1) PROVE rest[(L - n + 1) - i + 1] = es[i]
    OBVIOUS
  <2>1. (L - n + 1) - i + 1 \in 1..(L - n + 1)
        /\ n + ((L - n + 1) - i + 1) - 1 = L + 1 - i /\ L + 1 - i \in 1..L
        /\ L + 1 - (L + 1 - i) = i
    BY <1>1
  <2> QED BY <2>1, <1>2, <1>3
<1>5. Reverse(rest) = [i \in 1..(L - n + 1) |-> es[i]]
  BY <1>3, <1>4 DEF Reverse
<1>6. SubSeq(es, 1, L - n + 1) = [i \in 1..(L - n + 1) |-> es[i]]
  BY <1>1
<1> QED BY <1>5, <1>6

LEMMA AssignDocumented ==
    ASSUME NEW keys, IsList(keys), keys # <<>>, Different(keys),
           NEW es, IsList(es)
    PROVE  Assign(keys, es) = DocAssign(keys, es)
<1> DEFINE ks == Reverse(keys)
           vs == Reverse(es)
           n == Len(keys)
           L == Len(es)
           taken == {i \in DOMAIN ks : i <= Len(vs) /\ vs[i] # Null}
           m == [k \in {ks[i] : i \in taken} |-> vs[CHOOSE i \in taken : ks[i] = k]]
           spare == L - n
           paired == {j \in DOMAIN keys : spare + j >= 1 /\ es[spare + j] # Null}
           doc == [k \in {keys[j] : j \in paired} |->
                      es[spare + CHOOSE j \in paired : keys[j] = k]]
<1>1. n \in Nat /\ n # 0 /\ L \in Nat /\ spare \in Int /\ spare = L - n
      /\ DOMAIN keys = 1..n /\ DOMAIN es = 1..L
  BY ListIs DEF IsList
<1>2. Len(ks) = n /\ DOMAIN ks = 1..n /\ \A i \in 1..n : ks[i] = keys[n + 1 - i]
  BY Mirror, ListIs
<1>3. Len(vs) = L /\ \A i \in 1..L : vs[i] = es[L + 1 - i]
  BY Mirror
<1>4. /\ \A i : i \in taken <=> i \in 1..n /\ i <= L /\ vs[i] # Null
      /\ \A j : j \in paired <=> j \in 1..n /\ spare + j >= 1 /\ es[spare + j] # Null
  BY <1>1, <1>2, <1>3
<1>d. /\ DOMAIN m = {ks[i] : i \in taken} /\ DOMAIN doc = {keys[j] : j \in paired}
      /\ m = [k \in DOMAIN m |-> m[k]] /\ doc = [k \in DOMAIN doc |-> doc[k]]
      /\ \A i \in taken : m[ks[i]] = vs[CHOOSE j \in taken : ks[j] = ks[i]]
      /\ \A j \in paired : doc[keys[j]] = es[spare + CHOOSE i \in paired : keys[i] = keys[j]]
  OBVIOUS
<1>a. Assign(keys, es) =
        IF Len(ks) < Len(vs)
        THEN Obj(With(m, ks[Len(ks)], Arr(Reverse(SubSeq(vs, Len(ks), Len(vs))))))
        ELSE Obj(m)
  BY Zenon DEF Assign
<1>b. DocAssign(keys, es) =
        Obj(IF spare > 0 THEN With(doc, keys[1], Arr(SubSeq(es, 1, spare + 1))) ELSE doc)
  BY Zenon DEF DocAssign
<1> HIDE DEF ks, vs, n, L, taken, m, spare, paired, doc
<1>5. \A i \in taken : /\ n + 1 - i \in paired
                       /\ ks[i] = keys[n + 1 - i]
                       /\ vs[i] = es[spare + (n + 1 - i)]
  <2> SUFFICES ASSUME NEW i \in taken
               PROVE  /\ n + 1 - i \in paired
                      /\ ks[i] = keys[n + 1 - i]
                      /\ vs[i] = es[spare + (n + 1 - i)]
    OBVIOUS
  <2>1. i \in 1..n /\ i \in 1..L /\ n + 1 - i \in 1..n
        /\ spare + (n + 1 - i) = L + 1 - i /\ spare + (n + 1 - i) >= 1
    BY <1>1, <1>4
  <2>2. vs[i] = es[spare + (n + 1 - i)] /\ vs[i] # Null
    BY <2>1, <1>3, <1>4
  <2> QED BY <2>1, <2>2, <1>2, <1>4
<1>6. \A j \in paired : n + 1 - j \in taken /\ keys[j] = ks[n + 1 - j]
  <2> SUFFICES ASSUME NEW j \in paired
               PROVE  n + 1 - j \in taken /\ keys[j] = ks[n + 1 - j]
    OBVIOUS
  <2>1. j \in 1..n /\ spare + j >= 1 /\ es[spare + j] # Null
    BY <1>4
  <2>2. n + 1 - j \in 1..n /\ n + 1 - (n + 1 - j) = j /\ n + 1 - j <= L
        /\ spare + j = L + 1 - (n + 1 - j) /\ n + 1 - j \in 1..L
    BY <1>1, <2>1
  <2>3. vs[n + 1 - j] # Null
    BY <2>1, <2>2, <1>3
  <2> QED BY <2>2, <2>3, <1>2, <1>4
<1>7. \A j \in paired : (CHOOSE i \in paired : keys[i] = keys[j]) = j
  <2> SUFFICES ASSUME NEW j \in paired
               PROVE  (CHOOSE i \in paired : keys[i] = keys[j]) = j
    OBVIOUS
  <2>1. \A i \in paired : keys[i] = keys[j] => i = j
    BY <1>1, <1>4 DEF Different
  <2> QED BY <2>1
<1>8. \A i \in taken : (CHOOSE j \in taken : ks[j] = ks[i]) = i
  <2> SUFFICES ASSUME NEW i \in taken
               PROVE  (CHOOSE j \in taken : ks[j] = ks[i]) = i
    OBVIOUS
  <2>1. \A j \in taken : ks[j] = ks[i] => n + 1 - j = n + 1 - i
    BY <1>1, <1>4, <1>5 DEF Different
  <2>2. \A j \in taken : ks[j] = ks[i] => j = i
    BY <2>1, <1>1, <1>4
  <2> QED BY <2>2
<1>9. m = doc
  <2>1. DOMAIN m = DOMAIN doc
    BY <1>5, <1>6, <1>d
  <2>2. ASSUME NEW k \in DOMAIN m PROVE m[k] = doc[k]
    <3>1. PICK i \in taken : ks[i] = k
      BY <1>d
    <3>2. m[k] = vs[i]
      BY <3>1, <1>8, <1>d
    <3>3. n + 1 - i \in paired /\ keys[n + 1 - i] = k /\ vs[i] = es[spare + (n + 1 - i)]
      BY <3>1, <1>5
    <3>4. doc[k] = es[spare + (n + 1 - i)]
      BY <3>3, <1>7, <1>d
    <3> QED BY <3>2, <3>3, <3>4
  <2> QED BY <2>1, <2>2, <1>d
<1>10. CASE n < L
  <2>1. spare > 0 /\ n \in 1..n /\ n \in 1..L /\ n + 1 - n = 1 /\ L - n + 1 = spare + 1
    BY <1>10, <1>1
  <2>2. ks[n] = keys[1]
    BY <2>1, <1>2
  <2>3. Reverse(SubSeq(vs, n, L)) = SubSeq(es, 1, spare + 1)
    BY <2>1, ReversedRest DEF vs, L
  <2>4. Assign(keys, es) = Obj(With(doc, keys[1], Arr(SubSeq(es, 1, spare + 1))))
    BY <1>10, <1>a, <1>2, <1>3, <2>2, <2>3, <1>9
  <2> QED BY <2>1, <2>4, <1>b
<1>11. CASE ~(n < L)
  <2>1. ~(spare > 0)
    BY <1>11, <1>1
  <2> QED BY <2>1, <1>11, <1>a, <1>b, <1>2, <1>3, <1>9
<1> QED BY <1>10, <1>11

-----------------------------------------------------------------------------
(* What the conversions return, and that the order in which a list is read *)
(* changes neither the kind of the result nor what is in it.               *)
Result(v) == v = Null \/ v = Throw \/ Sound(v)

Alike(v, w) ==
    /\ v.t = w.t
    /\ IsArr(v) => /\ IsList(v.es) /\ IsList(w.es)
                   /\ Len(v.es) = Len(w.es) /\ ToSet(v.es) = ToSet(w.es)
    /\ ~IsArr(v) /\ ~IsObj(v) => v = w

Mirrored(v, w) == \/ v = w
                  \/ IsObj(v) /\ IsObj(w)
                  \/ IsArr(v) /\ IsList(v.es) /\ w = Arr(Reverse(v.es))

LEMMA Kinds ==
    /\ Null.t = "null" /\ Throw.t = "throw" /\ Null # Throw
    /\ \A x : Str(x).t = "str" /\ Arr(x).t = "arr" /\ Obj(x).t = "obj"
              /\ Str(x).s = x /\ Arr(x).es = x /\ Obj(x).m = x
BY DEF Null, Throw, Str, Arr, Obj

LEMMA ResultKinds ==
    ASSUME NEW v, Result(v)
    PROVE  /\ v.t \in {"null", "throw", "str", "arr", "obj"}
           /\ v.t = "null" <=> v = Null
           /\ v.t = "throw" <=> v = Throw
           /\ Proper(v) <=> v # Null /\ v # Throw
           /\ Sound(v) <=> v # Null /\ v # Throw
BY Kinds DEF Result, Sound, Proper, IsArr

LEMMA MirroredAlike ==
    ASSUME NEW v, Result(v), NEW w, Mirrored(v, w)
    PROVE  Alike(v, w) /\ Result(w)
<1>1. CASE v = w
  BY <1>1, Kinds DEF Alike, Result, Sound, IsArr
<1>2. CASE IsArr(v) /\ IsList(v.es) /\ w = Arr(Reverse(v.es))
  <2>1. IsArr(w) /\ w.es = Reverse(v.es) /\ w.t = "arr" /\ v.t = "arr"
    BY <1>2, Kinds DEF IsArr
  <2>2. Sound(v)
    BY <1>2, Kinds DEF Result, IsArr
  <2> QED BY <1>2, <2>1, <2>2, Mirror DEF Alike, Result, Sound, Proper, IsArr
<1>3. CASE IsObj(v) /\ IsObj(w)
  BY <1>3 DEF Alike, Result, Sound, Proper, IsArr, IsObj
<1> QED BY <1>1, <1>2, <1>3 DEF Mirrored

(* A list under a function.                                                *)
Image(es, f) == [i \in DOMAIN es |-> f[es[i]]]

LEMMA Images ==
    ASSUME NEW es, IsList(es), NEW f
    PROVE  /\ IsList(Image(es, f)) /\ Len(Image(es, f)) = Len(es)
           /\ \A x \in ToSet(es) : f[x] \in ToSet(Image(es, f))
           /\ \A y \in ToSet(Image(es, f)) : \E x \in ToSet(es) : y = f[x]
           /\ Reverse(Image(es, f)) = Image(Reverse(es), f)
<1> DEFINE im == Image(es, f)
           rs == Reverse(es)
<1>1. Len(es) \in Nat /\ DOMAIN es = 1..Len(es) /\ DOMAIN rs = 1..Len(es)
      /\ \A i \in 1..Len(es) : rs[i] = es[Len(es) + 1 - i]
  BY ListIs, Mirror DEF Reverse
<1>2. /\ \A x \in ToSet(es) : f[x] \in ToSet(im)
      /\ \A y \in ToSet(im) : \E x \in ToSet(es) : y = f[x]
  BY DEF ToSet, Image
<1>3. im \in Seq(ToSet(im)) /\ Len(im) = Len(es)
  BY <1>1 DEF ToSet, Image
<1>4. IsList(im)
  BY <1>3 DEF IsList
<1>5. \A i \in 1..Len(es) : Reverse(im)[i] = f[rs[i]]
  <2>1. \A i \in 1..Len(im) : Reverse(im)[i] = im[Len(im) + 1 - i]
    BY <1>4, Mirror
  <2>2. \A i \in 1..Len(es) : Len(es) + 1 - i \in 1..Len(es)
    BY <1>1
  <2>3. \A j \in 1..Len(es) : im[j] = f[es[j]]
    BY <1>1 DEF Image
  <2> QED BY <2>1, <2>2, <2>3, <1>1, <1>3
<1>6. Reverse(im) = [i \in 1..Len(es) |-> Reverse(im)[i]]
  BY <1>3 DEF Reverse
<1>7. Reverse(im) = Image(rs, f)
  BY <1>1, <1>5, <1>6 DEF Image
<1> QED BY <1>2, <1>3, <1>4, <1>7

(* An attribute, or a label of the labeled URIs; these as a whole are an   *)
(* object.                                                                 *)
Attribute(v) == v.t = "obj" \/ IsText(v, DOMAIN Pieces)

LEMMA AttributeSound ==
    ASSUME NEW v, Attribute(v)
    PROVE  /\ Sound(v)
           /\ v.t = "str" => v.s \in DOMAIN Pieces /\ v = Str(v.s)
           /\ IsArr(v) => v = Arr(v.es) /\ IsList(v.es) /\ ToSet(v.es) \subseteq Texts(DOMAIN Pieces)
<1>1. CASE v.t = "obj"
  BY <1>1 DEF Sound, Proper, IsArr
<1>2. CASE v.t = "arr" /\ IsText(v, DOMAIN Pieces)
  <2>1. v = Arr(v.es) /\ v.es \in Seq(Texts(DOMAIN Pieces))
    BY <1>2 DEF IsText, IsArr
  <2>2. IsList(v.es) /\ ToSet(v.es) \subseteq Texts(DOMAIN Pieces)
    BY <2>1, ListOf
  <2>3. \A x \in Texts(DOMAIN Pieces) : Proper(x)
    BY Kinds DEF Texts, Proper
  <2> QED BY <1>2, <2>1, <2>2, <2>3 DEF Sound, Proper, IsArr
<1>3. CASE v.t # "arr" /\ IsText(v, DOMAIN Pieces)
  BY <1>3, Kinds DEF IsText, IsArr, Texts, Sound, Proper
<1> QED BY <1>1, <1>2, <1>3 DEF Attribute

LEMMA SplitMirrored ==
    ASSUME NEW v, Attribute(v), NEW w, Mirrored(v, w)
    PROVE  Mirrored(Split(v), Split(w)) /\ Result(Split(v))
<1> DEFINE f == [x \in ToSet(v.es) |-> SplitString(x)]
<1>1. Sound(v)
  BY AttributeSound
<1>2. CASE v.t = "str"
  <2>1. v.s \in DOMAIN Pieces /\ v = w
    BY <1>2, AttributeSound, Kinds DEF Mirrored, IsArr, IsObj
  <2>2. Pieces[v.s] \in Seq(STRING)
    BY <2>1, TableAssumption
  <2>3. [i \in DOMAIN Pieces[v.s] |-> Str(Pieces[v.s][i])] \in Seq(Texts(STRING))
    BY <2>2 DEF Texts
  <2>4. Split(v) = Arr([i \in DOMAIN Pieces[v.s] |-> Str(Pieces[v.s][i])])
    BY <1>2 DEF Split, SplitString
  <2>5. \A x \in Texts(STRING) : Proper(x)
    BY Kinds DEF Texts, Proper
  <2>6. Sound(Split(v))
    BY <2>3, <2>4, <2>5, Kinds, ListOf DEF Sound, Proper, IsArr
  <2> QED BY <2>1, <2>6 DEF Mirrored, Result
<1>3. CASE v.t = "arr"
  <2>1. IsList(v.es)
    BY <1>3, <1>1 DEF Sound, IsArr
  <2>2. Split(v) = Arr(Image(v.es, f))
    <3>1. Split(v) = Arr([i \in DOMAIN v.es |-> SplitString(v.es[i])])
      BY <1>3 DEF Split, OnEach, IsArr
    <3>2. \A i \in DOMAIN v.es : SplitString(v.es[i]) = f[v.es[i]]
      BY DEF ToSet
    <3> HIDE DEF f
    <3> QED BY <3>1, <3>2 DEF Image
  <2>3. \A x \in ToSet(v.es) : Proper(f[x])
    BY Kinds DEF SplitString, Proper
  <2> HIDE DEF f
  <2>i. /\ IsList(Image(v.es, f))
        /\ \A y \in ToSet(Image(v.es, f)) : Proper(y)
        /\ Reverse(Image(v.es, f)) = Image(Reverse(v.es), f)
    <3>1. /\ IsList(Image(v.es, f))
          /\ Reverse(Image(v.es, f)) = Image(Reverse(v.es), f)
      BY <2>1, Images
    <3>2. \A y \in ToSet(Image(v.es, f)) : \E x \in ToSet(v.es) : y = f[x]
      BY <2>1, Images
    <3> QED BY <3>1, <3>2, <2>3
  <2>4. Sound(Split(v)) /\ IsArr(Split(v)) /\ Split(v).es = Image(v.es, f)
    BY <2>i, <2>2, Kinds DEF Sound, Proper, IsArr
  <2>5. CASE w = Arr(Reverse(v.es))
    <3>1. ToSet(Reverse(v.es)) = ToSet(v.es)
      BY <2>1, Mirror
    <3>2. Split(w) = Arr(Image(Reverse(v.es), f))
      <4>1. Split(w) = Arr([i \in DOMAIN Reverse(v.es) |-> SplitString(Reverse(v.es)[i])])
        BY <2>5, Kinds DEF Split, OnEach, IsArr
      <4>2. \A i \in DOMAIN Reverse(v.es) : SplitString(Reverse(v.es)[i]) = f[Reverse(v.es)[i]]
        BY <3>1 DEF f, ToSet
      <4> QED BY <4>1, <4>2 DEF Image
    <3>3. Split(w) = Arr(Reverse(Split(v).es)) /\ IsList(Split(v).es) /\ IsArr(Split(v))
      BY <3>2, <2>i, <2>4
    <3> QED BY <3>3, <2>4 DEF Mirrored, Result
  <2> QED BY <2>4, <2>5, <1>3 DEF Mirrored, Result, IsObj
<1>4. CASE v.t = "obj"
  BY <1>4, Kinds DEF Mirrored, Split, IsArr, IsObj, Result
<1> QED BY <1>1, <1>2, <1>3, <1>4 DEF Sound, Proper

LEMMA SwappedProper ==
    ASSUME NEW x, x = Null \/ Proper(x)
    PROVE  Swapped(x) = Null \/ Proper(Swapped(x))
BY Kinds DEF Swapped, Proper

LEMMA ReplaceAlike ==
    ASSUME NEW v, Sound(v), NEW w, Mirrored(v, w)
    PROVE  Alike(Replace(v), Replace(w)) /\ Result(Replace(v)) /\ Result(Replace(w))
<1> DEFINE f == [x \in ToSet(v.es) |-> Swapped(x)]
           im == Image(v.es, f)
<1>1. CASE v.t = "str"
  <2>1. v = w
    BY <1>1, Kinds DEF Mirrored, IsArr, IsObj
  <2>2. Replace(v) = v \/ Replace(v) = Null \/ \E s : Replace(v) = Str(s)
    BY <1>1 DEF Replace, Swapped
  <2>3. Result(Replace(v))
    BY <2>2, Kinds DEF Result, Sound, Proper, IsArr
  <2> QED BY <2>1, <2>3, MirroredAlike DEF Mirrored
<1>2. CASE v.t = "arr"
  <2>1. IsList(v.es) /\ \A x \in ToSet(v.es) : x = Null \/ Proper(x)
    BY <1>2 DEF Sound, IsArr
  <2>2. ToSet(Reverse(v.es)) = ToSet(v.es) /\ IsList(Reverse(v.es))
    BY <2>1, Mirror
  <2>3. OnEach(v, Swapped) = Arr(im)
    <3>1. \A i \in DOMAIN v.es : Swapped(v.es[i]) = f[v.es[i]]
      BY DEF ToSet
    <3> HIDE DEF f
    <3> QED BY <3>1 DEF OnEach, Image
  <2>4. ASSUME w = Arr(Reverse(v.es)) PROVE OnEach(w, Swapped) = Arr(Image(Reverse(v.es), f))
    <3>1. \A i \in DOMAIN Reverse(v.es) : Swapped(Reverse(v.es)[i]) = f[Reverse(v.es)[i]]
      BY <2>2 DEF ToSet
    <3> HIDE DEF f
    <3> QED BY <2>4, <3>1, Kinds DEF OnEach, Image
  <2>5. \A x \in ToSet(v.es) : f[x] = Null \/ Proper(f[x])
    BY <2>1, SwappedProper
  <2> HIDE DEF f, im
  <2>6. /\ IsList(im) /\ Reverse(im) = Image(Reverse(v.es), f)
        /\ \A y \in ToSet(im) : y = Null \/ Proper(y)
    <3>1. IsList(im) /\ Reverse(im) = Image(Reverse(v.es), f)
      BY <2>1, Images DEF im
    <3>2. \A y \in ToSet(im) : \E x \in ToSet(v.es) : y = f[x]
      BY <2>1, Images DEF im
    <3> QED BY <3>1, <3>2, <2>5
  <2>7. /\ IsList(NotNull(im)) /\ IsList(NotNull(Reverse(im)))
        /\ Len(NotNull(Reverse(im))) = Len(NotNull(im))
        /\ ToSet(NotNull(im)) = ToSet(im) \ {Null}
        /\ ToSet(NotNull(Reverse(im))) = ToSet(im) \ {Null}
    BY <2>6, MirrorNotNull
  <2>8. Replace(v) = Arr(NotNull(im))
    BY <1>2, <2>3, Kinds DEF Replace, IsArr
  <2>9. Replace(w) = Arr(NotNull(im)) \/ Replace(w) = Arr(NotNull(Reverse(im)))
    <3>1. CASE v = w
      BY <3>1, <2>8
    <3>2. CASE w = Arr(Reverse(v.es))
      <4>1. w.t = "arr"
        BY <3>2, Kinds
      <4>2. OnEach(w, Swapped) = Arr(Reverse(im))
        BY <3>2, <2>4, <2>6
      <4> QED BY <4>1, <4>2, Kinds DEF Replace, IsArr
    <3> QED BY <3>1, <3>2, <1>2 DEF Mirrored, IsObj
  <2>10. /\ Sound(Arr(NotNull(im))) /\ Sound(Arr(NotNull(Reverse(im))))
    BY <2>6, <2>7, Kinds DEF Sound, Proper, IsArr
  <2>11. /\ Alike(Arr(NotNull(im)), Arr(NotNull(im)))
         /\ Alike(Arr(NotNull(im)), Arr(NotNull(Reverse(im))))
    BY <2>7, Kinds DEF Alike, IsArr
  <2> QED BY <2>8, <2>9, <2>10, <2>11 DEF Result
<1>3. CASE v.t = "obj"
  BY <1>3, Kinds DEF Mirrored, Replace, IsArr, Result, Alike, IsObj
<1> QED BY <1>1, <1>2, <1>3 DEF Sound, Proper

(* Lists of the same values stay alike under a function.                   *)
LEMMA ImagesAlike ==
    ASSUME NEW es, IsList(es), NEW ds, IsList(ds), Len(es) = Len(ds), ToSet(es) = ToSet(ds),
           NEW f, \A x \in ToSet(es) : f[x] = Null \/ Proper(f[x])
    PROVE  /\ Alike(Arr(Image(es, f)), Arr(Image(ds, f)))
           /\ Sound(Arr(Image(es, f))) /\ Sound(Arr(Image(ds, f)))
<1>1. /\ IsList(Image(es, f)) /\ Len(Image(es, f)) = Len(es)
      /\ IsList(Image(ds, f)) /\ Len(Image(ds, f)) = Len(ds)
  BY Images
<1>2. /\ \A x \in ToSet(es) : f[x] \in ToSet(Image(es, f)) /\ f[x] \in ToSet(Image(ds, f))
      /\ \A y \in ToSet(Image(es, f)) : \E x \in ToSet(es) : y = f[x]
      /\ \A y \in ToSet(Image(ds, f)) : \E x \in ToSet(es) : y = f[x]
  <2>1. \A x \in ToSet(es) : f[x] \in ToSet(Image(es, f))
    BY Images
  <2>2. \A x \in ToSet(ds) : f[x] \in ToSet(Image(ds, f))
    BY Images
  <2>3. \A y \in ToSet(Image(es, f)) : \E x \in ToSet(es) : y = f[x]
    BY Images
  <2>4. \A y \in ToSet(Image(ds, f)) : \E x \in ToSet(ds) : y = f[x]
    BY Images
  <2> QED BY <2>1, <2>2, <2>3, <2>4
<1>3. ToSet(Image(es, f)) = ToSet(Image(ds, f))
  BY <1>2
<1>4. \A y \in ToSet(Image(es, f)) : y = Null \/ Proper(y)
  BY <1>2
<1> QED BY <1>1, <1>3, <1>4, Kinds DEF Alike, Sound, Proper, IsArr

LEMMA AlikeArrays ==
    ASSUME NEW v, Sound(v), IsArr(v), NEW w, Sound(w), Alike(v, w)
    PROVE  /\ IsArr(w) /\ IsList(v.es) /\ IsList(w.es)
           /\ Len(v.es) = Len(w.es) /\ ToSet(v.es) = ToSet(w.es)
           /\ \A x \in ToSet(v.es) : x = Null \/ Proper(x)
           /\ \A i \in DOMAIN v.es : v.es[i] \in ToSet(v.es)
           /\ \A i \in DOMAIN w.es : w.es[i] \in ToSet(v.es)
BY DEF Alike, Sound, IsArr, ToSet

LEMMA AlikeOthers ==
    ASSUME NEW v, Sound(v), ~IsArr(v), NEW w, Sound(w), Alike(v, w)
    PROVE  ~IsArr(w) /\ ((v.t = "str" /\ v = w) \/ (v.t = "obj" /\ w.t = "obj"))
BY Kinds DEF Alike, Sound, Proper, IsArr, IsObj

LEMMA SelfAlike ==
    ASSUME NEW v, Result(v)
    PROVE  Alike(v, v)
BY MirroredAlike DEF Mirrored

LEMMA ParsedSound ==
    ASSUME NEW x, IsJson(x)
    PROVE  ParsedJson(x) = Null \/ Sound(ParsedJson(x))
<1>1. CASE x.t = "str" /\ x.s \in DOMAIN Parsed
  BY <1>1, TableAssumption DEF ParsedJson, IsArr
<1>2. CASE IsArr(x) /\ Len(x.es) = 1 /\ x.es[1].s \in DOMAIN Parsed
  BY <1>2, TableAssumption DEF ParsedJson
<1> QED BY <1>1, <1>2 DEF IsJson

LEMMA JsonAlike ==
    ASSUME NEW v, Sound(v), NEW w, Sound(w), Alike(v, w)
    PROVE  Alike(Json(v), Json(w)) /\ Result(Json(v)) /\ Result(Json(w))
<1> DEFINE f == [x \in ToSet(v.es) |-> ParsedJson(x)]
<1>1. CASE IsArr(v)
  <2>1. /\ IsArr(w) /\ IsList(v.es) /\ IsList(w.es)
        /\ Len(v.es) = Len(w.es) /\ ToSet(v.es) = ToSet(w.es)
        /\ \A i \in DOMAIN v.es : v.es[i] \in ToSet(v.es)
        /\ \A i \in DOMAIN w.es : w.es[i] \in ToSet(v.es)
    BY <1>1, AlikeArrays
  <2>2. v.t # "str" /\ w.t # "str"
    BY <1>1, <2>1 DEF IsArr
  <2>3. /\ (\A i \in DOMAIN v.es : IsJson(v.es[i])) <=> \A x \in ToSet(v.es) : IsJson(x)
        /\ (\A i \in DOMAIN w.es : IsJson(w.es[i])) <=> \A x \in ToSet(w.es) : IsJson(x)
    BY DEF ToSet
  <2>4. CASE \A x \in ToSet(v.es) : IsJson(x)
    <3>1. OnEach(v, ParsedJson) = Arr(Image(v.es, f)) /\ OnEach(w, ParsedJson) = Arr(Image(w.es, f))
      BY <2>1 DEF OnEach, Image
    <3>2. Json(v) = Arr(Image(v.es, f)) /\ Json(w) = Arr(Image(w.es, f))
      BY <1>1, <2>1, <2>2, <2>3, <2>4, <3>1 DEF Json
    <3>3. \A x \in ToSet(v.es) : f[x] = Null \/ Proper(f[x])
      BY <2>4, ParsedSound DEF Sound
    <3> HIDE DEF f
    <3>4. Alike(Arr(Image(v.es, f)), Arr(Image(w.es, f)))
          /\ Sound(Arr(Image(v.es, f))) /\ Sound(Arr(Image(w.es, f)))
      BY <2>1, <3>3, ImagesAlike
    <3> QED BY <3>2, <3>4 DEF Result
  <2>5. CASE ~\A x \in ToSet(v.es) : IsJson(x)
    <3>1. Json(v) = Null /\ Json(w) = Null
      BY <2>1, <2>2, <2>3, <2>5 DEF Json
    <3> QED BY <3>1, SelfAlike DEF Result
  <2> QED BY <2>4, <2>5
<1>2. CASE v.t = "str" /\ v = w
  <2>1. Json(v) = Null \/ Sound(Json(v))
    BY <1>2, ParsedSound DEF Json, IsArr
  <2> QED BY <1>2, <2>1, SelfAlike DEF Result
<1>3. CASE v.t = "obj" /\ w.t = "obj"
  <2>1. Json(v) = Null /\ Json(w) = Null
    BY <1>3 DEF Json, IsArr
  <2> QED BY <2>1, SelfAlike DEF Result
<1> QED BY <1>1, <1>2, <1>3, AlikeOthers

LEMMA ExtendAlike ==
    ASSUME NEW v, Sound(v), NEW w, Sound(w), Alike(v, w)
    PROVE  Alike(Extend(v), Extend(w)) /\ Result(Extend(v)) /\ Result(Extend(w))
<1> DEFINE f == [x \in ToSet(v.es) |-> ExtendString(x)]
<1>1. CASE IsArr(v)
  <2>1. /\ IsArr(w) /\ IsList(v.es) /\ IsList(w.es)
        /\ Len(v.es) = Len(w.es) /\ ToSet(v.es) = ToSet(w.es)
        /\ \A x \in ToSet(v.es) : x = Null \/ Proper(x)
        /\ \A i \in DOMAIN v.es : v.es[i] \in ToSet(v.es)
        /\ \A i \in DOMAIN w.es : w.es[i] \in ToSet(v.es)
    BY <1>1, AlikeArrays
  <2>2. Extend(v) = Arr(Image(v.es, f)) /\ Extend(w) = Arr(Image(w.es, f))
    BY <1>1, <2>1 DEF Extend, OnEach, Image
  <2>3. \A x \in ToSet(v.es) : f[x] = Null \/ Proper(f[x])
    BY <2>1, Kinds DEF ExtendString, Proper
  <2> HIDE DEF f
  <2>4. Alike(Arr(Image(v.es, f)), Arr(Image(w.es, f)))
        /\ Sound(Arr(Image(v.es, f))) /\ Sound(Arr(Image(w.es, f)))
    BY <2>1, <2>3, ImagesAlike
  <2> QED BY <2>2, <2>4 DEF Result
<1>2. CASE v.t = "str" /\ v = w
  <2>1. Sound(Extend(v))
    BY <1>2, Kinds DEF Extend, ExtendString, Sound, Proper, IsArr
  <2> QED BY <1>2, <2>1, SelfAlike DEF Result
<1>3. CASE v.t = "obj" /\ w.t = "obj"
  BY <1>3 DEF Extend, ExtendString, IsArr, Result
<1> QED BY <1>1, <1>2, <1>3, AlikeOthers

LEMMA LowerAlike ==
    ASSUME NEW v, Sound(v), NEW w, Sound(w), Alike(v, w)
    PROVE  Alike(Lower(v), Lower(w)) /\ Result(Lower(v)) /\ Result(Lower(w))
<1> DEFINE f == [x \in ToSet(v.es) |-> LowerString(x)]
<1>1. CASE IsArr(v)
  <2>1. /\ IsArr(w) /\ IsList(v.es) /\ IsList(w.es)
        /\ Len(v.es) = Len(w.es) /\ ToSet(v.es) = ToSet(w.es)
        /\ \A i \in DOMAIN v.es : v.es[i] \in ToSet(v.es)
        /\ \A i \in DOMAIN w.es : w.es[i] \in ToSet(v.es)
    BY <1>1, AlikeArrays
  <2>2. /\ (\E i \in DOMAIN v.es : v.es[i].t # "str") <=> \E x \in ToSet(v.es) : x.t # "str"
        /\ (\E i \in DOMAIN w.es : w.es[i].t # "str") <=> \E x \in ToSet(w.es) : x.t # "str"
    BY DEF ToSet
  <2>3. CASE \A x \in ToSet(v.es) : x.t = "str"
    <3>1. OnEach(v, LowerString) = Arr(Image(v.es, f)) /\ OnEach(w, LowerString) = Arr(Image(w.es, f))
      BY <2>1 DEF OnEach, Image
    <3>2. Lower(v) = Arr(Image(v.es, f)) /\ Lower(w) = Arr(Image(w.es, f))
      BY <1>1, <2>1, <2>2, <2>3, <3>1 DEF Lower
    <3>3. \A x \in ToSet(v.es) : f[x] = Null \/ Proper(f[x])
      BY <2>3, Kinds DEF LowerString, Proper
    <3> HIDE DEF f
    <3>4. Alike(Arr(Image(v.es, f)), Arr(Image(w.es, f)))
          /\ Sound(Arr(Image(v.es, f))) /\ Sound(Arr(Image(w.es, f)))
      BY <2>1, <3>3, ImagesAlike
    <3> QED BY <3>2, <3>4 DEF Result
  <2>4. CASE \E x \in ToSet(v.es) : x.t # "str"
    <3>1. Lower(v) = Throw /\ Lower(w) = Throw
      BY <1>1, <2>1, <2>2, <2>4 DEF Lower
    <3> QED BY <3>1, SelfAlike DEF Result
  <2> QED BY <2>3, <2>4
<1>2. CASE v.t = "str" /\ v = w
  <2>1. Sound(Lower(v))
    BY <1>2, Kinds DEF Lower, LowerString, Sound, Proper, IsArr
  <2> QED BY <1>2, <2>1, SelfAlike DEF Result
<1>3. CASE v.t = "obj" /\ w.t = "obj"
  <2>1. Lower(v) = Throw /\ Lower(w) = Throw
    BY <1>3 DEF Lower, LowerString, IsArr
  <2> QED BY <2>1, SelfAlike DEF Result
<1> QED BY <1>1, <1>2, <1>3, AlikeOthers

-----------------------------------------------------------------------------
(* The entry, once its labeled URIs are grouped: strings and lists of      *)
(* strings, and one object of such values.                                 *)
IsEntry(E) ==
    /\ E = [a \in DOMAIN E |-> E[a]] /\ "" \notin DOMAIN E
    /\ \A a \in DOMAIN E :
          IF IsObj(E[a])
          THEN /\ a = UriAttr /\ E[a] = Obj(E[a].m)
               /\ E[a].m = [l \in DOMAIN E[a].m |-> E[a].m[l]]
               /\ "" \notin DOMAIN E[a].m
               /\ \A l \in DOMAIN E[a].m : IsText(E[a].m[l], DOMAIN Pieces)
          ELSE IsText(E[a], DOMAIN Pieces)

LEMMA TextKinds ==
    ASSUME NEW v, NEW S, IsText(v, S)
    PROVE  v.t \in {"str", "arr"} /\ ~IsObj(v)
BY Kinds DEF IsText, Texts, IsArr, IsObj

LEMMA WithLabelTexts ==
    ASSUME NEW us \in Seq(Texts(DOMAIN UrlOf)), NEW l
    PROVE  WithLabel(us, l) \in Seq(Texts(DOMAIN Pieces))
<1> DEFINE urls == [i \in DOMAIN us |-> Str(UrlOf[us[i].s])]
           S == {i \in DOMAIN us : LabelOf[us[i].s] = l}
<1>1. \A i \in DOMAIN us : us[i].s \in DOMAIN UrlOf
  BY Kinds DEF Texts
<1>2. \A i \in DOMAIN us : UrlOf[us[i].s] \in DOMAIN Pieces
  BY <1>1, TableAssumption
<1>3. urls \in Seq(Texts(DOMAIN Pieces)) /\ DOMAIN urls = DOMAIN us
  BY <1>2 DEF Texts
<1>4. IsList(urls) /\ ToSet(urls) \subseteq Texts(DOMAIN Pieces)
  BY <1>3, ListOf
<1>5. S \in SUBSET DOMAIN urls
  BY <1>3
<1> HIDE DEF urls, S
<1>6. /\ IsList(Picked(urls, S)) 
      /\ ToSet(Picked(urls, S)) = {urls[i] : i \in S}
  BY <1>4, <1>5, PickedList
<1>7. ToSet(Picked(urls, S)) \subseteq Texts(DOMAIN Pieces)
  BY <1>4, <1>5, <1>6 DEF ToSet
<1>8. Picked(urls, S) \in Seq(Texts(DOMAIN Pieces))
  BY <1>6, <1>7 DEF IsList
<1> QED BY <1>8 DEF WithLabel, urls, S

LEMMA GroupedIs ==
    ASSUME NEW us \in Seq(Texts(DOMAIN UrlOf))
    PROVE  /\ IsObj(Grouped(us)) /\ Grouped(us) = Obj(Grouped(us).m)
           /\ Grouped(us).m = [l \in DOMAIN Grouped(us).m |-> Grouped(us).m[l]]
           /\ "" \notin DOMAIN Grouped(us).m
           /\ \A l \in DOMAIN Grouped(us).m : IsText(Grouped(us).m[l], DOMAIN Pieces)
<1> DEFINE labels == {LabelOf[us[i].s] : i \in DOMAIN us} \ {""}
           obj == [l \in labels |-> IF Len(WithLabel(us, l)) = 1 THEN WithLabel(us, l)[1]
                                  ELSE Arr(WithLabel(us, l))]
<1>1. Grouped(us) = Obj(obj)
  BY Zenon DEF Grouped
<1>2. DOMAIN obj = labels /\ obj = [l \in DOMAIN obj |-> obj[l]] /\ "" \notin labels
  OBVIOUS
<1>3. ASSUME NEW l \in labels
      PROVE  IsText(obj[l], DOMAIN Pieces)
  <2> DEFINE ws == WithLabel(us, l)
  <2>1. ws \in Seq(Texts(DOMAIN Pieces))
    BY WithLabelTexts
  <2>2. obj[l] = IF Len(ws) = 1 THEN ws[1] ELSE Arr(ws)
    OBVIOUS
  <2> HIDE DEF ws, obj, labels
  <2>3. CASE Len(ws) = 1
    <3>1. \A i \in 1..Len(ws) : ws[i] \in Texts(DOMAIN Pieces)
      BY <2>1, InList
    <3>2. obj[l] \in Texts(DOMAIN Pieces)
      BY <3>1, <2>2, <2>3
    <3> QED BY <3>2, Kinds DEF IsText, IsArr, Texts
  <2>4. CASE Len(ws) # 1
    <3>1. obj[l] = Arr(ws) /\ obj[l].t = "arr" /\ obj[l].es = ws
      BY <2>2, <2>4, Kinds
    <3> QED BY <2>1, <3>1 DEF IsText, IsArr
  <2> QED BY <2>3, <2>4
<1> HIDE DEF obj, labels
<1> QED BY <1>1, <1>2, <1>3, Kinds DEF IsObj

LEMMA LabeledIs ==
    ASSUME NEW e \in Entries
    PROVE  IsEntry(Labeled(e)) /\ DOMAIN Labeled(e) = DOMAIN e
<1>1. /\ e = [a \in DOMAIN e |-> e[a]] /\ "" \notin DOMAIN e
      /\ \A a \in DOMAIN e : a # UriAttr => IsText(e[a], DOMAIN Pieces)
      /\ UriAttr \in DOMAIN e => IsText(e[UriAttr], DOMAIN UrlOf)
  BY EntryAssumption
<1>2. CASE UriAttr \notin DOMAIN e
  <2>1. Labeled(e) = e
    BY <1>2 DEF Labeled
  <2> QED BY <1>1, <1>2, <2>1, TextKinds DEF IsEntry
<1>3. CASE UriAttr \in DOMAIN e
  <2>1. PICK us \in Seq(Texts(DOMAIN UrlOf)) : Labeled(e) = [e EXCEPT ![UriAttr] = Grouped(us)]
    <3>1. CASE IsArr(e[UriAttr])
      BY <1>1, <1>3, <3>1, Kinds DEF Labeled, IsText, IsArr
    <3>2. CASE ~IsArr(e[UriAttr])
      <4>1. e[UriAttr] \in Texts(DOMAIN UrlOf) /\ e[UriAttr].t = "str"
        BY <1>1, <1>3, <3>2, Kinds DEF IsText, Texts
      <4>2. <<e[UriAttr]>> \in Seq(Texts(DOMAIN UrlOf))
        BY <4>1
      <4>3. Labeled(e) = [e EXCEPT ![UriAttr] = Grouped(<<e[UriAttr]>>)]
        BY <1>3, <4>1 DEF Labeled
      <4> QED BY <4>2, <4>3
    <3> QED BY <3>1, <3>2
  <2>2. /\ DOMAIN Labeled(e) = DOMAIN e /\ Labeled(e) = [a \in DOMAIN e |-> Labeled(e)[a]]
        /\ Labeled(e)[UriAttr] = Grouped(us)
        /\ \A a \in DOMAIN e : a # UriAttr => Labeled(e)[a] = e[a]
    BY <1>1, <1>3, <2>1
  <2>3. /\ IsObj(Grouped(us)) /\ Grouped(us) = Obj(Grouped(us).m)
        /\ Grouped(us).m = [l \in DOMAIN Grouped(us).m |-> Grouped(us).m[l]]
        /\ "" \notin DOMAIN Grouped(us).m
        /\ \A l \in DOMAIN Grouped(us).m : IsText(Grouped(us).m[l], DOMAIN Pieces)
    BY GroupedIs
  <2>4. ASSUME NEW a \in DOMAIN e, a # UriAttr
        PROVE  ~IsObj(Labeled(e)[a]) /\ IsText(Labeled(e)[a], DOMAIN Pieces)
    BY <2>2, <2>4, <1>1, TextKinds
  <2> QED BY <1>1, <2>2, <2>3, <2>4 DEF IsEntry
<1> QED BY <1>2, <1>3

(* The places of lists, some of which are read in reverse.                 *)
ListAt(E, at) ==
    /\ at = <<at[1], at[2]>> /\ at[1] \in DOMAIN E
    /\ IF at[2] = "" THEN IsArr(E[at[1]])
       ELSE IsObj(E[at[1]]) /\ at[2] \in DOMAIN E[at[1]].m /\ IsArr(E[at[1]].m[at[2]])

Turnable(E, S) == IsEntry(E) /\ \A at \in S : ListAt(E, at)

Seen(v, at, S) == IF at \in S THEN Arr(Reverse(v.es)) ELSE v

LEMMA SeenText ==
    ASSUME NEW v, NEW at, NEW S, NEW T, IsText(v, T), at \in S => IsArr(v)
    PROVE  IsText(Seen(v, at, S), T) /\ Mirrored(v, Seen(v, at, S))
<1>1. CASE at \in S
  <2>1. v.es \in Seq(Texts(T)) /\ IsList(v.es) /\ ToSet(v.es) \subseteq Texts(T)
    BY <1>1, ListOf DEF IsText
  <2>2. IsList(Reverse(v.es)) /\ ToSet(Reverse(v.es)) \subseteq Texts(T)
    BY <2>1, Mirror
  <2>3. Reverse(v.es) \in Seq(Texts(T))
    BY <2>2 DEF IsList
  <2> QED BY <1>1, <2>1, <2>3, Kinds DEF Seen, IsText, IsArr, Mirrored
<1>2. CASE at \notin S
  BY <1>2 DEF Seen, Mirrored
<1> QED BY <1>1, <1>2

LEMMA TurnedIs ==
    ASSUME NEW E, NEW S, Turnable(E, S)
    PROVE  /\ Turned(E, S) = [a \in DOMAIN E |-> Turned(E, S)[a]]
           /\ \A a \in DOMAIN E : ~IsObj(E[a]) => Turned(E, S)[a] = Seen(E[a], <<a, "">>, S)
           /\ \A a \in DOMAIN E : IsObj(E[a]) =>
                 Turned(E, S)[a] = Obj([l \in DOMAIN E[a].m |-> Seen(E[a].m[l], <<a, l>>, S)])
BY DEF Turned, Seen

LEMMA TurnedDomain ==
    ASSUME NEW E, NEW S, Turnable(E, S)
    PROVE  DOMAIN Turned(E, S) = DOMAIN E
BY TurnedIs

LEMMA TurnedText ==
    ASSUME NEW E, NEW S, Turnable(E, S), NEW a \in DOMAIN E, ~IsObj(E[a])
    PROVE  /\ Turned(E, S)[a] = Seen(E[a], <<a, "">>, S)
           /\ IsText(E[a], DOMAIN Pieces) /\ IsText(Turned(E, S)[a], DOMAIN Pieces)
           /\ Mirrored(E[a], Turned(E, S)[a])
           /\ ~IsObj(Turned(E, S)[a])
<1>1. Turned(E, S)[a] = Seen(E[a], <<a, "">>, S) /\ IsText(E[a], DOMAIN Pieces)
  BY TurnedIs DEF Turnable, IsEntry
<1>2. <<a, "">> \in S => IsArr(E[a])
  BY DEF Turnable, ListAt
<1> QED BY <1>1, <1>2, SeenText, TextKinds

LEMMA TurnedObject ==
    ASSUME NEW E, NEW S, Turnable(E, S), NEW a \in DOMAIN E, IsObj(E[a])
    PROVE  /\ a = UriAttr /\ IsObj(Turned(E, S)[a])
           /\ Turned(E, S)[a].m = [l \in DOMAIN E[a].m |-> Seen(E[a].m[l], <<a, l>>, S)]
           /\ "" \notin DOMAIN E[a].m
           /\ \A l \in DOMAIN E[a].m :
                 /\ IsText(E[a].m[l], DOMAIN Pieces)
                 /\ IsText(Turned(E, S)[a].m[l], DOMAIN Pieces)
                 /\ Mirrored(E[a].m[l], Turned(E, S)[a].m[l])
<1>1. Turned(E, S)[a] = Obj([l \in DOMAIN E[a].m |-> Seen(E[a].m[l], <<a, l>>, S)])
  BY TurnedIs
<1>2. /\ IsObj(Turned(E, S)[a])
      /\ Turned(E, S)[a].m = [l \in DOMAIN E[a].m |-> Seen(E[a].m[l], <<a, l>>, S)]
  BY <1>1, Kinds DEF IsObj
<1>3. /\ a = UriAttr /\ "" \notin DOMAIN E[a].m
      /\ \A l \in DOMAIN E[a].m : IsText(E[a].m[l], DOMAIN Pieces)
  BY DEF Turnable, IsEntry
<1>4. ASSUME NEW l \in DOMAIN E[a].m
      PROVE  /\ IsText(Turned(E, S)[a].m[l], DOMAIN Pieces)
             /\ Mirrored(E[a].m[l], Turned(E, S)[a].m[l])
  <2>1. <<a, l>> \in S => IsArr(E[a].m[l])
    BY <1>3 DEF Turnable, ListAt
  <2>2. Turned(E, S)[a].m[l] = Seen(E[a].m[l], <<a, l>>, S)
    BY <1>2
  <2> QED BY <1>3, <2>1, <2>2, SeenText
<1> QED BY <1>2, <1>3, <1>4

(* What is fetched from the entry, and from the same entry with some lists *)
(* in reverse.                                                             *)
Twins(r, q) == /\ Result(r.val) /\ Result(q.val)
               /\ Alike(r.val, q.val)
               /\ r.at = q.at

Held(E, F, r, q) == r.at # Nowhere => /\ r.at[1] \in DOMAIN E
                                      /\ r.val = At(E, r.at) /\ Proper(r.val)
                                      /\ q.val = At(F, r.at)
                                      /\ IsArr(r.val) => ListAt(E, r.at)
                                      /\ IsObj(r.val) => r.at = <<UriAttr, "">>

LEMMA FetchedTwins ==
    ASSUME NEW E, NEW S, Turnable(E, S),
           NEW alt, alt.attr \in DOMAIN E
    PROVE  LET r == Fetched(alt, E)
               q == Fetched(alt, Turned(E, S))
           IN  /\ \/ r.val = Null /\ q.val = Null
                  \/ Attribute(r.val) /\ Attribute(q.val) /\ Mirrored(r.val, q.val)
               /\ r.at = q.at
               /\ Held(E, Turned(E, S), r, q)
               /\ IsObj(r.val) => alt.attr = UriAttr /\ alt.label = ""
<1> DEFINE F == Turned(E, S)
           a == alt.attr
           l == alt.label
           r == Fetched(alt, E)
           q == Fetched(alt, F)
<1>0. "" \notin DOMAIN E
  BY DEF Turnable, IsEntry
<1>1. CASE ~IsObj(E[a])
  <2>1. /\ IsText(E[a], DOMAIN Pieces) /\ IsText(F[a], DOMAIN Pieces)
        /\ Mirrored(E[a], F[a]) /\ ~IsObj(F[a])
    BY <1>1, TurnedText
  <2>2. /\ r.val = E[a] /\ q.val = F[a]
        /\ r.at = IF E[a].t = "str" THEN Nowhere ELSE <<a, "">>
        /\ q.at = IF F[a].t = "str" THEN Nowhere ELSE <<a, "">>
    BY <1>1, <2>1 DEF Fetched, Read
  <2>3. E[a].t = F[a].t /\ E[a].t \in {"str", "arr"}
    BY <2>1, MirroredAlike, AttributeSound, TextKinds DEF Alike, Result, Attribute
  <2>4. /\ <<a, "">>[1] = a /\ <<a, "">>[2] = "" /\ <<a, "">> = <<<<a, "">>[1], <<a, "">>[2]>>
    OBVIOUS
  <2>5. At(E, <<a, "">>) = E[a] /\ At(F, <<a, "">>) = F[a]
    BY <2>4 DEF At
  <2> HIDE DEF F, r, q
  <2>6. Held(E, F, r, q)
    BY <2>2, <2>3, <2>4, <2>5, <1>0 DEF Held, Proper, ListAt, IsArr, IsObj
  <2> QED BY <1>1, <2>1, <2>2, <2>3, <2>6 DEF Attribute, F, r, q
<1>2. CASE IsObj(E[a])
  <2>1. /\ a = UriAttr /\ IsObj(F[a]) /\ DOMAIN F[a].m = DOMAIN E[a].m
        /\ "" \notin DOMAIN E[a].m
        /\ \A k \in DOMAIN E[a].m : /\ IsText(E[a].m[k], DOMAIN Pieces)
                                     /\ IsText(F[a].m[k], DOMAIN Pieces)
                                     /\ Mirrored(E[a].m[k], F[a].m[k])
    <3>1. /\ a = UriAttr /\ IsObj(F[a]) /\ "" \notin DOMAIN E[a].m
          /\ F[a].m = [k \in DOMAIN E[a].m |-> Seen(E[a].m[k], <<a, k>>, S)]
      BY <1>2, TurnedObject
    <3>2. \A k \in DOMAIN E[a].m : /\ IsText(E[a].m[k], DOMAIN Pieces)
                                   /\ IsText(F[a].m[k], DOMAIN Pieces)
                                   /\ Mirrored(E[a].m[k], F[a].m[k])
      BY <1>2, TurnedObject
    <3>3. DOMAIN F[a].m = DOMAIN E[a].m
      BY <3>1
    <3> QED BY <3>1, <3>2, <3>3
  <2>2. CASE l = ""
    <3>1. /\ r.val = E[a] /\ q.val = F[a] /\ r.at = <<a, "">> /\ q.at = <<a, "">>
      BY <1>2, <2>1, <2>2 DEF Fetched, Read, IsObj
    <3>2. At(E, <<a, "">>) = E[a] /\ At(F, <<a, "">>) = F[a] /\ <<a, "">>[1] = a
      BY DEF At
    <3> HIDE DEF F, r, q
    <3> QED BY <1>2, <2>1, <2>2, <3>1, <3>2 DEF Held, Proper, Attribute, Mirrored, IsObj, IsArr, F, r, q
  <2>3. CASE l # "" /\ l \in DOMAIN E[a].m
    <3> DEFINE v == E[a].m[l]
               w == F[a].m[l]
    <3>1. /\ r.val = v /\ q.val = w
          /\ r.at = IF v.t = "str" THEN Nowhere ELSE <<a, l>>
          /\ q.at = IF w.t = "str" THEN Nowhere ELSE <<a, l>>
      BY <1>2, <2>1, <2>3 DEF Fetched, Read
    <3>2. IsText(v, DOMAIN Pieces) /\ IsText(w, DOMAIN Pieces) /\ Mirrored(v, w)
      BY <2>1, <2>3
    <3>3. v.t = w.t /\ v.t \in {"str", "arr"} /\ ~IsObj(v)
      BY <3>2, MirroredAlike, AttributeSound, TextKinds DEF Alike, Result, Attribute
    <3>4. /\ <<a, l>>[1] = a /\ <<a, l>>[2] = l /\ <<a, l>> = <<<<a, l>>[1], <<a, l>>[2]>>
      OBVIOUS
    <3>5. At(E, <<a, l>>) = v /\ At(F, <<a, l>>) = w
      BY <2>3, <3>4 DEF At
    <3>6. IsArr(v) => ListAt(E, <<a, l>>)
      BY <1>2, <2>3, <3>4 DEF ListAt
    <3> HIDE DEF F, r, q, v, w
    <3>7. Held(E, F, r, q)
      BY <3>1, <3>3, <3>4, <3>5, <3>6 DEF Held, Proper
    <3> QED BY <3>1, <3>2, <3>3, <3>7 DEF Attribute, F, r, q
  <2>4. CASE l # "" /\ l \notin DOMAIN E[a].m
    <3>1. /\ r.val = Null /\ q.val = Null /\ r.at = Nowhere /\ q.at = Nowhere
      BY <1>2, <2>1, <2>4 DEF Fetched, Read
    <3> HIDE DEF F, r, q
    <3> QED BY <3>1, Kinds DEF Held, IsObj, F, r, q
  <2> QED BY <2>2, <2>3, <2>4
<1> QED BY <1>1, <1>2

(* A conversion of both: alike, or as before.                              *)
Given(r) == r.val \notin {Null, Throw}
Step(r, on, v) == IF on /\ Given(r) THEN Read(v, Nowhere) ELSE r

LEMMA TwinsGiven ==
    ASSUME NEW r, NEW q, Twins(r, q)
    PROVE  /\ Given(r) <=> Given(q)
           /\ Given(r) => Sound(r.val) /\ Sound(q.val)
           /\ r.val.t = q.val.t
           /\ r.val = Null <=> q.val = Null
           /\ r.val = Throw <=> q.val = Throw
BY ResultKinds DEF Twins, Alike, Given

LEMMA StepIs ==
    ASSUME NEW r, NEW on \in BOOLEAN, NEW v
    PROVE  /\ on /\ Given(r) => Step(r, on, v).val = v /\ Step(r, on, v).at = Nowhere
           /\ ~(on /\ Given(r)) => Step(r, on, v) = r
BY DEF Step, Read

LEMMA StepTwins ==
    ASSUME NEW E, NEW F, NEW r, NEW q, Twins(r, q), Held(E, F, r, q),
           NEW on \in BOOLEAN, NEW v, NEW w,
           on /\ Given(r) => Result(v) /\ Result(w) /\ Alike(v, w)
    PROVE  /\ Twins(Step(r, on, v), Step(q, on, w))
           /\ Held(E, F, Step(r, on, v), Step(q, on, w))
<1>1. CASE on /\ Given(r)
  <2>1. /\ Step(r, on, v).val = v /\ Step(r, on, v).at = Nowhere
        /\ Step(q, on, w).val = w /\ Step(q, on, w).at = Nowhere
    <3>1. Given(q)
      BY <1>1, TwinsGiven
    <3>2. Step(r, on, v).val = v /\ Step(r, on, v).at = Nowhere
      BY <1>1, StepIs
    <3>3. Step(q, on, w).val = w /\ Step(q, on, w).at = Nowhere
      BY <1>1, <3>1, StepIs
    <3> QED BY <3>2, <3>3
  <2> QED BY <1>1, <2>1 DEF Twins, Held
<1>2. CASE ~(on /\ Given(r))
  <2>1. Step(r, on, v) = r /\ Step(q, on, w) = q
    BY <1>2, StepIs, TwinsGiven
  <2> QED BY <2>1
<1> QED BY <1>1, <1>2

(* The documented value, but with a label read as mapClaims reads it.      *)
CleanValue(alt, e) == Apply(alt.json, Apply(alt.swap,
                          Apply(alt.sep, Fetched(alt, e).val, Split), Replace), Json)
AltValue(alt, e) ==
    Apply(alt.lower, Apply(alt.suffix, DocSet(alt, CleanValue(alt, e)), Extend), Lower)
FirstValue(claim, some, e) ==
    IF some = {} THEN Null
    ELSE LET first == CHOOSE n \in some : \A m \in some : n <= m
         IN  DocOne(claim.alts[first], AltValue(claim.alts[first], e))
ClaimValue(claim, e) ==
    DocForced(claim.name,
              FirstValue(claim, {n \in DOMAIN claim.alts :
                                    /\ claim.alts[n].attr \in DOMAIN e
                                    /\ AltValue(claim.alts[n], e) # Null}, e))

LEMMA CleanedIs ==
    ASSUME NEW alt \in Alternatives, NEW E
    PROVE  LET r == Fetched(alt, E)
               r1 == Step(r, alt.sep, Split(r.val))
               r2 == Step(r1, alt.swap, Replace(r1.val))
               r3 == Step(r2, alt.json, Json(r2.val))
           IN  Cleaned(alt, E) = r3 /\ CleanValue(alt, E) = r3.val
<1> DEFINE r == Fetched(alt, E)
           r1 == Step(r, alt.sep, Split(r.val))
           r2 == Step(r1, alt.swap, Replace(r1.val))
           r3 == Step(r2, alt.json, Json(r2.val))
<1>0. alt.sep \in BOOLEAN /\ alt.swap \in BOOLEAN /\ alt.json \in BOOLEAN
  BY DEF Alternatives
<1>1. Convert(r, alt.sep, Split) = r1
  BY DEF Convert, Step, Given
<1>2. Convert(r1, alt.swap, Replace) = r2
  BY DEF Convert, Step, Given
<1>3. Convert(r2, alt.json, Json) = r3
  BY DEF Convert, Step, Given
<1>4. Cleaned(alt, E) = r3
  BY <1>1, <1>2, <1>3 DEF Cleaned
<1> DEFINE v == r.val
           v1 == Apply(alt.sep, v, Split)
           v2 == Apply(alt.swap, v1, Replace)
           v3 == Apply(alt.json, v2, Json)
<1>5. r1.val = v1
  BY <1>0, StepIs DEF Apply, Given
<1>6. r2.val = v2
  <2> HIDE DEF r1, v1
  <2>1. r2.val = IF alt.swap /\ Given(r1) THEN Replace(r1.val) ELSE r1.val
    BY <1>0, StepIs
  <2> QED BY <2>1, <1>5 DEF Apply, Given
<1>7. r3.val = v3
  <2> HIDE DEF r2, v2
  <2>1. r3.val = IF alt.json /\ Given(r2) THEN Json(r2.val) ELSE r2.val
    BY <1>0, StepIs
  <2> QED BY <2>1, <1>6 DEF Apply, Given
<1>8. CleanValue(alt, E) = v3
  BY Zenon DEF CleanValue
<1> QED BY <1>4, <1>7, <1>8

LEMMA CleanedTwins ==
    ASSUME NEW E, NEW S, Turnable(E, S),
           NEW alt \in Alternatives, alt.attr \in DOMAIN E
    PROVE  LET r == Cleaned(alt, E)
               q == Cleaned(alt, Turned(E, S))
           IN  /\ Twins(r, q) /\ Held(E, Turned(E, S), r, q)
               /\ r.val = CleanValue(alt, E) /\ q.val = CleanValue(alt, Turned(E, S))
               /\ r.at # Nowhere /\ IsObj(r.val) => alt.attr = UriAttr /\ alt.label = ""
<1> DEFINE F == Turned(E, S)
           r == Fetched(alt, E)
           q == Fetched(alt, F)
           r1 == Step(r, alt.sep, Split(r.val))
           q1 == Step(q, alt.sep, Split(q.val))
           r2 == Step(r1, alt.swap, Replace(r1.val))
           q2 == Step(q1, alt.swap, Replace(q1.val))
           r3 == Step(r2, alt.json, Json(r2.val))
           q3 == Step(q2, alt.json, Json(q2.val))
<1>0. alt.sep \in BOOLEAN /\ alt.swap \in BOOLEAN /\ alt.json \in BOOLEAN
  BY DEF Alternatives
<1>1. /\ \/ r.val = Null /\ q.val = Null
         \/ Attribute(r.val) /\ Attribute(q.val) /\ Mirrored(r.val, q.val)
      /\ r.at = q.at /\ Held(E, F, r, q)
      /\ IsObj(r.val) => alt.attr = UriAttr /\ alt.label = ""
  BY FetchedTwins
<1>2. /\ Cleaned(alt, E) = r3 /\ CleanValue(alt, E) = r3.val
      /\ Cleaned(alt, F) = q3 /\ CleanValue(alt, F) = q3.val
  BY CleanedIs
<1> HIDE DEF F, r, q
<1>3. Twins(r, q) /\ Mirrored(r.val, q.val)
  <2>1. CASE r.val = Null /\ q.val = Null
    BY <1>1, <2>1, SelfAlike DEF Twins, Result, Mirrored
  <2>2. CASE Attribute(r.val) /\ Attribute(q.val) /\ Mirrored(r.val, q.val)
    BY <1>1, <2>2, AttributeSound, MirroredAlike DEF Twins, Result
  <2> QED BY <1>1, <2>1, <2>2
<1>4. Given(r) => Attribute(r.val)
  BY <1>1 DEF Given
<1>5. Given(r) => /\ Mirrored(Split(r.val), Split(q.val))
                  /\ Result(Split(r.val)) /\ Result(Split(q.val))
                  /\ Alike(Split(r.val), Split(q.val))
  BY <1>3, <1>4, SplitMirrored, MirroredAlike
<1>6. Twins(r1, q1) /\ Held(E, F, r1, q1) /\ Mirrored(r1.val, q1.val)
  <2>1. Twins(r1, q1) /\ Held(E, F, r1, q1)
    BY <1>1, <1>3, <1>5, <1>0, StepTwins
  <2>0. Given(r) <=> Given(q)
    BY <1>3, TwinsGiven
  <2>2. CASE alt.sep /\ Given(r)
    <3>1. r1.val = Split(r.val)
      BY <1>0, <2>2, StepIs
    <3>2. q1.val = Split(q.val)
      BY <1>0, <2>0, <2>2, StepIs
    <3> HIDE DEF r1, q1
    <3> QED BY <2>1, <2>2, <1>5, <3>1, <3>2
  <2>3. CASE ~(alt.sep /\ Given(r))
    <3>1. r1 = r
      BY <1>0, <2>3, StepIs
    <3>2. q1 = q
      BY <1>0, <2>0, <2>3, StepIs
    <3> HIDE DEF r1, q1
    <3> QED BY <2>1, <1>3, <3>1, <3>2
  <2> QED BY <2>1, <2>2, <2>3
<1>7. r1.at # Nowhere => r1 = r
  BY <1>0, StepIs
<1> HIDE DEF r1, q1
<1>8. Given(r1) => /\ Result(Replace(r1.val)) /\ Result(Replace(q1.val))
                   /\ Alike(Replace(r1.val), Replace(q1.val))
  BY <1>6, TwinsGiven, ReplaceAlike
<1>9. Twins(r2, q2) /\ Held(E, F, r2, q2)
  BY <1>6, <1>8, <1>0, StepTwins
<1>10. r2.at # Nowhere => r2 = r1
  BY <1>0, StepIs
<1> HIDE DEF r2, q2
<1>11. Given(r2) => /\ Result(Json(r2.val)) /\ Result(Json(q2.val))
                    /\ Alike(Json(r2.val), Json(q2.val))
  BY <1>9, TwinsGiven, JsonAlike DEF Twins
<1>12. Twins(r3, q3) /\ Held(E, F, r3, q3)
  BY <1>9, <1>11, <1>0, StepTwins
<1>13. r3.at # Nowhere => r3 = r2
  BY <1>0, StepIs
<1> HIDE DEF r3, q3
<1>14. r3.at # Nowhere /\ IsObj(r3.val) => alt.attr = UriAttr /\ alt.label = ""
  BY <1>1, <1>7, <1>10, <1>13
<1> QED BY <1>2, <1>12, <1>14 DEF F

(* The assignment, the suffix and the lower case.                          *)
LEMMA AssignObject ==
    ASSUME NEW keys, NEW es
    PROVE  IsObj(DocAssign(keys, es))
<1> DEFINE spare == Len(es) - Len(keys)
           paired == {j \in DOMAIN keys : spare + j >= 1 /\ es[spare + j] # Null}
           each == [k \in {keys[j] : j \in paired} |->
                      es[spare + CHOOSE j \in paired : keys[j] = k]]
           all == IF spare > 0 THEN With(each, keys[1], Arr(SubSeq(es, 1, spare + 1)))
                  ELSE each
<1>1. DocAssign(keys, es) = Obj(all)
  BY Zenon DEF DocAssign
<1> HIDE DEF all
<1> QED BY <1>1, Kinds DEF IsObj

LEMMA AssignedTwins ==
    ASSUME NEW r, NEW q, Twins(r, q),
           NEW alt \in Alternatives, Different(alt.keys)
    PROVE  /\ Twins(Assigned(alt, r), Assigned(alt, q))
           /\ Assigned(alt, r).val = DocSet(alt, r.val)
           /\ Assigned(alt, q).val = DocSet(alt, q.val)
           /\ Assigned(alt, r).at # Nowhere => Assigned(alt, r) = r /\ Assigned(alt, q) = q
           /\ Assigns(alt, r) <=> Assigns(alt, q)
<1>1. r.val.t = q.val.t
  BY TwinsGiven
<1>2. Assigns(alt, r) <=> Assigns(alt, q)
  BY <1>1 DEF Assigns, IsArr
<1>3. CASE Assigns(alt, r)
  <2>1. IsArr(r.val) /\ IsArr(q.val) /\ alt.keys # <<>>
    BY <1>2, <1>3 DEF Assigns
  <2>2. IsList(r.val.es) /\ IsList(q.val.es)
    BY <2>1 DEF Twins, Alike
  <2>3. IsList(alt.keys)
    BY ListOf DEF Alternatives
  <2> DEFINE x == DocAssign(alt.keys, r.val.es)
             y == DocAssign(alt.keys, q.val.es)
  <2>4. Assign(alt.keys, r.val.es) = x /\ Assign(alt.keys, q.val.es) = y
    BY <2>1, <2>2, <2>3, AssignDocumented
  <2>5. Assigned(alt, r) = Read(x, Nowhere) /\ Assigned(alt, q) = Read(y, Nowhere)
    BY <1>2, <1>3, <2>4 DEF Assigned
  <2>6. DocSet(alt, r.val) = x /\ DocSet(alt, q.val) = y
    BY <2>1 DEF DocSet
  <2>7. IsObj(x) /\ IsObj(y)
    BY AssignObject
  <2> HIDE DEF x, y
  <2>8. /\ Assigned(alt, r).val = x /\ Assigned(alt, r).at = Nowhere
        /\ Assigned(alt, q).val = y /\ Assigned(alt, q).at = Nowhere
    BY <2>5 DEF Read
  <2>9. Result(x) /\ Result(y) /\ Alike(x, y)
    BY <2>7 DEF IsObj, IsArr, Result, Sound, Proper, Alike
  <2> QED BY <1>2, <2>6, <2>8, <2>9 DEF Twins
<1>4. CASE ~Assigns(alt, r)
  <2>1. Assigned(alt, r) = r /\ Assigned(alt, q) = q
    BY <1>2, <1>4 DEF Assigned
  <2>2. DocSet(alt, r.val) = r.val /\ DocSet(alt, q.val) = q.val
    BY <1>2, <1>4 DEF DocSet, Assigns
  <2> QED BY <1>2, <2>1, <2>2
<1> QED BY <1>3, <1>4

LEMMA WordedIs ==
    ASSUME NEW alt \in Alternatives, NEW r
    PROVE  LET r1 == Step(r, alt.suffix /\ ~IsObj(r.val), Extend(r.val))
               r2 == Step(r1, alt.lower, Lower(r1.val))
           IN  /\ Worded(alt, r) = r2
               /\ Apply(alt.lower, Apply(alt.suffix, r.val, Extend), Lower) = r2.val
<1> DEFINE on == alt.suffix /\ ~IsObj(r.val)
           r1 == Step(r, on, Extend(r.val))
           r2 == Step(r1, alt.lower, Lower(r1.val))
           v1 == Apply(alt.suffix, r.val, Extend)
<1>0. on \in BOOLEAN /\ alt.lower \in BOOLEAN /\ alt.suffix \in BOOLEAN
  BY DEF Alternatives
<1>1. Convert(r, on, Extend) = r1
  BY DEF Convert, Step, Given
<1>2. Convert(r1, alt.lower, Lower) = r2
  BY DEF Convert, Step, Given
<1>3. Worded(alt, r) = r2
  BY <1>1, <1>2 DEF Worded
<1>4. IsObj(r.val) => Extend(r.val) = r.val
  BY DEF Extend, ExtendString, IsArr, IsObj
<1>5. r1.val = v1
  <2>1. on /\ Given(r) => r1.val = Extend(r.val)
    BY <1>0, StepIs
  <2>2. ~(on /\ Given(r)) => r1.val = r.val
    BY <1>0, StepIs
  <2>3. v1 = IF alt.suffix /\ Given(r) THEN Extend(r.val) ELSE r.val
    BY DEF Apply, Given
  <2> HIDE DEF r1, v1
  <2> QED BY <2>1, <2>2, <2>3, <1>4
<1>6. r2.val = Apply(alt.lower, v1, Lower)
  <2> HIDE DEF r1, v1
  <2>1. r2.val = IF alt.lower /\ Given(r1) THEN Lower(r1.val) ELSE r1.val
    BY <1>0, StepIs
  <2> QED BY <2>1, <1>5 DEF Apply, Given
<1> QED BY <1>3, <1>6

LEMMA WordedTwins ==
    ASSUME NEW E, NEW F, NEW r, NEW q, Twins(r, q), Held(E, F, r, q),
           NEW alt \in Alternatives
    PROVE  /\ Twins(Worded(alt, r), Worded(alt, q))
           /\ Held(E, F, Worded(alt, r), Worded(alt, q))
           /\ Worded(alt, r).at # Nowhere => Worded(alt, r) = r
<1> DEFINE r1 == Step(r, alt.suffix /\ ~IsObj(r.val), Extend(r.val))
           q1 == Step(q, alt.suffix /\ ~IsObj(q.val), Extend(q.val))
           r2 == Step(r1, alt.lower, Lower(r1.val))
           q2 == Step(q1, alt.lower, Lower(q1.val))
<1>0. /\ (alt.suffix /\ ~IsObj(r.val)) \in BOOLEAN
      /\ (alt.suffix /\ ~IsObj(q.val)) \in BOOLEAN
      /\ alt.lower \in BOOLEAN
  BY DEF Alternatives
<1>1. (alt.suffix /\ ~IsObj(r.val)) = (alt.suffix /\ ~IsObj(q.val))
  BY TwinsGiven DEF IsObj
<1>2. Given(r) => Result(Extend(r.val)) /\ Result(Extend(q.val)) /\ Alike(Extend(r.val), Extend(q.val))
  BY TwinsGiven, ExtendAlike DEF Twins
<1>3. Worded(alt, r) = r2 /\ Worded(alt, q) = q2
  BY WordedIs
<1>4. r1.at # Nowhere => r1 = r
  BY <1>0, StepIs
<1>5. r2.at # Nowhere => r2 = r1
  BY <1>0, StepIs
<1>6. Twins(r1, q1) /\ Held(E, F, r1, q1)
  BY <1>0, <1>1, <1>2, StepTwins
<1> HIDE DEF r1, q1
<1>7. Given(r1) => Result(Lower(r1.val)) /\ Result(Lower(q1.val)) /\ Alike(Lower(r1.val), Lower(q1.val))
  BY <1>6, TwinsGiven, LowerAlike DEF Twins
<1>8. Twins(r2, q2) /\ Held(E, F, r2, q2)
  BY <1>0, <1>6, <1>7, StepTwins
<1> HIDE DEF r2, q2
<1> QED BY <1>3, <1>4, <1>5, <1>8

(* A claim's value up to the test for null, of the entry as the directory  *)
(* returned it and with some lists in reverse.                             *)
LEMMA CookedTwins ==
    ASSUME NEW E, NEW S, Turnable(E, S),
           NEW alt \in Alternatives, alt.attr \in DOMAIN E, Different(alt.keys)
    PROVE  LET r == Cooked(alt, E)
               q == Cooked(alt, Turned(E, S))
           IN  /\ Twins(r, q) /\ Held(E, Turned(E, S), r, q)
               /\ r.val = AltValue(alt, E) /\ q.val = AltValue(alt, Turned(E, S))
               /\ r.at # Nowhere /\ IsObj(r.val) => alt.attr = UriAttr /\ alt.label = ""
<1> DEFINE F == Turned(E, S)
           r == Cleaned(alt, E)
           q == Cleaned(alt, F)
           r1 == Assigned(alt, r)
           q1 == Assigned(alt, q)
           r2 == Worded(alt, r1)
           q2 == Worded(alt, q1)
<1>1. /\ Twins(r, q) /\ Held(E, F, r, q)
      /\ r.val = CleanValue(alt, E) /\ q.val = CleanValue(alt, F)
      /\ r.at # Nowhere /\ IsObj(r.val) => alt.attr = UriAttr /\ alt.label = ""
  BY CleanedTwins
<1>2. Cooked(alt, E) = r2 /\ Cooked(alt, F) = q2
  BY DEF Cooked
<1> HIDE DEF r, q
<1>3. /\ Twins(r1, q1) /\ Held(E, F, r1, q1)
      /\ r1.val = DocSet(alt, r.val) /\ q1.val = DocSet(alt, q.val)
      /\ r1.at # Nowhere => r1 = r
  <2>1. /\ Twins(r1, q1)
        /\ r1.val = DocSet(alt, r.val) /\ q1.val = DocSet(alt, q.val)
        /\ r1.at # Nowhere => r1 = r /\ q1 = q
    BY <1>1, AssignedTwins
  <2> HIDE DEF r1, q1
  <2> QED BY <1>1, <2>1 DEF Held
<1>4. /\ r2.val = Apply(alt.lower, Apply(alt.suffix, r1.val, Extend), Lower)
      /\ q2.val = Apply(alt.lower, Apply(alt.suffix, q1.val, Extend), Lower)
  BY WordedIs
<1> HIDE DEF r1, q1
<1>5. /\ Twins(r2, q2) /\ Held(E, F, r2, q2)
      /\ r2.at # Nowhere => r2 = r1
  BY <1>3, WordedTwins
<1> HIDE DEF r2, q2
<1>6. r2.val = AltValue(alt, E)
  BY <1>1, <1>3, <1>4 DEF AltValue
<1>7. q2.val = AltValue(alt, F)
  BY <1>1, <1>3, <1>4 DEF AltValue
<1>8. r2.at # Nowhere /\ IsObj(r2.val) => alt.attr = UriAttr /\ alt.label = ""
  BY <1>1, <1>3, <1>5
<1> QED BY <1>2, <1>5, <1>6, <1>7, <1>8 DEF F

-----------------------------------------------------------------------------
(* The alternative that is chosen is the first one that has a value.       *)
Yielding(alts, src) == {n \in DOMAIN alts : alts[n].attr \in DOMAIN src
                                            /\ Cooked(alts[n], src).val # Null}
First(some) == CHOOSE n \in some : \A m \in some : n <= m

LEMMA ChosenIs ==
    ASSUME NEW alts \in Seq(Alternatives), NEW src
    PROVE  Chosen(alts, src) = IF Yielding(alts, src) = {} THEN 0
                               ELSE First(Yielding(alts, src))
<1> DEFINE I == {i \in 1..Len(alts) : alts[i].attr \in DOMAIN src
                                      /\ Cooked(alts[i], src).val # Null}
<1>1. I = Yielding(alts, src)
  BY DEF Yielding
<1>2. Chosen(alts, src) = IF I # {} THEN CHOOSE n \in I : \A m \in I : n <= m ELSE 0
  BY DEF Chosen, SelectInSeq, Min
<1> HIDE DEF I
<1> QED BY <1>1, <1>2 DEF First

LEMMA FirstIs ==
    ASSUME NEW some \in SUBSET Nat, some # {}
    PROVE  First(some) \in some
<1>1. \E n \in some : \A m \in some : ~(<<m, n>> \in OpToRel(<, Nat))
  BY NatLessThanWellFounded, WFMin, Zenon
<1>2. \A n, m \in Nat : ~(<<m, n>> \in OpToRel(<, Nat)) => ~(m < n)
  BY Zenon DEF OpToRel
<1>3. \E n \in some : \A m \in some : ~(m < n)
  BY <1>1, <1>2
<1>4. \E n \in some : \A m \in some : n <= m
  BY <1>3
<1> QED BY <1>4 DEF First

(* What is found for a claim, of the entry and of a reading of it.         *)
Akin(r, q) == /\ r.val = Null \/ r.val = Throw \/ Proper(r.val)
              /\ q.val = Null \/ q.val = Throw \/ Proper(q.val)
              /\ r.val.t = q.val.t
              /\ r.at = q.at
Reads(E, F, r, q) == Akin(r, q) /\ Held(E, F, r, q)

LEMMA UnwrappedAkin ==
    ASSUME NEW r, NEW q, Twins(r, q), NEW alt
    PROVE  /\ Akin(Unwrapped(alt, r), Unwrapped(alt, q))
           /\ Unwrapped(alt, r).val = DocOne(alt, r.val)
           /\ Unwrapped(alt, q).val = DocOne(alt, q.val)
           /\ Unwrapped(alt, r).at # Nowhere =>
                 Unwrapped(alt, r) = r /\ Unwrapped(alt, q) = q
<1> DEFINE one(x) == alt # Bare(alt.attr) /\ IsArr(x.val) /\ Len(x.val.es) = 1
<1>1. /\ r.val = Null \/ r.val = Throw \/ Sound(r.val)
      /\ q.val = Null \/ q.val = Throw \/ Sound(q.val)
      /\ r.val.t = q.val.t /\ r.at = q.at
  BY TwinsGiven DEF Twins, Result
<1>2. one(r) <=> one(q)
  BY <1>1 DEF Twins, Alike, IsArr
<1>3. CASE one(r)
  <2>1. /\ IsArr(r.val) /\ IsArr(q.val) /\ Sound(r.val)
        /\ IsList(r.val.es) /\ IsList(q.val.es) /\ ToSet(r.val.es) = ToSet(q.val.es)
        /\ Len(r.val.es) = 1 /\ Len(q.val.es) = 1
    BY <1>1, <1>2, <1>3, Kinds DEF Twins, Alike, IsArr
  <2> DEFINE x == r.val.es[1]
             y == q.val.es[1]
  <2>2. ToSet(q.val.es) = {y} /\ x \in ToSet(r.val.es)
    BY <2>1, ListIs DEF ToSet
  <2>3. x = y /\ (x = Null \/ Proper(x))
    BY <2>1, <2>2 DEF Sound
  <2>4. Unwrapped(alt, r) = Read(x, Nowhere) /\ Unwrapped(alt, q) = Read(y, Nowhere)
    BY <1>2, <1>3 DEF Unwrapped
  <2>5. DocOne(alt, r.val) = x /\ DocOne(alt, q.val) = y
    BY <1>2, <1>3 DEF DocOne
  <2> HIDE DEF x, y
  <2>6. /\ Unwrapped(alt, r).val = x /\ Unwrapped(alt, r).at = Nowhere
        /\ Unwrapped(alt, q).val = y /\ Unwrapped(alt, q).at = Nowhere
    BY <2>4 DEF Read
  <2> QED BY <2>3, <2>5, <2>6 DEF Akin
<1>4. CASE ~one(r)
  <2>1. Unwrapped(alt, r) = r /\ Unwrapped(alt, q) = q
    BY <1>2, <1>4 DEF Unwrapped
  <2>2. DocOne(alt, r.val) = r.val /\ DocOne(alt, q.val) = q.val
    BY <1>2, <1>4 DEF DocOne
  <2> QED BY <1>1, <2>1, <2>2 DEF Akin, Sound
<1> QED BY <1>3, <1>4

LEMMA WrappedReads ==
    ASSUME NEW E, NEW F, NEW r, NEW q, Reads(E, F, r, q), NEW name
    PROVE  /\ Reads(E, F, Wrapped(name, r), Wrapped(name, q))
           /\ Wrapped(name, r).val = DocForced(name, r.val)
           /\ Wrapped(name, q).val = DocForced(name, q.val)
           /\ Wrapped(name, r).at # Nowhere => Wrapped(name, r) = r
<1> DEFINE on(x) == name \in Forced /\ x.val \notin {Null, Throw} /\ ~IsArr(x.val)
<1>1. on(r) <=> on(q)
  BY Kinds DEF Reads, Akin, Proper, IsArr
<1>2. CASE on(r)
  <2>1. /\ Wrapped(name, r).val = Arr(<<r.val>>) /\ Wrapped(name, r).at = Nowhere
        /\ Wrapped(name, q).val = Arr(<<q.val>>) /\ Wrapped(name, q).at = Nowhere
    BY <1>1, <1>2 DEF Wrapped, Read
  <2>2. DocForced(name, r.val) = Arr(<<r.val>>) /\ DocForced(name, q.val) = Arr(<<q.val>>)
    BY <1>1, <1>2 DEF DocForced
  <2>3. Arr(<<r.val>>).t = "arr" /\ Arr(<<q.val>>).t = "arr"
    BY Kinds
  <2>4. Reads(E, F, Wrapped(name, r), Wrapped(name, q))
    BY <2>1, <2>3 DEF Reads, Akin, Held, Proper
  <2> QED BY <2>1, <2>2, <2>4
<1>3. CASE ~on(r)
  <2>1. Wrapped(name, r) = r /\ Wrapped(name, q) = q
    BY <1>1, <1>3 DEF Wrapped
  <2>2. DocForced(name, r.val) = r.val /\ DocForced(name, q.val) = q.val
    BY <1>1, <1>3 DEF DocForced
  <2> QED BY <2>1, <2>2
<1> QED BY <1>2, <1>3

Valued(claim, e) == {n \in DOMAIN claim.alts : claim.alts[n].attr \in DOMAIN e
                                               /\ AltValue(claim.alts[n], e) # Null}

LEMMA ChosenTwins ==
    ASSUME NEW E, NEW S, Turnable(E, S),
           NEW claim \in Claims,
           \A n \in DOMAIN claim.alts : Different(claim.alts[n].keys)
    PROVE  /\ Valued(claim, Turned(E, S)) = Valued(claim, E)
           /\ Valued(claim, E) \in SUBSET DOMAIN claim.alts
           /\ Valued(claim, E) \in SUBSET Nat
           /\ \A src \in {E, Turned(E, S)} :
                 Chosen(claim.alts, src) = IF Valued(claim, E) = {} THEN 0
                                           ELSE First(Valued(claim, E))
<1> DEFINE F == Turned(E, S)
           alts == claim.alts
<1>1. alts \in Seq(Alternatives)
  BY DEF Claims
<1>2. \A n \in DOMAIN alts : alts[n] \in Alternatives /\ n \in Nat
  BY <1>1
<1>3. DOMAIN F = DOMAIN E
  BY TurnedDomain
<1>4. ASSUME NEW n \in DOMAIN alts, alts[n].attr \in DOMAIN E
      PROVE  /\ Cooked(alts[n], E).val = AltValue(alts[n], E)
             /\ Cooked(alts[n], F).val = AltValue(alts[n], F)
             /\ Cooked(alts[n], E).val = Null <=> Cooked(alts[n], F).val = Null
  <2> DEFINE r == Cooked(alts[n], E)
             q == Cooked(alts[n], F)
  <2>1. Twins(r, q) /\ r.val = AltValue(alts[n], E) /\ q.val = AltValue(alts[n], F)
    BY <1>2, <1>4, CookedTwins
  <2> HIDE DEF r, q
  <2>2. r.val = Null <=> q.val = Null
    BY <2>1, TwinsGiven
  <2> QED BY <2>1, <2>2 DEF r, q
<1>5. /\ Yielding(alts, E) = Valued(claim, E) /\ Yielding(alts, F) = Valued(claim, E)
      /\ Valued(claim, F) = Valued(claim, E)
  BY <1>3, <1>4 DEF Yielding, Valued
<1>6. /\ Chosen(alts, E) = IF Yielding(alts, E) = {} THEN 0 ELSE First(Yielding(alts, E))
      /\ Chosen(alts, F) = IF Yielding(alts, F) = {} THEN 0 ELSE First(Yielding(alts, F))
  BY <1>1, ChosenIs
<1>7. Valued(claim, E) \in SUBSET DOMAIN claim.alts /\ Valued(claim, E) \in SUBSET Nat
  BY <1>2 DEF Valued
<1> QED BY <1>5, <1>6, <1>7

LEMMA FoundTwins ==
    ASSUME NEW E, NEW S, Turnable(E, S),
           NEW claim \in Claims,
           \A n \in DOMAIN claim.alts : Different(claim.alts[n].keys)
    PROVE  LET n == Chosen(claim.alts, E)
               r == FoundIn(claim, n, E)
               q == FoundIn(claim, n, Turned(E, S))
           IN  /\ Chosen(claim.alts, Turned(E, S)) = n
               /\ n = 0 \/ (n \in DOMAIN claim.alts /\ claim.alts[n].attr \in DOMAIN E)
               /\ Reads(E, Turned(E, S), r, q)
               /\ r.val = ClaimValue(claim, E) /\ q.val = ClaimValue(claim, Turned(E, S))
               /\ r.at # Nowhere /\ IsObj(r.val) => TakesUris(claim)
<1> DEFINE F == Turned(E, S)
           n == Chosen(claim.alts, E)
           r == FoundIn(claim, n, E)
           q == FoundIn(claim, n, F)
           some == Valued(claim, E)
           alt == claim.alts[n]
<1>1. /\ Valued(claim, F) = some /\ some \in SUBSET DOMAIN claim.alts /\ some \in SUBSET Nat
      /\ n = IF some = {} THEN 0 ELSE First(some)
      /\ Chosen(claim.alts, F) = IF some = {} THEN 0 ELSE First(some)
  BY ChosenTwins
<1>2. /\ ClaimValue(claim, E) = DocForced(claim.name, FirstValue(claim, some, E))
      /\ ClaimValue(claim, F) = DocForced(claim.name, FirstValue(claim, Valued(claim, F), F))
  BY DEF ClaimValue, Valued
<1>3. \A e : FirstValue(claim, some, e) =
                IF some = {} THEN Null
                ELSE DocOne(claim.alts[First(some)], AltValue(claim.alts[First(some)], e))
  BY DEF FirstValue, First
<1>4. CASE some = {}
  <2>1. /\ r = Read(Null, Nowhere) /\ q = Read(Null, Nowhere) /\ n = 0
    BY <1>1, <1>4 DEF FoundIn
  <2>2. r.val = Null /\ q.val = Null /\ r.at = Nowhere /\ q.at = Nowhere
    BY <2>1 DEF Read
  <2>3. ClaimValue(claim, E) = Null /\ ClaimValue(claim, F) = Null
    BY <1>1, <1>2, <1>3, <1>4 DEF DocForced
  <2> HIDE DEF r, q, F
  <2>4. Reads(E, F, r, q)
    BY <2>2, Kinds DEF Reads, Akin, Held
  <2> QED BY <1>1, <1>4, <2>1, <2>2, <2>3, <2>4 DEF F, r, q
<1>5. CASE some # {}
  <2>1. /\ n = First(some) /\ n \in some /\ n # 0 /\ n \in DOMAIN claim.alts
        /\ alt.attr \in DOMAIN E
    <3>1. n \in some
      BY <1>1, <1>5, FirstIs
    <3>2. claim.alts \in Seq(Alternatives)
      BY DEF Claims
    <3> QED BY <1>1, <1>5, <3>1, <3>2 DEF Valued
  <2>2. alt \in Alternatives
    BY <2>1 DEF Claims
  <2> DEFINE c == Cooked(alt, E)
             d == Cooked(alt, F)
             u == Unwrapped(alt, c)
             w == Unwrapped(alt, d)
  <2>3. r = Wrapped(claim.name, u) /\ q = Wrapped(claim.name, w)
    BY <2>1 DEF FoundIn
  <2>4. /\ Twins(c, d) /\ Held(E, F, c, d)
        /\ c.val = AltValue(alt, E) /\ d.val = AltValue(alt, F)
        /\ c.at # Nowhere /\ IsObj(c.val) => alt.attr = UriAttr /\ alt.label = ""
    BY <2>1, <2>2, CookedTwins
  <2> HIDE DEF c, d
  <2>5. /\ Reads(E, F, u, w)
        /\ u.val = DocOne(alt, c.val) /\ w.val = DocOne(alt, d.val)
        /\ u.at # Nowhere => u = c
    <3>1. /\ Akin(u, w)
          /\ u.val = DocOne(alt, c.val) /\ w.val = DocOne(alt, d.val)
          /\ u.at # Nowhere => u = c /\ w = d
      BY <2>4, UnwrappedAkin
    <3> HIDE DEF u, w
    <3> QED BY <2>4, <3>1 DEF Reads, Held
  <2> HIDE DEF u, w, r, q
  <2>6. /\ Reads(E, F, r, q)
        /\ r.val = DocForced(claim.name, u.val) /\ q.val = DocForced(claim.name, w.val)
        /\ r.at # Nowhere => r = u
    BY <2>3, <2>5, WrappedReads
  <2>7. r.val = ClaimValue(claim, E) /\ q.val = ClaimValue(claim, F)
    BY <1>1, <1>2, <1>3, <1>5, <2>1, <2>4, <2>5, <2>6
  <2>8. r.at # Nowhere /\ IsObj(r.val) => TakesUris(claim)
    BY <2>1, <2>4, <2>5, <2>6 DEF TakesUris
  <2> QED BY <1>1, <1>5, <2>1, <2>6, <2>7, <2>8 DEF F, r, q
<1> QED BY <1>4, <1>5

-----------------------------------------------------------------------------
(* An entry with a list turned is the same entry with other lists turned.  *)
Flip(S, p) == IF p \in S THEN S \ {p} ELSE S \cup {p}

LEMMA SeenFlipped ==
    ASSUME NEW v, NEW T, IsText(v, T), IsArr(v), NEW p, NEW S
    PROVE  Arr(Reverse(Seen(v, p, S).es)) = Seen(v, p, Flip(S, p))
<1>1. v = Arr(v.es) /\ IsList(v.es)
  BY ListOf DEF IsText
<1>2. CASE p \in S
  <2>1. Seen(v, p, S).es = Reverse(v.es) /\ Seen(v, p, Flip(S, p)) = v
    BY <1>2, Kinds DEF Seen, Flip
  <2> QED BY <1>1, <2>1, Mirror
<1>3. CASE p \notin S
  <2>1. Seen(v, p, S) = v /\ Seen(v, p, Flip(S, p)) = Arr(Reverse(v.es))
    BY <1>3 DEF Seen, Flip
  <2> QED BY <2>1
<1> QED BY <1>2, <1>3

LEMMA SeenElsewhere ==
    ASSUME NEW v, NEW at, NEW p, NEW S, at # p
    PROVE  Seen(v, at, Flip(S, p)) = Seen(v, at, S)
BY DEF Seen, Flip

SeenIn(m, a, S) == [l \in DOMAIN m |-> Seen(m[l], <<a, l>>, S)]

LEMMA SeenInElsewhere ==
    ASSUME NEW m, NEW a, NEW S, NEW p, \A l \in DOMAIN m : <<a, l>> # p
    PROVE  SeenIn(m, a, Flip(S, p)) = SeenIn(m, a, S)
<1>1. \A l \in DOMAIN m : Seen(m[l], <<a, l>>, Flip(S, p)) = Seen(m[l], <<a, l>>, S)
  BY SeenElsewhere
<1> QED BY <1>1 DEF SeenIn

LEMMA SeenInThere ==
    ASSUME NEW m, NEW a, NEW S, NEW l \in DOMAIN m, NEW T, IsText(m[l], T), IsArr(m[l])
    PROVE  SeenIn(m, a, Flip(S, <<a, l>>)) =
              [SeenIn(m, a, S) EXCEPT ![l] = Arr(Reverse(SeenIn(m, a, S)[l].es))]
<1> DEFINE p == <<a, l>>
<1>1. \A k \in DOMAIN m : k # l => Seen(m[k], <<a, k>>, Flip(S, p)) = Seen(m[k], <<a, k>>, S)
  BY SeenElsewhere
<1>2. Seen(m[l], <<a, l>>, Flip(S, p)) = Arr(Reverse(Seen(m[l], <<a, l>>, S).es))
  BY SeenFlipped
<1> QED BY <1>1, <1>2 DEF SeenIn

LEMMA PutTurned ==
    ASSUME NEW E, NEW S, Turnable(E, S), NEW p, ListAt(E, p)
    PROVE  /\ Put(Turned(E, S), p, Arr(Reverse(At(Turned(E, S), p).es))) = Turned(E, Flip(S, p))
           /\ Turnable(E, Flip(S, p))
<1> DEFINE F == Turned(E, S)
           G == Turned(E, Flip(S, p))
           v == Arr(Reverse(At(F, p).es))
           b == p[1]
           l == p[2]
<1>1. p = <<b, l>> /\ b \in DOMAIN E
  BY DEF ListAt
<1>2. Turnable(E, Flip(S, p))
  BY DEF Turnable, Flip
<1>3. /\ F = [a \in DOMAIN E |-> F[a]] /\ G = [a \in DOMAIN E |-> G[a]]
      /\ \A a \in DOMAIN E : ~IsObj(E[a]) => /\ F[a] = Seen(E[a], <<a, "">>, S)
                                             /\ G[a] = Seen(E[a], <<a, "">>, Flip(S, p))
      /\ \A a \in DOMAIN E : IsObj(E[a]) => /\ F[a] = Obj(SeenIn(E[a].m, a, S))
                                            /\ G[a] = Obj(SeenIn(E[a].m, a, Flip(S, p)))
  <2>1. /\ F = [a \in DOMAIN E |-> F[a]]
        /\ \A a \in DOMAIN E : ~IsObj(E[a]) => F[a] = Seen(E[a], <<a, "">>, S)
    BY TurnedIs
  <2>2. /\ G = [a \in DOMAIN E |-> G[a]]
        /\ \A a \in DOMAIN E : ~IsObj(E[a]) => G[a] = Seen(E[a], <<a, "">>, Flip(S, p))
    BY <1>2, TurnedIs
  <2>3. \A a \in DOMAIN E : IsObj(E[a]) => F[a] = Obj(SeenIn(E[a].m, a, S))
    BY TurnedIs DEF SeenIn
  <2>4. \A a \in DOMAIN E : IsObj(E[a]) => G[a] = Obj(SeenIn(E[a].m, a, Flip(S, p)))
    BY <1>2, TurnedIs DEF SeenIn
  <2> QED BY <2>1, <2>2, <2>3, <2>4
<1> HIDE DEF F, G
<1>4. ASSUME NEW a \in DOMAIN E, a # b
      PROVE  G[a] = F[a]
  <2>1. \A k : <<a, k>> # p
    BY <1>1, <1>4
  <2>2. CASE IsObj(E[a])
    <3>1. SeenIn(E[a].m, a, Flip(S, p)) = SeenIn(E[a].m, a, S)
      BY <2>1, SeenInElsewhere
    <3> QED BY <1>3, <2>2, <3>1
  <2>3. CASE ~IsObj(E[a])
    <3>1. <<a, "">> # p
      BY <2>1
    <3>2. Seen(E[a], <<a, "">>, Flip(S, p)) = Seen(E[a], <<a, "">>, S)
      BY <3>1 DEF Seen, Flip
    <3> QED BY <1>3, <2>3, <3>2
  <2> QED BY <2>2, <2>3
<1>5. CASE l = ""
  <2>1. IsArr(E[b]) /\ ~IsObj(E[b]) /\ IsText(E[b], DOMAIN Pieces) /\ p = <<b, "">>
    BY <1>1, <1>5 DEF ListAt, IsArr, IsObj, Turnable, IsEntry
  <2>2. At(F, p) = F[b] /\ Put(F, p, v) = [F EXCEPT ![b] = v]
    BY <1>5 DEF At, Put
  <2>3. F[b] = Seen(E[b], p, S) /\ G[b] = Seen(E[b], p, Flip(S, p))
    BY <1>1, <1>3, <2>1
  <2>4. G[b] = v
    <3>1. Arr(Reverse(Seen(E[b], p, S).es)) = Seen(E[b], p, Flip(S, p))
      BY <2>1, SeenFlipped
    <3> QED BY <2>2, <2>3, <3>1
  <2> HIDE DEF v
  <2>5. [F EXCEPT ![b] = v] = G
    BY <1>1, <1>3, <1>4, <2>4
  <2> QED BY <1>2, <2>2, <2>5 DEF F, G, v
<1>6. CASE l # ""
  <2>1. /\ IsObj(E[b]) /\ l \in DOMAIN E[b].m /\ IsArr(E[b].m[l])
        /\ IsText(E[b].m[l], DOMAIN Pieces)
    BY <1>1, <1>6 DEF ListAt, Turnable, IsEntry
  <2> DEFINE f == SeenIn(E[b].m, b, S)
             g == SeenIn(E[b].m, b, Flip(S, p))
  <2>2. F[b] = Obj(f) /\ G[b] = Obj(g) /\ F[b].m = f
    BY <1>1, <1>3, <2>1, Kinds
  <2>3. At(F, p) = f[l] /\ Put(F, p, v) = [F EXCEPT ![b].m[l] = v]
    BY <1>6, <2>2 DEF At, Put
  <2>4. g = [f EXCEPT ![l] = v]
    <3>1. g = [f EXCEPT ![l] = Arr(Reverse(f[l].es))]
      BY <1>1, <2>1, SeenInThere
    <3> QED BY <2>3, <3>1
  <2> HIDE DEF v, f, g
  <2>5. [F[b] EXCEPT !.m[l] = v] = G[b]
    BY <2>2, <2>4 DEF Obj
  <2>6. [F EXCEPT ![b].m[l] = v] = G
    BY <1>1, <1>3, <1>4, <2>5
  <2> QED BY <1>2, <2>3, <2>6 DEF F, G, v
<1> QED BY <1>5, <1>6

LEMMA TurnedNothing ==
    ASSUME NEW E, IsEntry(E)
    PROVE  Turnable(E, {}) /\ Turned(E, {}) = E
<1>1. Turnable(E, {})
  BY DEF Turnable
<1>2. \A v, at : Seen(v, at, {}) = v
  BY DEF Seen
<1>3. \A a \in DOMAIN E : Turned(E, {})[a] = E[a]
  <2>1. \A a \in DOMAIN E : ~IsObj(E[a]) => Turned(E, {})[a] = E[a]
    <3>1. \A a \in DOMAIN E : ~IsObj(E[a]) => Turned(E, {})[a] = Seen(E[a], <<a, "">>, {})
      BY <1>1, TurnedIs
    <3> QED BY <1>2, <3>1
  <2>2. ASSUME NEW a \in DOMAIN E, IsObj(E[a])
        PROVE  Turned(E, {})[a] = E[a]
    <3>1. /\ E[a] = Obj(E[a].m) /\ E[a].m = [l \in DOMAIN E[a].m |-> E[a].m[l]]
      BY <2>2 DEF IsEntry
    <3>2. Turned(E, {})[a] = Obj(SeenIn(E[a].m, a, {}))
      BY <1>1, <2>2, TurnedIs DEF SeenIn
    <3>3. SeenIn(E[a].m, a, {}) = E[a].m
      BY <1>2, <3>1 DEF SeenIn
    <3> QED BY <3>1, <3>2, <3>3
  <2> QED BY <2>1, <2>2
<1>4. Turned(E, {}) = [a \in DOMAIN E |-> Turned(E, {})[a]]
  BY <1>1, TurnedIs
<1> QED BY <1>1, <1>3, <1>4 DEF IsEntry

-----------------------------------------------------------------------------
(* What a mapping is, and that a claim leaves it as it was configured.     *)
LEMMA MappingIs ==
    ASSUME NEW m \in Mappings
    PROVE  /\ m \in Seq(Claims) /\ Len(m) \in Nat /\ DOMAIN m = 1..Len(m)
           /\ \A i \in DOMAIN m :
                 /\ m[i] \in Claims
                 /\ m[i].name \in Seq(STRING) /\ Len(m[i].name) \in {1, 2}
                 /\ m[i].alts \in Seq(Alternatives)
                 /\ \A n \in DOMAIN m[i].alts : /\ m[i].alts[n] \in Alternatives
                                                /\ Different(m[i].alts[n].keys)
           /\ \A i, j \in DOMAIN m : m[i].name = m[j].name => i = j
<1>1. m \in Seq(Claims) /\ Len(m) \in Nat /\ DOMAIN m = 1..Len(m)
  <2>1. m \in Seq(Claims)
    BY MappingAssumption
  <2> QED BY <2>1
<1>2. \A i \in DOMAIN m : m[i] \in Claims
  BY <1>1
<1>3. \A i \in DOMAIN m : /\ m[i].name \in Seq(STRING) /\ Len(m[i].name) \in {1, 2}
                          /\ m[i].alts \in Seq(Alternatives)
  BY <1>2 DEF Claims
<1>4. \A i \in DOMAIN m : \A n \in DOMAIN m[i].alts : m[i].alts[n] \in Alternatives
  BY <1>3
<1>5. \A i \in DOMAIN m : \A n \in DOMAIN m[i].alts : Different(m[i].alts[n].keys)
  BY MappingAssumption
<1>6. \A i, j \in DOMAIN m : m[i].name = m[j].name => i = j
  BY MappingAssumption DEF Different
<1> QED BY <1>1, <1>2, <1>3, <1>4, <1>5, <1>6

LEMMA MapKept ==
    ASSUME NEW m \in Mappings, NEW i \in DOMAIN m,
           NEW n, n = 0 \/ n \in DOMAIN m[i].alts, NEW src
    PROVE  MapAfter(m, i, n, src) = m
<1>1. CASE n \in DOMAIN m[i].alts
  <2> DEFINE alt == m[i].alts[n]
  <2>1. /\ m \in Seq(Claims) /\ m[i] \in Claims /\ m[i].alts \in Seq(Alternatives)
        /\ alt \in Alternatives
    BY <1>1, MappingIs
  <2>2. IsList(alt.keys)
    BY <2>1, ListOf DEF Alternatives
  <2>3. KeysAfter(alt.keys) = alt.keys
    BY <2>2, Mirror DEF KeysAfter
  <2>4. [alt EXCEPT !.keys = alt.keys] = alt
    BY <2>1 DEF Alternatives
  <2>5. [m[i].alts EXCEPT ![n] = alt] = m[i].alts
    BY <2>1
  <2>6. [m[i] EXCEPT !.alts = m[i].alts] = m[i]
    BY <2>1 DEF Claims
  <2>7. [m EXCEPT ![i] = m[i]] = m
    BY <2>1
  <2>8. [m EXCEPT ![i].alts[n].keys = KeysAfter(@)]
        = [m EXCEPT ![i] = [m[i] EXCEPT !.alts = [m[i].alts EXCEPT ![n] =
             [alt EXCEPT !.keys = KeysAfter(alt.keys)]]]]
    OBVIOUS
  <2>9. [m EXCEPT ![i].alts[n].keys = KeysAfter(@)] = m
    BY <2>3, <2>4, <2>5, <2>6, <2>7, <2>8
  <2> QED BY <2>9 DEF MapAfter
<1>2. CASE n = 0
  BY <1>2 DEF MapAfter
<1> QED BY <1>1, <1>2

(* The entry stays a reading of what the directory returned.               *)
LEMMA BorrowedPlaces ==
    ASSUME NEW m \in Mappings, NEW E, IsEntry(E)
    PROVE  \A S \in SUBSET Borrowed(m, E) : Turnable(E, S)
<1>1. ASSUME NEW at \in Borrowed(m, E)
      PROVE  ListAt(E, at)
  <2>1. PICK alt \in {a \in UNION {ToSet(m[i].alts) : i \in DOMAIN m} :
                          a.attr \in DOMAIN E} : at \in Borrows(alt, Cleaned(alt, E))
    BY <1>1 DEF Borrowed
  <2>2. PICK i \in DOMAIN m : alt \in ToSet(m[i].alts)
    BY <2>1
  <2>3. alt \in Alternatives /\ alt.attr \in DOMAIN E
    BY <2>1, <2>2, MappingIs DEF ToSet
  <2>4. IsArr(Cleaned(alt, E).val) /\ at = Cleaned(alt, E).at /\ at # Nowhere
    BY <2>1 DEF Borrows, Assigns
  <2>5. Turnable(E, {})
    BY TurnedNothing
  <2>6. Held(E, Turned(E, {}), Cleaned(alt, E), Cleaned(alt, Turned(E, {})))
    BY <2>3, <2>5, CleanedTwins
  <2> QED BY <2>4, <2>6 DEF Held
<1> QED BY <1>1 DEF Turnable

LEMMA UsedReading ==
    ASSUME NEW m \in Mappings, NEW E, IsEntry(E), NEW S \in SUBSET Borrowed(m, E),
           NEW i \in DOMAIN m,
           NEW n, n = 0 \/ (n \in DOMAIN m[i].alts /\ m[i].alts[n].attr \in DOMAIN E)
    PROVE  Used(m[i], n, Turned(E, S)) \in Readings(m, E)
<1> DEFINE F == Turned(E, S)
<1>1. F \in Readings(m, E)
  BY DEF Readings
<1>2. CASE n = 0
  BY <1>1, <1>2 DEF Used
<1>3. CASE n # 0
  <2> DEFINE alt == m[i].alts[n]
             r == Cleaned(alt, E)
             q == Cleaned(alt, F)
  <2>1. /\ alt \in Alternatives /\ alt.attr \in DOMAIN E /\ Different(alt.keys)
        /\ alt \in ToSet(m[i].alts)
    BY <1>3, MappingIs DEF ToSet
  <2>2. Turnable(E, S)
    BY BorrowedPlaces
  <2>3. Twins(r, q) /\ Held(E, F, r, q)
    BY <2>1, <2>2, CleanedTwins
  <2>4. Used(m[i], n, F) = Reversed(alt, q, F)
    BY <1>3 DEF Used
  <2>5. Borrows(alt, r) \subseteq Borrowed(m, E)
    BY <2>1 DEF Borrowed
  <2> HIDE DEF alt, r, q, F
  <2>6. CASE Assigns(alt, q) /\ q.at # Nowhere
    <3>1. Assigns(alt, r) /\ r.at = q.at
      BY <2>1, <2>3, <2>6, AssignedTwins DEF Twins
    <3>2. r.at \in Borrowed(m, E)
      BY <2>5, <2>6, <3>1 DEF Borrows
    <3>3. ListAt(E, r.at) /\ q.val = At(F, r.at)
      BY <2>3, <2>6, <3>1 DEF Held, Assigns
    <3>4. Used(m[i], n, F) = Put(F, r.at, Arr(Reverse(At(F, r.at).es)))
      BY <2>4, <2>6, <3>1, <3>3 DEF Reversed
    <3>5. Used(m[i], n, F) = Turned(E, Flip(S, r.at))
      BY <2>2, <3>3, <3>4, PutTurned DEF F
    <3>6. Flip(S, r.at) \in SUBSET Borrowed(m, E)
      BY <3>2 DEF Flip
    <3> QED BY <3>5, <3>6 DEF Readings, F
  <2>7. CASE ~(Assigns(alt, q) /\ q.at # Nowhere)
    <3>1. Used(m[i], n, F) = F
      BY <2>4, <2>7 DEF Reversed
    <3> QED BY <1>1, <3>1 DEF F
  <2> QED BY <2>6, <2>7
<1> QED BY <1>2, <1>3

-----------------------------------------------------------------------------
(* The invariant.  Of a mapping m and an entry E: the claims with a value, *)
(* what each may be set to, and the value below which a dotted one is set. *)
Giving(m, E) == {i \in DOMAIN m : ClaimValue(m[i], E) # Null}
Kind(m, E, i) == ClaimValue(m[i], E).t
Slots(m, E, i) == {FoundIn(m[i], Chosen(m[i].alts, R), R) : R \in Readings(m, E)}
OnBase(m, E, i, t) ==
    Len(m[i].name) = 2 /\ \E j \in Giving(m, E) : /\ j < i
                                                  /\ m[j].name = Base(m[i].name)
                                                  /\ Kind(m, E, j) = t
Bad(m, E, i) == \/ Kind(m, E, i) = "throw"
                \/ i \in Giving(m, E) /\ OnBase(m, E, i, "str")
Aside(m, i) == \A j \in DOMAIN m : ~SetInUris(m[i], m[j])

(* What is set belongs to a claim that was mapped: its value as some       *)
(* reading of the entry gave it, or an object made for a claim below.      *)
Own(name) == {name} \cup (IF Len(name) = 2 THEN {<<UriAttr, "", name[2]>>} ELSE {})
Made == Read(Obj(<<>>), Nowhere)

Owned(m, E, k, T) ==
    \A name \in DOMAIN T :
       /\ Len(name) = 2 => Base(name) \in DOMAIN T
       /\ \/ \E i \in Giving(m, E) : /\ i < k /\ name \in Own(m[i].name)
                                     /\ Kind(m, E, i) # "throw"
                                     /\ T[name] \in Slots(m, E, i)
          \/ /\ T[name] = Made
             /\ \E i \in Giving(m, E) : i < k /\ name = Base(m[i].name)

(* A claim that was mapped is set, below a name until that is set again.   *)
IsSet(m, E, T, i) == m[i].name \in DOMAIN T /\ T[m[i].name] \in Slots(m, E, i)

PlainSet(m, E, k, T) ==
    \A i \in Giving(m, E) : i < k /\ Len(m[i].name) = 1 => IsSet(m, E, T, i)

Lasting(m, E, k, i) ==
    /\ Len(m[i].name) = 2 /\ Aside(m, i) /\ ~OnBase(m, E, i, "arr")
    /\ \A j \in Giving(m, E) : i < j /\ j < k => m[j].name # Base(m[i].name)
DottedSet(m, E, k, T) ==
    \A i \in Giving(m, E) : i < k /\ Lasting(m, E, k, i) => IsSet(m, E, T, i)

Mapped(m, E, k, T) == /\ PlainSet(m, E, k, T)
                      /\ DottedSet(m, E, k, T)
                      /\ \A i \in DOMAIN m : i < k => ~Bad(m, E, i)

IInv == /\ cfg \in Mappings /\ map = cfg
        /\ entry \in Entries
        /\ source \in Readings(cfg, Labeled(entry))
        /\ next \in 1..(Len(cfg) + 1)
        /\ status \in {"mapping", "done", "threw"}
        /\ Owned(cfg, Labeled(entry), next, target)
        /\ status # "threw" => Mapped(cfg, Labeled(entry), next, target)
        /\ status = "done" => next = Len(cfg) + 1
        /\ status = "threw" => \E i \in DOMAIN cfg : Bad(cfg, Labeled(entry), i)

(* A slot, and the values of a claim in all readings of the entry.         *)
LEMMA FoundReadings ==
    ASSUME NEW m \in Mappings, NEW E, IsEntry(E), NEW i \in DOMAIN m,
           NEW R \in Readings(m, E)
    PROVE  LET n == Chosen(m[i].alts, E)
               r == FoundIn(m[i], n, E)
               q == FoundIn(m[i], n, R)
           IN  /\ Chosen(m[i].alts, R) = n
               /\ n = 0 \/ (n \in DOMAIN m[i].alts /\ m[i].alts[n].attr \in DOMAIN E)
               /\ Reads(E, R, r, q)
               /\ r.val = ClaimValue(m[i], E) /\ q.val = ClaimValue(m[i], R)
               /\ r.at # Nowhere /\ IsObj(r.val) => TakesUris(m[i])
               /\ DOMAIN R = DOMAIN E
<1> DEFINE n == Chosen(m[i].alts, E)
           r == FoundIn(m[i], n, E)
           q == FoundIn(m[i], n, R)
<1>1. PICK S \in SUBSET Borrowed(m, E) : R = Turned(E, S)
  BY DEF Readings
<1>2. Turnable(E, S)
  BY BorrowedPlaces
<1>3. /\ m[i] \in Claims
      /\ \A k \in DOMAIN m[i].alts : Different(m[i].alts[k].keys)
  BY MappingIs
<1>4. /\ Chosen(m[i].alts, Turned(E, S)) = n
      /\ n = 0 \/ (n \in DOMAIN m[i].alts /\ m[i].alts[n].attr \in DOMAIN E)
      /\ Reads(E, Turned(E, S), r, FoundIn(m[i], n, Turned(E, S)))
      /\ r.val = ClaimValue(m[i], E)
      /\ FoundIn(m[i], n, Turned(E, S)).val = ClaimValue(m[i], Turned(E, S))
      /\ r.at # Nowhere /\ IsObj(r.val) => TakesUris(m[i])
  BY <1>2, <1>3, FoundTwins
<1>5. DOMAIN Turned(E, S) = DOMAIN E
  BY <1>2, TurnedDomain
<1> QED BY <1>1, <1>4, <1>5

LEMMA ValueFacts ==
    ASSUME NEW m \in Mappings, NEW E, IsEntry(E), NEW i \in DOMAIN m,
           NEW R \in Readings(m, E)
    PROVE  LET v == ClaimValue(m[i], R)
           IN  /\ v = Null \/ v = Throw \/ Proper(v)
               /\ v.t = Kind(m, E, i)
               /\ v = Null <=> i \notin Giving(m, E)
               /\ v = Throw <=> Kind(m, E, i) = "throw"
<1> DEFINE n == Chosen(m[i].alts, E)
           r == FoundIn(m[i], n, E)
           q == FoundIn(m[i], n, R)
<1>1. /\ Reads(E, R, r, q)
      /\ r.val = ClaimValue(m[i], E) /\ q.val = ClaimValue(m[i], R)
  BY FoundReadings
<1> HIDE DEF r, q
<1>2. /\ r.val = Null \/ r.val = Throw \/ Proper(r.val)
      /\ q.val = Null \/ q.val = Throw \/ Proper(q.val)
      /\ r.val.t = q.val.t
  BY <1>1 DEF Reads, Akin
<1>3. /\ q.val.t = Kind(m, E, i)
      /\ q.val = Null <=> r.val = Null
      /\ q.val = Throw <=> Kind(m, E, i) = "throw"
  BY <1>1, <1>2, Kinds DEF Kind, Proper
<1> QED BY <1>1, <1>2, <1>3 DEF Giving

LEMMA EntryReading ==
    ASSUME NEW m, NEW E, IsEntry(E)
    PROVE  E \in Readings(m, E)
BY TurnedNothing DEF Readings

LEMMA SlotFacts ==
    ASSUME NEW m \in Mappings, NEW E, IsEntry(E), NEW i \in DOMAIN m,
           NEW s \in Slots(m, E, i), NEW R \in Readings(m, E)
    PROVE  /\ s.at = Nowhere \/ s.at[1] \in DOMAIN E
           /\ s.val \in {ClaimValue(m[i], Q) : Q \in Readings(m, E)}
           /\ Current(s, R) \in {ClaimValue(m[i], Q) : Q \in Readings(m, E)}
           /\ s.at # Nowhere /\ Kind(m, E, i) = "obj" => /\ s.at = <<UriAttr, "">>
                                                         /\ TakesUris(m[i])
<1>1. PICK Q \in Readings(m, E) : s = FoundIn(m[i], Chosen(m[i].alts, Q), Q)
  BY DEF Slots
<1> DEFINE n == Chosen(m[i].alts, E)
           r == FoundIn(m[i], n, E)
           q == FoundIn(m[i], n, R)
<1>2. /\ Chosen(m[i].alts, Q) = n
      /\ Reads(E, Q, r, FoundIn(m[i], n, Q))
      /\ FoundIn(m[i], n, Q).val = ClaimValue(m[i], Q)
      /\ r.val = ClaimValue(m[i], E)
      /\ r.at # Nowhere /\ IsObj(r.val) => TakesUris(m[i])
  BY FoundReadings
<1>3. /\ Reads(E, Q, r, s) /\ s.val = ClaimValue(m[i], Q)
  BY <1>1, <1>2
<1>4. Reads(E, R, r, q) /\ q.val = ClaimValue(m[i], R)
  BY FoundReadings
<1> HIDE DEF r, q
<1>5. s.at = r.at
  BY <1>3 DEF Reads, Akin
<1>6. s.at # Nowhere => /\ s.at[1] \in DOMAIN E
                        /\ q.val = At(R, s.at)
                        /\ IsObj(r.val) => s.at = <<UriAttr, "">>
  BY <1>4, <1>5 DEF Reads, Held
<1>7. \E P \in Readings(m, E) : Current(s, R) = ClaimValue(m[i], P)
  <2>1. CASE s.at = Nowhere
    BY <1>3, <2>1 DEF Current
  <2>2. CASE s.at # Nowhere
    BY <1>4, <1>6, <2>2 DEF Current
  <2> QED BY <2>1, <2>2
<1>8. Kind(m, E, i) = "obj" => IsObj(r.val)
  BY <1>2 DEF Kind, IsObj
<1> QED BY <1>2, <1>3, <1>5, <1>6, <1>7, <1>8

LEMMA SlotKind ==
    ASSUME NEW m \in Mappings, NEW E, IsEntry(E), NEW i \in DOMAIN m,
           NEW s \in Slots(m, E, i), NEW R \in Readings(m, E)
    PROVE  /\ s.val.t = Kind(m, E, i) /\ Current(s, R).t = Kind(m, E, i)
           /\ s.val = Null <=> i \notin Giving(m, E)
           /\ s.val = Throw <=> Kind(m, E, i) = "throw"
           /\ i \in Giving(m, E) /\ Kind(m, E, i) # "throw" => Proper(Current(s, R))
<1> DEFINE docs == {ClaimValue(m[i], Q) : Q \in Readings(m, E)}
<1>0. s.val \in docs /\ Current(s, R) \in docs
  BY SlotFacts
<1>1. PICK Q \in Readings(m, E) : s.val = ClaimValue(m[i], Q)
  BY <1>0
<1>2. PICK P \in Readings(m, E) : Current(s, R) = ClaimValue(m[i], P)
  BY <1>0
<1>3. /\ s.val.t = Kind(m, E, i)
      /\ s.val = Null <=> i \notin Giving(m, E)
      /\ s.val = Throw <=> Kind(m, E, i) = "throw"
  BY <1>1, ValueFacts
<1>4. /\ Current(s, R) = Null \/ Current(s, R) = Throw \/ Proper(Current(s, R))
      /\ Current(s, R).t = Kind(m, E, i)
      /\ Current(s, R) = Null <=> i \notin Giving(m, E)
      /\ Current(s, R) = Throw <=> Kind(m, E, i) = "throw"
  BY <1>2, ValueFacts
<1> QED BY <1>3, <1>4

LEMMA GivingIs ==
    ASSUME NEW m \in Mappings, NEW E
    PROVE  \A i \in Giving(m, E) : i \in DOMAIN m /\ i \in Nat
BY MappingIs DEF Giving

LEMMA WithIs ==
    ASSUME NEW f, NEW x, NEW v
    PROVE  /\ DOMAIN With(f, x, v) = DOMAIN f \cup {x}
           /\ With(f, x, v)[x] = v
           /\ \A y \in DOMAIN f : y # x => With(f, x, v)[y] = f[y]
BY DEF With

LEMMA Appended ==
    ASSUME NEW a, NEW b, NEW c
    PROVE  Append(<<a>>, b) = <<a, b>> /\ Append(<<a, b>>, c) = <<a, b, c>>
<1> DEFINE s == Append(<<a>>, b)
           w == Append(<<a, b>>, c)
<1>1. <<a>> \in Seq({a, b, c}) /\ Len(<<a>>) = 1 /\ <<a, b>> \in Seq({a, b, c}) /\ Len(<<a, b>>) = 2
  OBVIOUS
<1>2. s \in Seq({a, b, c}) /\ Len(s) = 2 /\ s[1] = a /\ s[2] = b
  BY <1>1
<1>3. w \in Seq({a, b, c}) /\ Len(w) = 3 /\ w[1] = a /\ w[2] = b /\ w[3] = c
  BY <1>1
<1> HIDE DEF s, w
<1>4. s = <<s[1], s[2]>>
  BY <1>2
<1>5. w = <<w[1], w[2], w[3]>>
  BY <1>3
<1> QED BY <1>2, <1>3, <1>4, <1>5 DEF s, w

LEMMA NameIs ==
    ASSUME NEW n \in Seq(STRING), Len(n) \in {1, 2}
    PROVE  /\ Len(Base(n)) = 1
           /\ \A x \in Own(n) : x = n \/ Len(x) = 3
           /\ Len(n) = 1 => Base(n) = n /\ Own(n) = {n}
           /\ Len(n) = 2 => /\ Append(Base(n), n[2]) = n
                            /\ Append(<<UriAttr, "">>, n[2]) = <<UriAttr, "", n[2]>>
                            /\ Len(<<UriAttr, "", n[2]>>) = 3
                            /\ Own(n) = {n, <<UriAttr, "", n[2]>>}
                            /\ n # Base(n)
<1>1. Len(Base(n)) = 1 /\ Base(n)[1] = n[1]
  BY DEF Base
<1>2. ASSUME Len(n) = 1 PROVE Base(n) = n
  BY <1>2 DEF Base
<1>3. ASSUME Len(n) = 2
      PROVE  Append(Base(n), n[2]) = n
  <2>1. n = <<n[1], n[2]>>
    BY <1>3
  <2>2. Append(<<n[1]>>, n[2]) = <<n[1], n[2]>>
    BY Appended
  <2> QED BY <2>1, <2>2 DEF Base
<1>4. /\ Append(<<UriAttr, "">>, n[2]) = <<UriAttr, "", n[2]>>
      /\ Len(<<UriAttr, "", n[2]>>) = 3
  BY Appended
<1>7. \A x \in Own(n) : x = n \/ Len(x) = 3
  BY <1>4 DEF Own
<1>5. Len(n) = 1 => Own(n) = {n}
  BY DEF Own
<1>6. Len(n) = 2 => Own(n) = {n, <<UriAttr, "", n[2]>>}
  BY DEF Own
<1>8. Len(n) = 2 => n # Base(n)
  BY <1>1
<1> HIDE DEF Base
<1> QED BY <1>1, <1>2, <1>3, <1>4, <1>5, <1>6, <1>7, <1>8

(* What is set under a single name, and what a claim's base is.            *)
LEMMA OwnedName ==
    ASSUME NEW m \in Mappings, NEW E, NEW k, NEW T, Owned(m, E, k, T),
           NEW name \in DOMAIN T, Len(name) = 1
    PROVE  \/ T[name] = Made
           \/ \E j \in Giving(m, E) : /\ j < k /\ m[j].name = name
                                      /\ Kind(m, E, j) # "throw"
                                      /\ T[name] \in Slots(m, E, j)
<1>1. CASE T[name] = Made
  BY <1>1
<1>2. CASE T[name] # Made
  <2>1. PICK j \in Giving(m, E) : /\ j < k /\ name \in Own(m[j].name)
                                  /\ Kind(m, E, j) # "throw"
                                  /\ T[name] \in Slots(m, E, j)
    BY <1>2 DEF Owned
  <2>2. m[j].name \in Seq(STRING) /\ Len(m[j].name) \in {1, 2}
    BY GivingIs, MappingIs
  <2>3. \A x \in Own(m[j].name) : x = m[j].name \/ Len(x) = 3
    BY <2>2, NameIs
  <2>4. m[j].name = name
    BY <2>1, <2>3
  <2> QED BY <2>1, <2>4
<1> QED BY <1>1, <1>2

LEMMA BaseKind ==
    ASSUME NEW m \in Mappings, NEW E, IsEntry(E), NEW k \in DOMAIN m, NEW T,
           PlainSet(m, E, k, T), NEW t, OnBase(m, E, k, t), NEW R \in Readings(m, E)
    PROVE  Base(m[k].name) \in DOMAIN T /\ Current(T[Base(m[k].name)], R).t = t
<1>1. PICK j \in Giving(m, E) : j < k /\ m[j].name = Base(m[k].name) /\ Kind(m, E, j) = t
  BY DEF OnBase
<1>2. j \in DOMAIN m /\ Len(m[j].name) = 1
  <2>1. j \in DOMAIN m /\ m[k].name \in Seq(STRING) /\ Len(m[k].name) \in {1, 2}
    BY GivingIs, MappingIs
  <2>2. Len(Base(m[k].name)) = 1
    BY <2>1, NameIs
  <2> QED BY <1>1, <2>1, <2>2
<1>3. Base(m[k].name) \in DOMAIN T /\ T[Base(m[k].name)] \in Slots(m, E, j)
  BY <1>1, <1>2 DEF PlainSet, IsSet
<1> QED BY <1>1, <1>2, <1>3, SlotKind

(* What is set stays somebody's.                                           *)
LEMMA OwnedLater ==
    ASSUME NEW m \in Mappings, NEW E, NEW k \in Nat, NEW T, Owned(m, E, k, T)
    PROVE  Owned(m, E, k + 1, T)
<1>1. \A i \in Giving(m, E) : i < k => i < k + 1
  BY GivingIs
<1> QED BY <1>1 DEF Owned

LEMMA OwnedWith ==
    ASSUME NEW m \in Mappings, NEW E, NEW k \in Nat, NEW T, Owned(m, E, k, T),
           NEW i \in Giving(m, E), i < k, Kind(m, E, i) # "throw",
           NEW x \in Own(m[i].name), NEW s \in Slots(m, E, i),
           Len(x) = 2 => Base(x) \in DOMAIN T
    PROVE  Owned(m, E, k, With(T, x, s))
<1> DEFINE U == With(T, x, s)
<1>1. /\ DOMAIN U = DOMAIN T \cup {x} /\ U[x] = s
      /\ \A y \in DOMAIN T : y # x => U[y] = T[y]
  BY DEF With
<1> HIDE DEF U
<1>2. ASSUME NEW name \in DOMAIN U
      PROVE  /\ Len(name) = 2 => Base(name) \in DOMAIN U
             /\ \/ \E j \in Giving(m, E) : /\ j < k /\ name \in Own(m[j].name)
                                           /\ Kind(m, E, j) # "throw"
                                           /\ U[name] \in Slots(m, E, j)
                \/ /\ U[name] = Made
                   /\ \E j \in Giving(m, E) : j < k /\ name = Base(m[j].name)
  <2>1. CASE name = x
    BY <1>1, <2>1
  <2>2. CASE name # x
    BY <1>1, <2>2 DEF Owned
  <2> QED BY <2>1, <2>2
<1> QED BY <1>2 DEF Owned, U

LEMMA OwnedMade ==
    ASSUME NEW m \in Mappings, NEW E, NEW k \in Nat, NEW T, Owned(m, E, k, T),
           NEW i \in Giving(m, E), i < k
    PROVE  Owned(m, E, k, With(T, Base(m[i].name), Made))
<1> DEFINE x == Base(m[i].name)
           U == With(T, x, Made)
<1>1. /\ DOMAIN U = DOMAIN T \cup {x} /\ U[x] = Made
      /\ \A y \in DOMAIN T : y # x => U[y] = T[y]
  BY DEF With
<1>2. Len(x) = 1
  BY GivingIs, MappingIs, NameIs
<1> HIDE DEF U
<1>3. ASSUME NEW name \in DOMAIN U
      PROVE  /\ Len(name) = 2 => Base(name) \in DOMAIN U
             /\ \/ \E j \in Giving(m, E) : /\ j < k /\ name \in Own(m[j].name)
                                           /\ Kind(m, E, j) # "throw"
                                           /\ U[name] \in Slots(m, E, j)
                \/ /\ U[name] = Made
                   /\ \E j \in Giving(m, E) : j < k /\ name = Base(m[j].name)
  <2>1. CASE name = x
    BY <1>1, <1>2, <2>1
  <2>2. CASE name # x
    BY <1>1, <2>2 DEF Owned
  <2> QED BY <2>1, <2>2
<1> QED BY <1>3 DEF Owned, U

LEMMA OwnedWithout ==
    ASSUME NEW m \in Mappings, NEW E, NEW k, NEW T, Owned(m, E, k, T),
           NEW B, \A name \in B : Len(name) = 2
    PROVE  Owned(m, E, k, Restrict(T, DOMAIN T \ B))
<1> DEFINE U == Restrict(T, DOMAIN T \ B)
<1>1. /\ DOMAIN U = DOMAIN T \ B
      /\ \A y \in DOMAIN U : U[y] = T[y]
  BY DEF Restrict
<1> HIDE DEF U
<1>2. \A name : Base(name) \notin B
  BY DEF Base
<1>3. ASSUME NEW name \in DOMAIN U
      PROVE  /\ Len(name) = 2 => Base(name) \in DOMAIN U
             /\ \/ \E j \in Giving(m, E) : /\ j < k /\ name \in Own(m[j].name)
                                           /\ Kind(m, E, j) # "throw"
                                           /\ U[name] \in Slots(m, E, j)
                \/ /\ U[name] = Made
                   /\ \E j \in Giving(m, E) : j < k /\ name = Base(m[j].name)
  BY <1>1, <1>2 DEF Owned
<1> QED BY <1>3 DEF Owned, U

(* A claim more is mapped.                                                 *)
LEMMA MappedMore ==
    ASSUME NEW m \in Mappings, NEW E, NEW k \in DOMAIN m, NEW T, Mapped(m, E, k, T),
           NEW U,
           \A i \in Giving(m, E) :
              /\ i < k /\ IsSet(m, E, T, i)
              /\ Len(m[i].name) = 2 => ~(k \in Giving(m, E) /\ m[k].name = Base(m[i].name))
              => IsSet(m, E, U, i),
           k \in Giving(m, E) /\ (Len(m[k].name) = 1 \/ Lasting(m, E, k, k)) => IsSet(m, E, U, k),
           ~Bad(m, E, k)
    PROVE  Mapped(m, E, k + 1, U)
<1>0. /\ k \in Nat /\ \A i \in Giving(m, E) : i \in DOMAIN m /\ i \in Nat
      /\ \A i \in DOMAIN m : i \in Nat /\ Len(m[i].name) \in {1, 2}
  BY GivingIs, MappingIs
<1>1. PlainSet(m, E, k + 1, U)
  <2> SUFFICES ASSUME NEW i \in Giving(m, E), i < k + 1, Len(m[i].name) = 1
               PROVE  IsSet(m, E, U, i)
    BY DEF PlainSet
  <2>1. CASE i = k
    BY <2>1
  <2>2. CASE i # k
    <3>1. i < k
      BY <1>0, <2>2
    <3>2. IsSet(m, E, T, i)
      BY <3>1 DEF Mapped, PlainSet
    <3> QED BY <3>1, <3>2
  <2> QED BY <2>1, <2>2
<1>2. DottedSet(m, E, k + 1, U)
  <2> SUFFICES ASSUME NEW i \in Giving(m, E), i < k + 1, Lasting(m, E, k + 1, i)
               PROVE  IsSet(m, E, U, i)
    BY DEF DottedSet
  <2>1. CASE i = k
    <3>1. Lasting(m, E, k, k)
      BY <1>0, <2>1 DEF Lasting
    <3> QED BY <2>1, <3>1
  <2>2. CASE i # k
    <3>1. i < k /\ k < k + 1
      BY <1>0, <2>2
    <3>2. Lasting(m, E, k, i) /\ ~(k \in Giving(m, E) /\ m[k].name = Base(m[i].name))
      <4>1. \A j \in Giving(m, E) : i < j /\ j < k + 1 => m[j].name # Base(m[i].name)
        BY DEF Lasting
      <4>2. \A j \in Giving(m, E) : j < k => j < k + 1
        BY <1>0
      <4>3. \A j \in Giving(m, E) : i < j /\ j < k => m[j].name # Base(m[i].name)
        BY <4>1, <4>2
      <4> QED BY <3>1, <4>1, <4>3 DEF Lasting
    <3>3. IsSet(m, E, T, i)
      BY <3>1, <3>2 DEF Mapped, DottedSet
    <3> QED BY <3>1, <3>2, <3>3
  <2> QED BY <2>1, <2>2
<1>3. \A i \in DOMAIN m : i < k + 1 => ~Bad(m, E, i)
  <2> SUFFICES ASSUME NEW i \in DOMAIN m, i < k + 1
               PROVE  ~Bad(m, E, i)
    OBVIOUS
  <2>1. i = k \/ i < k
    BY <1>0
  <2> QED BY <2>1 DEF Mapped
<1> QED BY <1>1, <1>2, <1>3 DEF Mapped

(* ... and has no value.                                                   *)
LEMMA SkipsStep ==
    ASSUME NEW m \in Mappings, NEW E, IsEntry(E), NEW k \in DOMAIN m,
           NEW T, Owned(m, E, k, T), Mapped(m, E, k, T),
           NEW r \in Slots(m, E, k), r.val = Null
    PROVE  Owned(m, E, k + 1, T) /\ Mapped(m, E, k + 1, T)
<1>1. k \in Nat
  BY MappingIs
<1>2. E \in Readings(m, E)
  BY EntryReading
<1>3. k \notin Giving(m, E) /\ r.val # Throw
  BY <1>2, SlotKind, Kinds
<1>4. Kind(m, E, k) # "throw"
  BY <1>2, <1>3, SlotKind
<1>5. ~Bad(m, E, k)
  BY <1>3, <1>4 DEF Bad
<1>6. Owned(m, E, k + 1, T)
  BY <1>1, OwnedLater
<1>7. Mapped(m, E, k + 1, T)
  BY <1>3, <1>5, MappedMore
<1> QED BY <1>6, <1>7

(* ... under a plain name.                                                 *)
LEMMA PlainStep ==
    ASSUME NEW m \in Mappings, NEW E, IsEntry(E), NEW k \in DOMAIN m,
           NEW T, Owned(m, E, k, T), Mapped(m, E, k, T),
           NEW r \in Slots(m, E, k), r.val # Null, r.val # Throw,
           Len(m[k].name) = 1,
           NEW B, B = {n \in DOMAIN T : Len(n) = 2 /\ n[1] = m[k].name[1]}
    PROVE  LET U == With(Restrict(T, DOMAIN T \ B), m[k].name, r)
           IN  Owned(m, E, k + 1, U) /\ Mapped(m, E, k + 1, U)
<1> DEFINE name == m[k].name
           V == Restrict(T, DOMAIN T \ B)
           U == With(V, name, r)
<1>0. /\ k \in Nat /\ k < k + 1 /\ name \in Seq(STRING) /\ Len(name) \in {1, 2}
      /\ \A i, j \in DOMAIN m : m[i].name = m[j].name => i = j
      /\ \A i \in DOMAIN m : i \in Nat
  <2>1. k \in Nat /\ name \in Seq(STRING) /\ Len(name) \in {1, 2}
    BY MappingIs
  <2>2. /\ \A i, j \in DOMAIN m : m[i].name = m[j].name => i = j
        /\ \A i \in DOMAIN m : i \in Nat
    BY MappingIs
  <2> QED BY <2>1, <2>2
<1>1. E \in Readings(m, E)
  BY EntryReading
<1>2. k \in Giving(m, E) /\ Kind(m, E, k) # "throw"
  BY <1>1, SlotKind
<1>3. Owned(m, E, k + 1, V)
  <2>1. Owned(m, E, k + 1, T)
    BY <1>0, OwnedLater
  <2> QED BY <2>1, OwnedWithout
<1>4. name \in Own(name)
  BY DEF Own
<1>5. Owned(m, E, k + 1, U)
  BY <1>0, <1>2, <1>3, <1>4, OwnedWith
<1>6. /\ name \in DOMAIN U /\ U[name] = r
      /\ \A n \in DOMAIN T \ B : n # name => n \in DOMAIN U /\ U[n] = T[n]
  BY DEF With, Restrict
<1> HIDE DEF U, V
<1>7. ~Bad(m, E, k)
  BY <1>2 DEF Bad, OnBase
<1>8. IsSet(m, E, U, k)
  BY <1>6 DEF IsSet
<1>9. ASSUME NEW i \in Giving(m, E), i < k, IsSet(m, E, T, i),
             Len(m[i].name) = 2 => ~(k \in Giving(m, E) /\ m[k].name = Base(m[i].name))
      PROVE  IsSet(m, E, U, i)
  <2>1. i \in DOMAIN m /\ i # k
    BY <1>0, <1>9, GivingIs
  <2>2. m[i].name # name
    BY <1>0, <2>1
  <2>3. m[i].name \notin B
    <3>1. CASE Len(m[i].name) = 2
      <4>1. name # <<m[i].name[1]>>
        BY <1>2, <1>9, <3>1 DEF Base
      <4>2. name = <<name[1]>>
        BY <1>0
      <4> QED BY <4>1, <4>2
    <3>2. CASE Len(m[i].name) # 2
      BY <3>2
    <3> QED BY <3>1, <3>2
  <2> QED BY <1>6, <1>9, <2>2, <2>3 DEF IsSet
<1>10. Mapped(m, E, k + 1, U)
  BY <1>7, <1>8, <1>9, MappedMore
<1> QED BY <1>5, <1>10 DEF U, V

(* What is set under a longer name stays set while others are added.       *)
LEMMA AddedStep ==
    ASSUME NEW m \in Mappings, NEW E, NEW k \in DOMAIN m,
           NEW T, Mapped(m, E, k, T),
           NEW U, Len(m[k].name) = 2,
           \A i \in Giving(m, E) : i < k /\ IsSet(m, E, T, i) => IsSet(m, E, U, i),
           Lasting(m, E, k, k) => IsSet(m, E, U, k),
           ~Bad(m, E, k)
    PROVE  Mapped(m, E, k + 1, U)
BY MappedMore

(* ... below a name that has no value yet.                                 *)
LEMMA InNewStep ==
    ASSUME NEW m \in Mappings, NEW E, IsEntry(E), NEW k \in DOMAIN m,
           NEW T, Owned(m, E, k, T), Mapped(m, E, k, T),
           NEW r \in Slots(m, E, k), r.val # Null, r.val # Throw,
           Len(m[k].name) = 2, Base(m[k].name) \notin DOMAIN T
    PROVE  LET U == With(With(T, Base(m[k].name), Made), m[k].name, r)
           IN  Owned(m, E, k + 1, U) /\ Mapped(m, E, k + 1, U)
<1> DEFINE name == m[k].name
           V == With(T, Base(name), Made)
           U == With(V, name, r)
<1>0. /\ k \in Nat /\ k < k + 1 /\ name \in Seq(STRING) /\ Len(name) \in {1, 2}
      /\ \A i, j \in DOMAIN m : m[i].name = m[j].name => i = j
      /\ \A i \in DOMAIN m : i \in Nat
  <2>1. k \in Nat /\ name \in Seq(STRING) /\ Len(name) \in {1, 2}
    BY MappingIs
  <2>2. /\ \A i, j \in DOMAIN m : m[i].name = m[j].name => i = j
        /\ \A i \in DOMAIN m : i \in Nat
    BY MappingIs
  <2> QED BY <2>1, <2>2
<1>1. E \in Readings(m, E)
  BY EntryReading
<1>2. k \in Giving(m, E) /\ Kind(m, E, k) # "throw"
  BY <1>1, SlotKind
<1>3. Owned(m, E, k + 1, V)
  <2>1. Owned(m, E, k + 1, T)
    BY <1>0, OwnedLater
  <2> QED BY <1>0, <1>2, <2>1, OwnedMade
<1>4. name \in Own(name)
  BY DEF Own
<1>5. Base(name) \in DOMAIN V
  BY DEF With
<1>6. Owned(m, E, k + 1, U)
  <2> HIDE DEF V
  <2> QED BY <1>0, <1>2, <1>3, <1>4, <1>5, OwnedWith
<1>7. /\ name \in DOMAIN U /\ U[name] = r
      /\ \A n \in DOMAIN T : n # name /\ n # Base(name) => n \in DOMAIN U /\ U[n] = T[n]
  BY DEF With
<1> HIDE DEF U, V
<1>8. ~Bad(m, E, k)
  <2>1. ASSUME OnBase(m, E, k, "str") PROVE FALSE
    <3>1. PlainSet(m, E, k, T)
      BY DEF Mapped
    <3> QED BY <1>1, <2>1, <3>1, BaseKind
  <2> QED BY <1>2, <2>1 DEF Bad
<1>9. IsSet(m, E, U, k)
  BY <1>7 DEF IsSet
<1>10. ASSUME NEW i \in Giving(m, E), i < k, IsSet(m, E, T, i)
       PROVE  IsSet(m, E, U, i)
  <2>1. i \in DOMAIN m /\ i # k
    BY <1>0, <1>10, GivingIs
  <2>2. m[i].name # name
    BY <1>0, <2>1
  <2> QED BY <1>7, <1>10, <2>2 DEF IsSet
<1>11. Mapped(m, E, k + 1, U)
  BY <1>8, <1>9, <1>10, AddedStep
<1> QED BY <1>6, <1>11 DEF U, V

(* ... below a name that has one: an object takes it, the entry's own      *)
(* labeled URIs or one made for a claim; an array does not show it.        *)
LEMMA BelowStep ==
    ASSUME NEW m \in Mappings, NEW E, IsEntry(E), NEW k \in DOMAIN m,
           NEW T, Owned(m, E, k, T), Mapped(m, E, k, T),
           NEW r \in Slots(m, E, k), r.val # Null, r.val # Throw,
           Len(m[k].name) = 2, Base(m[k].name) \in DOMAIN T,
           NEW R \in Readings(m, E),
           Current(T[Base(m[k].name)], R).t # "str",
           NEW at, at = IF T[Base(m[k].name)].at = Nowhere THEN Base(m[k].name)
                        ELSE T[Base(m[k].name)].at
    PROVE  LET base == Current(T[Base(m[k].name)], R)
               U == IF IsObj(base) THEN With(T, Append(at, m[k].name[2]), r) ELSE T
           IN  Owned(m, E, k + 1, U) /\ Mapped(m, E, k + 1, U)
<1> DEFINE name == m[k].name
           b == Base(name)
           base == Current(T[b], R)
           x == Append(at, name[2])
           U == IF IsObj(base) THEN With(T, x, r) ELSE T
           label == <<UriAttr, "", name[2]>>
<1>0. /\ k \in Nat /\ k < k + 1 /\ name \in Seq(STRING) /\ Len(name) \in {1, 2}
      /\ \A i, j \in DOMAIN m : m[i].name = m[j].name => i = j
      /\ \A i \in DOMAIN m : i \in Nat
  <2>1. k \in Nat /\ name \in Seq(STRING) /\ Len(name) \in {1, 2}
    BY MappingIs
  <2>2. /\ \A i, j \in DOMAIN m : m[i].name = m[j].name => i = j
        /\ \A i \in DOMAIN m : i \in Nat
    BY MappingIs
  <2> QED BY <2>1, <2>2
<1>1. E \in Readings(m, E)
  BY EntryReading
<1>2. k \in Giving(m, E) /\ Kind(m, E, k) # "throw"
  BY <1>1, SlotKind
<1>3. /\ Append(b, name[2]) = name /\ Append(<<UriAttr, "">>, name[2]) = label
      /\ Len(label) = 3 /\ Own(name) = {name, label} /\ Len(b) = 1
  BY <1>0, NameIs
<1>4. PlainSet(m, E, k, T)
  BY DEF Mapped
<1>5. ~Bad(m, E, k)
  <2>1. ASSUME OnBase(m, E, k, "str") PROVE FALSE
    BY <2>1, <1>4, BaseKind
  <2> QED BY <1>2, <2>1 DEF Bad
<1>6. \/ T[b] = Made
      \/ \E j \in Giving(m, E) : /\ j < k /\ m[j].name = b /\ Kind(m, E, j) # "throw"
                                 /\ T[b] \in Slots(m, E, j)
  BY <1>3, OwnedName
<1>7. ASSUME NEW j \in Giving(m, E), j < k, m[j].name = b, T[b] \in Slots(m, E, j)
      PROVE  /\ base.t = Kind(m, E, j)
             /\ T[b].at # Nowhere /\ IsObj(base) =>
                   T[b].at = <<UriAttr, "">> /\ TakesUris(m[j])
             /\ Proper(base) \/ Kind(m, E, j) = "throw"
  <2>1. j \in DOMAIN m
    BY GivingIs
  <2>2. /\ base.t = Kind(m, E, j)
        /\ j \in Giving(m, E) /\ Kind(m, E, j) # "throw" => Proper(base)
    BY <1>7, <2>1, SlotKind
  <2>3. T[b].at # Nowhere /\ Kind(m, E, j) = "obj" => T[b].at = <<UriAttr, "">> /\ TakesUris(m[j])
    BY <1>7, <2>1, SlotFacts
  <2> QED BY <2>2, <2>3 DEF IsObj
<1>8. Made.at = Nowhere /\ (T[b] = Made => IsObj(base))
  BY Kinds DEF Made, Read, Current, IsObj
<1>9. CASE ~IsObj(base)
  <2>1. PICK j \in Giving(m, E) : /\ j < k /\ m[j].name = b /\ Kind(m, E, j) # "throw"
                                  /\ T[b] \in Slots(m, E, j)
    BY <1>6, <1>8, <1>9
  <2>2. Kind(m, E, j) = "arr"
    BY <1>7, <1>9, <2>1 DEF Proper, IsObj
  <2>3. OnBase(m, E, k, "arr")
    BY <2>1, <2>2 DEF OnBase
  <2>4. ~Lasting(m, E, k, k)
    BY <2>3 DEF Lasting
  <2>5. U = T
    BY <1>9
  <2> HIDE DEF U
  <2>6. Owned(m, E, k + 1, U)
    BY <1>0, <2>5, OwnedLater
  <2>7. Mapped(m, E, k + 1, U)
    BY <1>5, <2>4, <2>5, AddedStep
  <2> QED BY <2>6, <2>7 DEF U
<1>10. CASE IsObj(base)
  <2>1. x = name \/ (x = label /\ T[b].at # Nowhere)
    BY <1>3, <1>6, <1>7, <1>8, <1>10
  <2>2. U = With(T, x, r)
    BY <1>10
  <2> HIDE DEF x, label
  <2>3. x \in Own(name) /\ (Len(x) = 2 => Base(x) \in DOMAIN T)
    <3>1. CASE x = name
      BY <1>3, <3>1
    <3>2. CASE x = label
      <4>1. 3 # 2
        OBVIOUS
      <4>2. Len(x) # 2
        BY <1>3, <3>2, <4>1, Zenon
      <4>3. x \in Own(name)
        BY <1>3, <3>2
      <4> QED BY <4>2, <4>3
    <3> QED BY <2>1, <3>1, <3>2
  <2>4. Owned(m, E, k + 1, T)
    BY <1>0, OwnedLater
  <2> HIDE DEF U, x
  <2>5. Owned(m, E, k + 1, U)
    BY <1>0, <1>2, <2>2, <2>3, <2>4, OwnedWith
  <2>6. /\ x \in DOMAIN U /\ U[x] = r
        /\ \A n \in DOMAIN T : n # x => n \in DOMAIN U /\ U[n] = T[n]
    BY <2>2 DEF With
  <2>7. ASSUME NEW i \in Giving(m, E), i < k, IsSet(m, E, T, i)
        PROVE  IsSet(m, E, U, i)
    <3>1. i \in DOMAIN m /\ i # k
      BY <1>0, <2>7, GivingIs
    <3>2. m[i].name # name /\ Len(m[i].name) # 3
      <4>1. Len(m[i].name) \in {1, 2}
        BY <3>1, MappingIs
      <4>2. m[i].name # name
        BY <1>0, <3>1
      <4> QED BY <4>1, <4>2
    <3>3. m[i].name # x
      BY <3>2, <2>1, <1>3
    <3> QED BY <2>6, <2>7, <3>3 DEF IsSet
  <2>8. ASSUME Lasting(m, E, k, k) PROVE IsSet(m, E, U, k)
    <3>1. \A j \in DOMAIN m : m[j].name = b => ~TakesUris(m[j])
      BY <2>8 DEF Lasting, Aside, SetInUris
    <3>2. T[b].at = Nowhere
      BY <1>6, <1>7, <1>8, <1>10, <3>1, GivingIs
    <3>3. x = name
      BY <2>1, <3>2
    <3> QED BY <2>6, <3>3 DEF IsSet
  <2>9. Mapped(m, E, k + 1, U)
    BY <1>5, <2>7, <2>8, AddedStep
  <2> QED BY <2>5, <2>9 DEF U, x
<1> QED BY <1>9, <1>10

(* ... or it throws, which only a bad claim does.                          *)
LEMMA ThrowsStep ==
    ASSUME NEW m \in Mappings, NEW E, IsEntry(E), NEW k \in DOMAIN m,
           NEW T, Owned(m, E, k, T), NEW r \in Slots(m, E, k),
           NEW R \in Readings(m, E),
           \/ r.val = Throw
           \/ /\ r.val # Null /\ Len(m[k].name) = 2 /\ Base(m[k].name) \in DOMAIN T
              /\ Current(T[Base(m[k].name)], R).t = "str"
    PROVE  Bad(m, E, k)
<1> DEFINE b == Base(m[k].name)
<1>1. E \in Readings(m, E)
  BY EntryReading
<1>2. CASE r.val = Throw
  BY <1>1, <1>2, SlotKind DEF Bad
<1>3. CASE /\ r.val # Null /\ Len(m[k].name) = 2 /\ b \in DOMAIN T
           /\ Current(T[b], R).t = "str"
  <2>1. k \in Giving(m, E)
    BY <1>1, <1>3, SlotKind
  <2>2. m[k].name \in Seq(STRING) /\ Len(m[k].name) \in {1, 2}
    BY MappingIs
  <2>3. Len(b) = 1
    BY <2>2, NameIs
  <2>4. T[b] # Made
    BY <1>3, Kinds DEF Made, Read, Current
  <2>5. PICK j \in Giving(m, E) : /\ j < k /\ m[j].name = b /\ T[b] \in Slots(m, E, j)
    BY <1>3, <2>3, <2>4, OwnedName
  <2>6. j \in DOMAIN m
    BY GivingIs
  <2>7. Kind(m, E, j) = "str"
    BY <1>3, <2>5, <2>6, SlotKind
  <2> QED BY <1>3, <2>1, <2>5, <2>7 DEF Bad, OnBase
<1> QED BY <1>2, <1>3

-----------------------------------------------------------------------------
(* The invariant is inductive.                                             *)
LEMMA NothingMapped ==
    ASSUME NEW m \in Mappings, NEW E
    PROVE  /\ Owned(m, E, 1, <<>>) /\ Mapped(m, E, 1, <<>>)
           /\ 1 \in 1..(Len(m) + 1)
<1>1. DOMAIN <<>> = {}
  OBVIOUS
<1>2. \A i \in DOMAIN m : i \in Nat /\ ~(i < 1)
  BY MappingIs
<1>3. Owned(m, E, 1, <<>>)
  BY <1>1 DEF Owned
<1>4. Mapped(m, E, 1, <<>>)
  BY <1>2, GivingIs DEF Mapped, PlainSet, DottedSet
<1>5. Len(m) \in Nat
  BY MappingIs
<1> QED BY <1>3, <1>4, <1>5

LEMMA Started ==
    ASSUME NEW m \in Mappings, NEW e \in Entries
    PROVE  /\ Labeled(e) \in Readings(m, Labeled(e))
           /\ Owned(m, Labeled(e), 1, <<>>) /\ Mapped(m, Labeled(e), 1, <<>>)
           /\ 1 \in 1..(Len(m) + 1)
BY LabeledIs, EntryReading, NothingMapped

LEMMA InitIInv ==
    ASSUME Init
    PROVE  IInv
<1>1. cfg \in Mappings /\ entry \in Entries
  BY DEF Init
<1>2. /\ Labeled(entry) \in Readings(cfg, Labeled(entry))
      /\ Owned(cfg, Labeled(entry), 1, <<>>) /\ Mapped(cfg, Labeled(entry), 1, <<>>)
      /\ 1 \in 1..(Len(cfg) + 1)
  BY <1>1, Started
<1> QED BY <1>2 DEF Init, IInv

LEMMA MapNextKeeps ==
    ASSUME IInv, NEW e \in Entries, MapNext(e)
    PROVE  IInv'
<1>1. cfg \in Mappings /\ map = cfg
  BY DEF IInv
<1>2. /\ Labeled(e) \in Readings(cfg, Labeled(e))
      /\ Owned(cfg, Labeled(e), 1, <<>>) /\ Mapped(cfg, Labeled(e), 1, <<>>)
      /\ 1 \in 1..(Len(cfg) + 1)
  BY <1>1, Started
<1>3. /\ cfg' = cfg /\ map' = map /\ entry' = e /\ source' = Labeled(e)
      /\ next' = 1 /\ target' = <<>> /\ status' = "mapping"
  BY DEF MapNext
<1> QED BY <1>1, <1>2, <1>3 DEF IInv

LEMMA FinishKeeps ==
    ASSUME IInv, Finish
    PROVE  IInv'
<1>1. Len(cfg) \in Nat
  BY MappingIs DEF IInv
<1> QED BY <1>1 DEF IInv, Finish

(* One claim.                                                              *)
LEMMA MapClaimFinds ==
    ASSUME IInv, MapClaim
    PROVE  LET n == Chosen(cfg[next].alts, source)
               r == FoundIn(cfg[next], n, source)
               src == Used(cfg[next], n, source)
           IN  /\ next \in DOMAIN cfg /\ next' = next + 1
               /\ next + 1 \in 1..(Len(cfg) + 1)
               /\ r \in Slots(cfg, Labeled(entry), next)
               /\ src \in Readings(cfg, Labeled(entry))
               /\ IsEntry(Labeled(entry))
               /\ Outcome(cfg[next].name, r, src)
               /\ map' = cfg /\ cfg' = cfg /\ entry' = entry
<1> DEFINE E == Labeled(entry)
           n == Chosen(cfg[next].alts, source)
           r == FoundIn(cfg[next], n, source)
           src == Used(cfg[next], n, source)
<1>1. cfg \in Mappings /\ map = cfg /\ IsEntry(E) /\ source \in Readings(cfg, E)
  BY LabeledIs DEF IInv
<1>2. next \in DOMAIN cfg /\ next + 1 \in 1..(Len(cfg) + 1)
  BY <1>1, MappingIs DEF IInv, MapClaim
<1>3. n = 0 \/ (n \in DOMAIN cfg[next].alts /\ cfg[next].alts[n].attr \in DOMAIN E)
  BY <1>1, <1>2, FoundReadings
<1>4. PICK S \in SUBSET Borrowed(cfg, E) : source = Turned(E, S)
  BY <1>1 DEF Readings
<1>5. src \in Readings(cfg, E)
  BY <1>1, <1>2, <1>3, <1>4, UsedReading
<1>6. r \in Slots(cfg, E, next)
  BY <1>1 DEF Slots
<1>7. Outcome(cfg[next].name, r, src) /\ map' = MapAfter(map, next, n, source)
  BY <1>1 DEF MapClaim
<1>8. map' = cfg
  BY <1>1, <1>2, <1>3, <1>7, MapKept
<1> QED BY <1>1, <1>2, <1>5, <1>6, <1>7, <1>8 DEF MapClaim

LEMMA MapClaimKeeps ==
    ASSUME IInv, MapClaim
    PROVE  IInv'
<1> DEFINE m == cfg
           E == Labeled(entry)
           k == next
           T == target
           name == m[k].name
           r == FoundIn(m[k], Chosen(m[k].alts, source), source)
           src == Used(m[k], Chosen(m[k].alts, source), source)
<1>1. /\ k \in DOMAIN m /\ next' = k + 1 /\ k + 1 \in 1..(Len(m) + 1)
      /\ r \in Slots(m, E, k)
      /\ src \in Readings(m, E)
      /\ IsEntry(E)
      /\ Outcome(name, r, src)
      /\ map' = m /\ cfg' = m /\ entry' = entry
  BY MapClaimFinds
<1>2. /\ m \in Mappings /\ entry \in Entries /\ status = "mapping"
      /\ Owned(m, E, k, T) /\ Mapped(m, E, k, T)
  BY DEF IInv, MapClaim
<1>3. k \in Nat
  BY <1>1, <1>2, MappingIs
<1> HIDE DEF r, src
<1>4. ASSUME /\ source' = src /\ status' = "mapping"
             /\ Owned(m, E, k + 1, target') /\ Mapped(m, E, k + 1, target')
      PROVE  IInv'
  BY <1>1, <1>2, <1>4 DEF IInv
<1>5. CASE Skips(r, src)
  <2>1. r.val = Null /\ source' = src /\ target' = T /\ status' = "mapping"
    BY <1>2, <1>5 DEF Skips, Absent
  <2>2. Owned(m, E, k + 1, T) /\ Mapped(m, E, k + 1, T)
    BY <1>1, <1>2, <2>1, SkipsStep
  <2> QED BY <1>4, <2>1, <2>2
<1>6. CASE SetsPlain(name, r, src)
  <2>1. /\ r.val # Throw /\ r.val # Null /\ status' = "mapping" /\ Len(name) = 1
        /\ target' = With(Restrict(T, DOMAIN T \ Below(name)), name, r)
        /\ source' = src
    BY <1>2, <1>6 DEF SetsPlain, Sets, Absent
  <2>2. Below(name) = {n \in DOMAIN T : Len(n) = 2 /\ n[1] = name[1]}
    BY DEF Below
  <2>3. Owned(m, E, k + 1, target') /\ Mapped(m, E, k + 1, target')
    BY <1>1, <1>2, <2>1, <2>2, PlainStep
  <2> QED BY <1>4, <2>1, <2>3
<1>7. CASE SetsInNew(name, r, src)
  <2>1. /\ r.val # Throw /\ r.val # Null /\ status' = "mapping" /\ Len(name) = 2
        /\ Base(name) \notin DOMAIN T
        /\ target' = With(With(T, Base(name), Made), name, r)
        /\ source' = src
    BY <1>2, <1>7 DEF SetsInNew, Sets, Absent, Made
  <2>2. Owned(m, E, k + 1, target') /\ Mapped(m, E, k + 1, target')
    BY <1>1, <1>2, <2>1, InNewStep
  <2> QED BY <1>4, <2>1, <2>2
<1>8. CASE SetsBelow(name, r, src)
  <2> DEFINE base == Current(T[Base(name)], src)
             at == Holder(Base(name))
  <2>1. /\ r.val # Throw /\ r.val # Null /\ status' = "mapping" /\ Len(name) = 2
        /\ Base(name) \in DOMAIN T /\ base.t # "str"
        /\ target' = IF IsObj(base) THEN With(T, Append(at, name[2]), r) ELSE T
        /\ source' = src
    BY <1>2, <1>8 DEF SetsBelow, Sets, Absent
  <2>2. at = IF T[Base(name)].at = Nowhere THEN Base(name) ELSE T[Base(name)].at
    BY DEF Holder
  <2> HIDE DEF at
  <2>3. Owned(m, E, k + 1, target') /\ Mapped(m, E, k + 1, target')
    BY <1>1, <1>2, <2>1, <2>2, BelowStep
  <2> QED BY <1>4, <2>1, <2>3
<1>9. CASE Throws(name, r, src)
  <2>1. /\ status' = "threw" /\ source' = src /\ target' = T
        /\ \/ r.val = Throw
           \/ /\ r.val # Null /\ Len(name) = 2 /\ Base(name) \in DOMAIN T
              /\ Current(T[Base(name)], src).t = "str"
    BY <1>9 DEF Throws, Absent
  <2>2. Bad(m, E, k)
    BY <1>1, <1>2, <2>1, ThrowsStep
  <2>3. Owned(m, E, k + 1, T)
    BY <1>2, <1>3, OwnedLater
  <2> QED BY <1>1, <1>2, <2>1, <2>2, <2>3 DEF IInv
<1> QED BY <1>1, <1>5, <1>6, <1>7, <1>8, <1>9 DEF Outcome

(* For every mapping and every entry the invariant holds.                  *)
THEOREM Inductive == Spec => []IInv
<1>1. Init => IInv
  BY InitIInv
<1>2. IInv /\ [Next]_vars => IInv'
  <2> SUFFICES ASSUME IInv, [Next]_vars PROVE IInv'
    OBVIOUS
  <2>1. CASE MapClaim
    BY <2>1, MapClaimKeeps
  <2>2. CASE Finish
    BY <2>2, FinishKeeps
  <2>3. ASSUME NEW e \in Entries, MapNext(e) PROVE IInv'
    BY <2>3, MapNextKeeps
  <2>4. CASE UNCHANGED vars
    BY <2>4 DEF vars, IInv
  <2> QED BY <2>1, <2>2, <2>3, <2>4 DEF Next
<1> QED BY <1>1, <1>2, PTL DEF Spec

-----------------------------------------------------------------------------
(* What the model calls given, unfit and set below, in these terms.        *)
LEMMA ReadingDomain ==
    ASSUME NEW m \in Mappings, NEW E, IsEntry(E), NEW R \in Readings(m, E)
    PROVE  DOMAIN R = DOMAIN E
<1>1. PICK S \in SUBSET Borrowed(m, E) : R = Turned(E, S)
  BY DEF Readings
<1> QED BY <1>1, BorrowedPlaces, TurnedDomain

(* Where every label is asked of labeled URIs, mapClaims reads labels as   *)
(* they are documented.                                                    *)
LEMMA LabelIs ==
    ASSUME IInv, LabelsFit, NEW R \in Readings(cfg, Labeled(entry)),
           NEW i \in DOMAIN cfg, NEW n \in DOMAIN cfg[i].alts,
           cfg[i].alts[n].attr \in DOMAIN R
    PROVE  DocAlt(cfg[i].alts[n], R) = AltValue(cfg[i].alts[n], R)
<1> DEFINE E == Labeled(entry)
           alt == cfg[i].alts[n]
<1>1. cfg \in Mappings /\ IsEntry(E)
  BY LabeledIs DEF IInv
<1>2. PICK S \in SUBSET Borrowed(cfg, E) : R = Turned(E, S)
  BY DEF Readings
<1>3. Turnable(E, S)
  BY <1>1, BorrowedPlaces
<1>4. alt.attr \in DOMAIN E
  BY <1>2, <1>3, TurnedDomain
<1>5. alt.label = "" \/ IsObj(E[alt.attr])
  BY <1>4 DEF LabelsFit, Mislabeled
<1>6. alt.label = "" \/ IsObj(R[alt.attr])
  BY <1>2, <1>3, <1>4, <1>5, TurnedObject
<1> DEFINE v == R[alt.attr]
<1> HIDE DEF alt, E
<1>7. Fetched(alt, R).val = DocLabel(alt, v)
  BY <1>6 DEF Fetched, DocLabel, Read
<1>8. DocClean(alt, R) = CleanValue(alt, R)
  BY <1>7, Zenon DEF DocClean, CleanValue
<1>9. DocAlt(alt, R) = AltValue(alt, R)
  BY <1>8, Zenon DEF DocAlt, AltValue
<1> QED BY <1>9 DEF alt

LEMMA DocumentedIs ==
    ASSUME IInv, LabelsFit, NEW R \in Readings(cfg, Labeled(entry)), NEW i \in DOMAIN cfg
    PROVE  DocValue(cfg[i], R) = ClaimValue(cfg[i], R)
<1> DEFINE claim == cfg[i]
           some == {n \in DOMAIN claim.alts : /\ claim.alts[n].attr \in DOMAIN R
                                              /\ DocAlt(claim.alts[n], R) # Null}
           yield == {n \in DOMAIN claim.alts : /\ claim.alts[n].attr \in DOMAIN R
                                               /\ AltValue(claim.alts[n], R) # Null}
<1>1. some = yield
  BY LabelIs
<1>2. some \in SUBSET Nat
  <2>1. claim \in Claims
    BY MappingIs DEF IInv
  <2> QED BY <2>1 DEF Claims
<1>3. DocFirst(claim, some, R) = FirstValue(claim, some, R)
  <2>1. CASE some = {}
    BY <2>1 DEF DocFirst, FirstValue
  <2>2. CASE some # {}
    <3>1. First(some) \in some
      BY <1>2, <2>2, FirstIs
    <3>2. DocAlt(claim.alts[First(some)], R) = AltValue(claim.alts[First(some)], R)
      BY <3>1, LabelIs
    <3> HIDE DEF some
    <3> QED BY <2>2, <3>2 DEF DocFirst, FirstValue, First
  <2> QED BY <2>1, <2>2
<1>4. /\ DocValue(claim, R) = DocForced(claim.name, DocFirst(claim, some, R))
      /\ ClaimValue(claim, R) = DocForced(claim.name, FirstValue(claim, yield, R))
  BY DEF DocValue, ClaimValue
<1> HIDE DEF some, yield
<1> QED BY <1>1, <1>3, <1>4 DEF claim

LEMMA GivenIs ==
    ASSUME IInv, LabelsFit
    PROVE  /\ GivenClaims = Giving(cfg, Labeled(entry))
           /\ \A i \in DOMAIN cfg :
                 DocValues[i] = {ClaimValue(cfg[i], R) : R \in Readings(cfg, Labeled(entry))}
<1> DEFINE E == Labeled(entry)
<1>1. E \in Readings(cfg, E)
  BY LabeledIs, EntryReading DEF IInv
<1>2. \A i \in DOMAIN cfg : DocValue(cfg[i], E) = ClaimValue(cfg[i], E)
  BY <1>1, DocumentedIs
<1>3. GivenClaims = Giving(cfg, E)
  BY <1>2 DEF GivenClaims, Giving
<1>4. ASSUME NEW i \in DOMAIN cfg
      PROVE  DocValues[i] = {ClaimValue(cfg[i], R) : R \in Readings(cfg, E)}
  <2>1. \A R \in Readings(cfg, E) : DocValue(cfg[i], R) = ClaimValue(cfg[i], R)
    BY DocumentedIs
  <2>2. DocValues[i] = {DocValue(cfg[i], R) : R \in Readings(cfg, E)}
    BY DEF DocValues
  <2> QED BY <2>1, <2>2
<1> QED BY <1>3, <1>4

LEMMA BaseIsOnBase ==
    ASSUME IInv, LabelsFit, NEW i \in DOMAIN cfg, NEW t
    PROVE  BaseIs(GivenClaims, DocValues, i, t) <=> OnBase(cfg, Labeled(entry), i, t)
<1> DEFINE E == Labeled(entry)
<1>1. cfg \in Mappings /\ IsEntry(E)
  BY LabeledIs DEF IInv
<1>2. ASSUME NEW j \in Giving(cfg, E)
      PROVE  (\A v \in DocValues[j] : v.t = t) <=> Kind(cfg, E, j) = t
  <2>1. j \in DOMAIN cfg
    BY <1>1, GivingIs
  <2>2. \A R \in Readings(cfg, E) : ClaimValue(cfg[j], R).t = Kind(cfg, E, j)
    BY <1>1, <2>1, ValueFacts
  <2>3. E \in Readings(cfg, E)
    BY <1>1, EntryReading
  <2>4. DocValues[j] = {ClaimValue(cfg[j], R) : R \in Readings(cfg, E)}
    BY <2>1, GivenIs
  <2>5. (\A v \in DocValues[j] : v.t = t) <=>
           \A R \in Readings(cfg, E) : ClaimValue(cfg[j], R).t = t
    BY <2>4
  <2> QED BY <2>2, <2>3, <2>5
<1>3. GivenClaims = Giving(cfg, E)
  BY GivenIs
<1> QED BY <1>2, <1>3 DEF BaseIs, Bases, OnBase

LEMMA UnfitIsBad ==
    ASSUME IInv, LabelsFit, NEW i \in DOMAIN cfg
    PROVE  Unfit(GivenClaims, DocValues, i) <=> Bad(cfg, Labeled(entry), i)
<1> DEFINE E == Labeled(entry)
<1>1. cfg \in Mappings /\ IsEntry(E)
  BY LabeledIs DEF IInv
<1>2. \A R \in Readings(cfg, E) : ClaimValue(cfg[i], R) = Throw <=> Kind(cfg, E, i) = "throw"
  BY <1>1, ValueFacts
<1>3. E \in Readings(cfg, E)
  BY <1>1, EntryReading
<1>4. DocValues[i] = {ClaimValue(cfg[i], R) : R \in Readings(cfg, E)}
  BY GivenIs
<1>5. Throw \in DocValues[i] <=> Kind(cfg, E, i) = "throw"
  BY <1>2, <1>3, <1>4
<1>6. BaseIs(GivenClaims, DocValues, i, "str") <=> OnBase(cfg, E, i, "str")
  BY BaseIsOnBase
<1>7. GivenClaims = Giving(cfg, E)
  BY GivenIs
<1> QED BY <1>5, <1>6, <1>7 DEF Unfit, Bad

LEMMA IInvTypeOK ==
    ASSUME IInv
    PROVE  TypeOK
<1> DEFINE E == Labeled(entry)
<1>1. /\ cfg \in Mappings /\ entry \in Entries /\ source \in Readings(cfg, E)
      /\ Owned(cfg, E, next, target)
      /\ next \in 1..(Len(cfg) + 1) /\ status \in {"mapping", "done", "threw"}
  BY DEF IInv
<1>2. IsEntry(E) /\ DOMAIN E = DOMAIN entry
  BY <1>1, LabeledIs
<1>3. DOMAIN source = DOMAIN E
  BY <1>1, <1>2, ReadingDomain
<1>4. ASSUME NEW name \in DOMAIN target
      PROVE  /\ Len(name) = 2 => Base(name) \in DOMAIN target
             /\ target[name].at = Nowhere \/ target[name].at[1] \in DOMAIN source
             /\ Current(target[name], source).t \in {"str", "arr", "obj"}
  <2>1. Len(name) = 2 => Base(name) \in DOMAIN target
    BY <1>1 DEF Owned
  <2>2. CASE target[name] = Made
    BY <2>1, <2>2, Kinds DEF Made, Read, Current
  <2>3. CASE target[name] # Made
    <3>1. PICK i \in Giving(cfg, E) : /\ Kind(cfg, E, i) # "throw"
                                      /\ target[name] \in Slots(cfg, E, i)
      BY <1>1, <2>3 DEF Owned
    <3>2. i \in DOMAIN cfg
      BY <1>1, GivingIs
    <3>3. target[name].at = Nowhere \/ target[name].at[1] \in DOMAIN E
      BY <1>1, <1>2, <3>1, <3>2, SlotFacts
    <3>4. Proper(Current(target[name], source))
      BY <1>1, <1>2, <3>1, <3>2, SlotKind
    <3> QED BY <1>3, <2>1, <3>3, <3>4 DEF Proper
  <2> QED BY <2>2, <2>3
<1> QED BY <1>1, <1>2, <1>3, <1>4 DEF TypeOK

(* Every claim that is set has a value, and one that mapClaims took by     *)
(* reference from the entry is still there.                                *)
THEOREM TypeCorrect == Spec => []TypeOK
<1>1. IInv => TypeOK
  BY IInvTypeOK
<1> QED BY <1>1, Inductive, PTL

(* mapClaims yields the result mapping/README.md describes, claim by       *)
(* claim, although claims share the entry's arrays and objects, wherever   *)
(* labels are asked of labeled URIs only.                                  *)
THEOREM Documented == Spec => []ClaimsAsDocumented
<1>1. ASSUME IInv PROVE ClaimsAsDocumented
  <2> DEFINE E == Labeled(entry)
  <2> SUFFICES ASSUME status = "done", LabelsFit
               PROVE  AsDocumented(GivenClaims, DocValues)
    BY DEF ClaimsAsDocumented
  <2>1. /\ cfg \in Mappings /\ source \in Readings(cfg, E) /\ IsEntry(E)
        /\ Owned(cfg, E, next, target)
        /\ next = Len(cfg) + 1 /\ PlainSet(cfg, E, next, target) /\ DottedSet(cfg, E, next, target)
    BY <1>1, LabeledIs DEF IInv, Mapped
  <2>2. GivenClaims = Giving(cfg, E)
    BY <1>1, GivenIs
  <2>3. \A i \in DOMAIN cfg : i < next /\ Len(cfg[i].name) \in {1, 2}
    BY <2>1, MappingIs
  <2>4. ASSUME NEW i \in DOMAIN cfg, Shown(GivenClaims, DocValues, i), Apart(i)
        PROVE  /\ cfg[i].name \in DOMAIN target
               /\ Current(target[cfg[i].name], source) \in DocValues[i]
    <3>1. i \in Giving(cfg, E) /\ i < next /\ (Len(cfg[i].name) = 1 \/ Len(cfg[i].name) = 2)
      BY <2>2, <2>3, <2>4 DEF Shown
    <3>2. ~OnBase(cfg, E, i, "arr")
      BY <1>1, <2>4, BaseIsOnBase DEF Shown
    <3>3. \A j \in Giving(cfg, E) : i < j => cfg[j].name # Base(cfg[i].name)
      <4>1. \A j \in Giving(cfg, E) : j > i => cfg[j].name # Base(cfg[i].name)
        BY <2>2, <2>4 DEF Shown
      <4>2. \A j \in Giving(cfg, E) : i < j => j > i
        BY <2>1, GivingIs
      <4> QED BY <4>1, <4>2
    <3>4. Aside(cfg, i)
      BY <2>4 DEF Apart, Aside
    <3>5. IsSet(cfg, E, target, i)
      <4>1. CASE Len(cfg[i].name) = 1
        BY <2>1, <3>1, <4>1 DEF PlainSet
      <4>2. CASE Len(cfg[i].name) = 2
        <5>1. Lasting(cfg, E, next, i)
          BY <3>2, <3>3, <3>4, <4>2 DEF Lasting
        <5> QED BY <2>1, <3>1, <5>1 DEF DottedSet
      <4> QED BY <3>1, <4>1, <4>2
    <3>6. /\ cfg[i].name \in DOMAIN target /\ target[cfg[i].name] \in Slots(cfg, E, i)
      BY <3>5 DEF IsSet
    <3>7. Current(target[cfg[i].name], source) \in {ClaimValue(cfg[i], R) : R \in Readings(cfg, E)}
      BY <2>1, <3>6, SlotFacts
    <3> QED BY <1>1, <3>6, <3>7, GivenIs
  <2>5. ASSUME NEW name \in DOMAIN target
        PROVE  \E i \in GivenClaims : name \in Places(cfg[i].name)
    <3>1. PICK i \in Giving(cfg, E) : name \in Own(cfg[i].name) \/ name = Base(cfg[i].name)
      BY <2>1 DEF Owned
    <3>2. name \in Places(cfg[i].name)
      BY <3>1 DEF Own, Places
    <3> QED BY <2>2, <3>2
  <2> QED BY <2>4, <2>5 DEF AsDocumented
<1> QED BY <1>1, Inductive, PTL

(* A mapping throws exactly when a conversion does not fit its value or a  *)
(* claim is set below a string.                                            *)
THEOREM OnlyUnfit == Spec => []FailsOnlyUnfit
<1>1. ASSUME IInv PROVE FailsOnlyUnfit
  <2> DEFINE E == Labeled(entry)
  <2> SUFFICES ASSUME LabelsFit PROVE FailsOnlyUnfit
    BY DEF FailsOnlyUnfit
  <2>1. SomeUnfit(GivenClaims, DocValues) <=> \E i \in DOMAIN cfg : Bad(cfg, E, i)
    BY <1>1, UnfitIsBad DEF SomeUnfit
  <2>2. CASE status = "threw"
    BY <1>1, <2>1, <2>2 DEF IInv, FailsOnlyUnfit
  <2>3. CASE status = "done"
    <3>1. cfg \in Mappings /\ next = Len(cfg) + 1 /\ Mapped(cfg, E, next, target)
      BY <1>1, <2>3 DEF IInv
    <3>2. \A i \in DOMAIN cfg : i < next
      BY <3>1, MappingIs
    <3>3. \A i \in DOMAIN cfg : ~Bad(cfg, E, i)
      BY <3>1, <3>2 DEF Mapped
    <3> QED BY <2>1, <2>3, <3>3 DEF FailsOnlyUnfit
  <2>4. CASE status = "mapping"
    BY <2>4 DEF FailsOnlyUnfit
  <2> QED BY <1>1, <2>2, <2>3, <2>4 DEF IInv
<1> QED BY <1>1, Inductive, PTL

(* The mapping that all entries share is as configured after every claim,  *)
(* although an assignment reverses its keys in place.                      *)
THEOREM MappingKept == Spec => [](map = cfg)
<1>1. IInv => map = cfg
  BY DEF IInv
<1> QED BY <1>1, Inductive, PTL

(* A plain attribute keeps its value while claims are taken from it, or    *)
(* has its list in reverse where some claim assigns from it uncopied.  The *)
(* labeled URIs are another matter: dotted claims are set in them.         *)
AttributesKept ==
    \A a \in DOMAIN entry \ {UriAttr} :
        \/ source[a] = entry[a]
        \/ /\ <<a, "">> \in Borrowed(cfg, Labeled(entry))
           /\ source[a] = Arr(Reverse(entry[a].es))

(* A claim changes what later claims read from a plain attribute only by   *)
(* reversing a list that it assigns from without a copy (map_claims.js,    *)
(* lines 80-104).                                                          *)
THEOREM PlainAttributesKept == Spec => []AttributesKept
<1>1. ASSUME IInv PROVE AttributesKept
  <2> DEFINE E == Labeled(entry)
  <2>1. cfg \in Mappings /\ entry \in Entries /\ source \in Readings(cfg, E)
    BY <1>1 DEF IInv
  <2>2. IsEntry(E) /\ DOMAIN E = DOMAIN entry
    BY <2>1, LabeledIs
  <2>3. PICK S \in SUBSET Borrowed(cfg, E) : source = Turned(E, S)
    BY <2>1 DEF Readings
  <2>4. Turnable(E, S)
    BY <2>1, <2>2, <2>3, BorrowedPlaces
  <2>5. ASSUME NEW a \in DOMAIN entry \ {UriAttr}
        PROVE  \/ source[a] = entry[a]
               \/ /\ <<a, "">> \in Borrowed(cfg, E)
                  /\ source[a] = Arr(Reverse(entry[a].es))
    <3>1. E[a] = entry[a]
      BY <2>5 DEF Labeled
    <3>2. ~IsObj(E[a])
      BY <2>2, <2>5 DEF IsEntry
    <3> HIDE DEF E
    <3>3. source[a] = Seen(E[a], <<a, "">>, S)
      BY <2>2, <2>3, <2>4, <3>2, TurnedText
    <3> QED BY <2>3, <3>1, <3>3 DEF Seen
  <2> QED BY <2>5 DEF AttributesKept
<1> QED BY <1>1, Inductive, PTL
=============================================================================
