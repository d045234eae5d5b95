--------------------------- MODULE GoScopeProofs ----------------------------
(***************************************************************************)
(* Theorems about GoScope, for any function go/parser and gofmt leave and  *)
(* any cursor in its body: what is offered as visible is in scope, and     *)
(* where the code looks, it is the innermost declaration of every variable *)
(* in scope.  What is shown of lists here serves RequestContextProofs too. *)
(***************************************************************************)
EXTENDS GoScope, FiniteSetTheorems, SequenceTheorems, NaturalsInduction,
        WellFoundedInduction, TLAPS

-----------------------------------------------------------------------------
(* Numbers and sequences. *)

\* Min and Max are what they are called.
LEMMA MinIs ==
    ASSUME NEW S \in SUBSET Int, NEW x \in S, \A y \in S : x <= y
    PROVE  Min(S) = x
<1>1. \A z \in S : (\A y \in S : z <= y) => z = x
  OBVIOUS
<1> QED BY <1>1 DEF Min

LEMMA MaxIs ==
    ASSUME NEW S \in SUBSET Int, NEW x \in S, \A y \in S : x >= y
    PROVE  Max(S) = x
<1>1. \A z \in S : (\A y \in S : z >= y) => z = x
  OBVIOUS
<1> QED BY <1>1 DEF Max

LEMMA MinOfTwo ==
    ASSUME NEW a \in Int, NEW b \in Int
    PROVE  Min({a, b}) = IF a <= b THEN a ELSE b
<1>1. CASE a <= b
  BY <1>1, MinIs
<1>2. CASE ~ (a <= b)
  BY <1>2, MinIs
<1> QED BY <1>1, <1>2

LEMMA MaxOfTwo ==
    ASSUME NEW a \in Int, NEW b \in Int
    PROVE  Max({a, b}) = IF a >= b THEN a ELSE b
<1>1. CASE a >= b
  BY <1>1, MaxIs
<1>2. CASE ~ (a >= b)
  BY <1>2, MaxIs
<1> QED BY <1>1, <1>2

\* A set of naturals that is not empty has a least element.
LEMMA MinOfSet ==
    ASSUME NEW S \in SUBSET Nat, S # {}
    PROVE  Min(S) \in S /\ \A y \in S : Min(S) <= y
<1>1. \E x \in S : \A y \in S : <<y, x>> \notin OpToRel(<, Nat)
  BY NatLessThanWellFounded, WFMin
<1>2. \A x, y \in Nat : <<y, x>> \notin OpToRel(<, Nat) => x <= y
  BY DEF OpToRel
<1>3. PICK x \in S : \A y \in S : x <= y
  BY <1>1, <1>2
<1>4. Min(S) = x
  BY <1>3, MinIs
<1> QED BY <1>3, <1>4

LEMMA IntervalSize ==
    ASSUME NEW n \in Nat
    PROVE  IsFiniteSet(1 .. n) /\ Cardinality(1 .. n) = n
<1> DEFINE one == 1
<1>1. one \in Int /\ n \in Int /\ n - one + 1 = n /\ (one > n => n = 0)
  OBVIOUS
<1> HIDE DEF one
<1>2. IsFiniteSet(one .. n) /\ Cardinality(one .. n) = IF one > n THEN 0 ELSE n - one + 1
  BY <1>1, FS_Interval
<1> QED BY <1>1, <1>2 DEF one

\* The sequences of the elements of a finite set, each of them once.
LEMMA SeqsOfSet ==
    ASSUME NEW S, IsFiniteSet(S), NEW s \in SetToSeqs(S)
    PROVE  LET n == Cardinality(S)
           IN  /\ n \in Nat /\ s \in Seq(S) /\ Len(s) = n /\ DOMAIN s = 1 .. n
               /\ {s[k] : k \in 1 .. n} = S
               /\ \A i, j \in 1 .. n : s[i] = s[j] => i = j
<1> DEFINE n == Cardinality(S)
<1>1. n \in Nat
  BY FS_CardinalityType
<1>2. s \in [1 .. n -> S] /\ \A i, j \in 1 .. n : s[i] = s[j] => i = j
  BY DEF SetToSeqs
<1> HIDE DEF n
<1>3. s \in Seq(S) /\ DOMAIN s = 1 .. n
  BY <1>1, <1>2, SeqDef
<1>4. Len(s) = n
  BY <1>1, <1>3, LenProperties
<1>5. s \in Injection(1 .. n, S)
  BY <1>2 DEF Injection, IsInjective
<1>6. IsFiniteSet(1 .. n) /\ Cardinality(1 .. n) = n
  BY <1>1, IntervalSize
<1>7. s \in Surjection(1 .. n, S)
  BY <1>5, <1>6, FS_Injection DEF n
<1>8. {s[k] : k \in 1 .. n} = S
  BY <1>2, <1>7 DEF Surjection
<1> QED BY <1>1, <1>2, <1>3, <1>4, <1>8 DEF n

\* A part of a sequence.
LEMMA Part ==
    ASSUME NEW X, NEW s \in Seq(X), NEW i \in Nat \ {0}, NEW j \in Nat, j <= Len(s)
    PROVE  /\ SubSeq(s, i, j) \in Seq(X)
           /\ Len(SubSeq(s, i, j)) = IF i <= j THEN j - i + 1 ELSE 0
           /\ \A k \in 1 .. j - i + 1 : SubSeq(s, i, j)[k] = s[i + k - 1]
<1>1. \A k \in i .. j : s[k] \in X
  BY LenProperties, ElementOfSeq
<1>2. i \in Int /\ j \in Int
  OBVIOUS
<1> QED BY <1>1, <1>2, SubSeqProperties

-----------------------------------------------------------------------------
(* Lists: concatenated, filtered, arranged. *)

(***************************************************************************)
(* A set that holds 0 and, with each number below n, the next, holds all   *)
(* of 0 .. n: induction as a fact about sets.                              *)
(***************************************************************************)
LEMMA Induction ==
    ASSUME NEW n \in Nat, NEW S, 0 \in S, \A i \in 1 .. n : i - 1 \in S => i \in S
    PROVE  0 .. n \subseteq S
<1> DEFINE Bad == {i \in 0 .. n : i \notin S}
<1> SUFFICES ASSUME Bad # {} PROVE FALSE
  OBVIOUS
<1>1. Bad \in SUBSET Nat
  OBVIOUS
<1>2. Min(Bad) \in Bad /\ \A y \in Bad : Min(Bad) <= y
  <2> HIDE DEF Bad
  <2> QED BY <1>1, MinOfSet
<1> DEFINE x == Min(Bad)
<1> HIDE DEF x
<1>3. x \in 0 .. n /\ x \notin S /\ \A y \in Bad : x <= y
  BY <1>2 DEF x
<1>4. x \in 1 .. n /\ x - 1 \notin Bad /\ x - 1 \in 0 .. n
  BY <1>3
<1> QED BY <1>3, <1>4

LEMMA ListFacts ==
    ASSUME NEW list, IsList(list)
    PROVE  /\ Len(list) \in Nat /\ DOMAIN list = 1 .. Len(list)
           /\ \A i \in 1 .. Len(list) : list[i] \in Range(list)
           /\ \A x \in Range(list) : \E i \in 1 .. Len(list) : x = list[i]
<1>1. list \in Seq(Range(list))
  BY DEF IsList
<1>2. Len(list) \in Nat /\ DOMAIN list = 1 .. Len(list)
  BY <1>1, LenProperties
<1> QED BY <1>2 DEF Range

\* A function on 1 .. n is a list.
LEMMA ListOfFunction ==
    ASSUME NEW n \in Nat, NEW f, f = [i \in 1 .. n |-> f[i]]
    PROVE  IsList(f) /\ Len(f) = n
<1>1. f \in [1 .. n -> Range(f)]
  BY DEF Range
<1>2. f \in Seq(Range(f))
  BY <1>1, SeqDef
<1>3. Len(f) \in Nat /\ DOMAIN f = 1 .. Len(f)
  BY <1>2, LenProperties
<1>4. DOMAIN f = 1 .. n
  OBVIOUS
<1>5. Len(f) = n
  BY <1>3, <1>4
<1> QED BY <1>2, <1>5 DEF IsList

LEMMA ListAsFunction ==
    ASSUME NEW list, IsList(list)
    PROVE  list = [k \in 1 .. Len(list) |-> list[k]]
<1>1. list \in Seq(Range(list))
  BY DEF IsList
<1>2. list \in [1 .. Len(list) -> Range(list)]
  BY <1>1, LenProperties
<1> QED BY <1>2

\* The list a of lists, laid end to end: list i begins after base[i].
Lists(ss, n) ==
    /\ n \in Nat /\ ss = [i \in 1 .. n |-> ss[i]]
    /\ \A i \in 1 .. n : IsList(ss[i])

Flat(r, ss, n, base) ==
    /\ IsList(r)
    /\ \A i \in 1 .. n : base[i] \in Nat /\ base[i] + Len(ss[i]) <= Len(r)
    /\ \A i \in 1 .. n : \A k \in 1 .. Len(ss[i]) : r[base[i] + k] = ss[i][k]
    /\ \A m \in 1 .. Len(r) : \E i \in 1 .. n : \E k \in 1 .. Len(ss[i]) : m = base[i] + k
    /\ \A i, j \in 1 .. n : i < j => base[i] + Len(ss[i]) <= base[j]

\* FlattenSeq, a list at a time.
LEMMA FlattenSteps ==
    ASSUME NEW ss, NEW n \in Nat \ {0}, Len(ss) = n
    PROVE  \E f : /\ FlattenSeq(ss) = f[n] /\ f[1] = ss[1]
                  /\ \A i \in 2 .. n : f[i] = f[i - 1] \o ss[i]
<1> DEFINE Upto(m, g) == g = [i \in 1 .. m |-> IF i = 1 THEN ss[i] ELSE g[i - 1] \o ss[i]]
           S == {m \in 0 .. n : \E g : Upto(m, g)}
<1>1. 0 \in S
  <2>1. Upto(0, [i \in 1 .. 0 |-> ss])
    BY SMT
  <2>2. 0 \in 0 .. n
    OBVIOUS
  <2> HIDE DEF Upto
  <2> QED BY <2>1, <2>2
<1>2. ASSUME NEW m \in 1 .. n, m - 1 \in S PROVE m \in S
  <2>1. PICK g : Upto(m - 1, g)
    BY <1>2
  <2> DEFINE h == [i \in 1 .. m |-> IF i < m THEN g[i]
                                     ELSE IF i = 1 THEN ss[i] ELSE g[i - 1] \o ss[i]]
  <2>2. ASSUME NEW i \in 1 .. m PROVE h[i] = IF i = 1 THEN ss[i] ELSE h[i - 1] \o ss[i]
    <3>1. i # 1 => i - 1 \in 1 .. m /\ i - 1 < m
      OBVIOUS
    <3>2. i # 1 => h[i - 1] = g[i - 1]
      BY <3>1
    <3>3. CASE i < m
      <4>1. i \in 1 .. m - 1 /\ h[i] = g[i]
        BY <3>3
      <4>2. g[i] = IF i = 1 THEN ss[i] ELSE g[i - 1] \o ss[i]
        BY <2>1, <4>1
      <4> HIDE DEF h, Upto
      <4> QED BY <3>2, <4>1, <4>2
    <3>4. CASE ~ (i < m)
      <4>1. h[i] = IF i = 1 THEN ss[i] ELSE g[i - 1] \o ss[i]
        BY <3>4
      <4> HIDE DEF h, Upto
      <4> QED BY <3>2, <4>1
    <3> QED BY <3>3, <3>4
  <2>3. Upto(m, h)
    BY <2>2
  <2> HIDE DEF Upto, h
  <2> QED BY <2>3
<1>3. n \in S
  <2>1. n \in 0 .. n
    OBVIOUS
  <2> HIDE DEF S
  <2> QED BY <1>1, <1>2, <2>1, Induction
<1>4. \E g : g = [i \in 1 .. Len(ss) |-> IF i = 1 THEN ss[i] ELSE g[i - 1] \o ss[i]]
  BY <1>3
<1> DEFINE f == CHOOSE g : g = [i \in 1 .. Len(ss) |-> IF i = 1 THEN ss[i] ELSE g[i - 1] \o ss[i]]
<1>5. f = [i \in 1 .. Len(ss) |-> IF i = 1 THEN ss[i] ELSE f[i - 1] \o ss[i]]
  BY <1>4, Zenon
<1>6. Len(ss) # 0
  OBVIOUS
<1>7. FlattenSeq(ss) = f[Len(ss)]
  BY <1>6, Zenon DEF FlattenSeq
<1> HIDE DEF f
<1>8. 1 \in 1 .. n /\ \A i \in 2 .. n : i \in 1 .. n /\ i # 1
  OBVIOUS
<1>9. \A i \in 1 .. n : f[i] = IF i = 1 THEN ss[i] ELSE f[i - 1] \o ss[i]
  BY <1>5
<1>10. f[1] = ss[1] /\ \A i \in 2 .. n : f[i] = f[i - 1] \o ss[i]
  BY <1>8, <1>9
<1> QED BY <1>7, <1>10

LEMMA FlatEmpty ==
    ASSUME NEW ss, NEW base
    PROVE  Flat(<<>>, ss, 0, base)
<1>1. Len(<<>>) = 0 /\ DOMAIN <<>> = 1 .. 0
  BY SMT
<1>2. IsList(<<>>)
  BY EmptySeq DEF IsList
<1> QED BY <1>1, <1>2 DEF Flat

\* One more list, put behind the others.
LEMMA FlatStep ==
    ASSUME NEW ss, NEW n \in Nat \ {0}, Lists(ss, n), NEW m \in 1 .. n,
           NEW r, NEW base, Flat(r, ss, m - 1, base)
    PROVE  Flat(r \o ss[m], ss, m, [i \in 1 .. n |-> IF i = m THEN Len(r) ELSE base[i]])
<1> DEFINE q == r \o ss[m]
           b == [i \in 1 .. n |-> IF i = m THEN Len(r) ELSE base[i]]
           X == Range(r) \cup Range(ss[m])
<1>1. IsList(r) /\ IsList(ss[m])
  BY DEF Flat, Lists
<1>2. r \in Seq(X) /\ ss[m] \in Seq(X)
  BY <1>1, SeqMonotonic DEF IsList
<1>3. /\ q \in Seq(X) /\ Len(q) = Len(r) + Len(ss[m])
      /\ \A i \in 1 .. Len(r) + Len(ss[m]) : q[i] = IF i <= Len(r) THEN r[i] ELSE ss[m][i - Len(r)]
  BY <1>2, ConcatProperties
<1>4. Len(r) \in Nat /\ Len(ss[m]) \in Nat
  BY <1>1, ListFacts
<1>5. IsList(q)
  BY <1>3, SeqOfRange DEF IsList
<1>6. \A i \in 1 .. m - 1 : /\ i \in 1 .. n /\ i # m /\ b[i] = base[i] /\ base[i] \in Nat
                            /\ base[i] + Len(ss[i]) <= Len(r)
                            /\ Len(ss[i]) \in Nat
  <2>1. \A i \in 1 .. m - 1 : i \in 1 .. n /\ i # m
    OBVIOUS
  <2>2. \A i \in 1 .. m - 1 : IsList(ss[i])
    BY <2>1 DEF Lists
  <2> QED BY <2>1, <2>2, ListFacts DEF Flat
<1>7. b[m] = Len(r)
  OBVIOUS
<1>8. \A i \in 1 .. m : i = m \/ i \in 1 .. m - 1
  OBVIOUS
<1> HIDE DEF q, b, X
<1>9. \A i \in 1 .. m : b[i] \in Nat /\ b[i] + Len(ss[i]) <= Len(q)
  <2>1. b[m] \in Nat /\ b[m] + Len(ss[m]) <= Len(q)
    BY <1>3, <1>4, <1>7
  <2>2. ASSUME NEW i \in 1 .. m - 1 PROVE b[i] \in Nat /\ b[i] + Len(ss[i]) <= Len(q)
    <3>1. b[i] = base[i] /\ base[i] \in Nat /\ base[i] + Len(ss[i]) <= Len(r) /\ Len(ss[i]) \in Nat
      BY <1>6
    <3> QED BY <1>3, <1>4, <3>1
  <2> QED BY <1>8, <2>1, <2>2
<1>10. ASSUME NEW i \in 1 .. m, NEW k \in 1 .. Len(ss[i]) PROVE q[b[i] + k] = ss[i][k]
  <2>1. CASE i = m
    <3>1. b[i] + k \in 1 .. Len(r) + Len(ss[m]) /\ ~ (b[i] + k <= Len(r)) /\ (b[i] + k) - Len(r) = k
      BY <1>4, <1>7, <2>1
    <3> QED BY <1>3, <2>1, <3>1
  <2>2. CASE i \in 1 .. m - 1
    <3>1. b[i] = base[i] /\ base[i] \in Nat /\ base[i] + Len(ss[i]) <= Len(r) /\ Len(ss[i]) \in Nat
      BY <1>6, <2>2
    <3>2. b[i] + k \in 1 .. Len(r) + Len(ss[m]) /\ b[i] + k <= Len(r)
      <4>1. k \in Nat /\ 1 <= k /\ k <= Len(ss[i]) /\ b[i] \in Nat /\ b[i] + Len(ss[i]) <= Len(r)
        BY <3>1
      <4> QED BY SMTT(30), <1>4, <3>1, <4>1
    <3>3. r[base[i] + k] = ss[i][k]
      BY <2>2 DEF Flat
    <3> QED BY SMTT(30), <1>3, <3>1, <3>2, <3>3
  <2> QED BY <1>8, <2>1, <2>2
<1>11. ASSUME NEW p \in 1 .. Len(q) PROVE \E i \in 1 .. m : \E k \in 1 .. Len(ss[i]) : p = b[i] + k
  <2>1. CASE p <= Len(r)
    <3>1. p \in 1 .. Len(r)
      BY <1>3, <1>4, <2>1
    <3>2. PICK i \in 1 .. m - 1 : \E k \in 1 .. Len(ss[i]) : p = base[i] + k
      BY <3>1 DEF Flat
    <3>3. i \in 1 .. m /\ b[i] = base[i]
      BY <1>6
    <3> QED BY <3>2, <3>3
  <2>2. CASE ~ (p <= Len(r))
    <3>1. p - Len(r) \in 1 .. Len(ss[m]) /\ p = b[m] + (p - Len(r))
      BY <1>3, <1>4, <1>7, <2>2
    <3>2. m \in 1 .. m
      OBVIOUS
    <3> QED BY <3>1, <3>2
  <2> QED BY <2>1, <2>2
<1>12. ASSUME NEW i \in 1 .. m, NEW j \in 1 .. m, i < j PROVE b[i] + Len(ss[i]) <= b[j]
  <2>1. i \in 1 .. m - 1
    BY <1>12
  <2>2. CASE j = m
    BY <1>6, <1>7, <2>1, <2>2
  <2>3. CASE j \in 1 .. m - 1
    <3>1. base[i] + Len(ss[i]) <= base[j]
      BY <1>12, <2>1, <2>3 DEF Flat
    <3> QED BY <1>6, <2>1, <2>3, <3>1
  <2> QED BY <1>8, <2>2, <2>3
<1>13. Flat(q, ss, m, b)
  BY <1>5, <1>9, <1>10, <1>11, <1>12 DEF Flat
<1> QED BY <1>13 DEF q, b

LEMMA FlattenFacts ==
    ASSUME NEW n, NEW ss, Lists(ss, n)
    PROVE  \E base : Flat(FlattenSeq(ss), ss, n, base)
<1>1. n \in Nat /\ ss = [i \in 1 .. n |-> ss[i]] /\ \A i \in 1 .. n : IsList(ss[i])
  BY DEF Lists
<1>2. IsList(ss) /\ Len(ss) = n
  BY <1>1, ListOfFunction
<1>3. CASE n = 0
  <2>1. FlattenSeq(ss) = ss
    BY <1>2, <1>3 DEF FlattenSeq
  <2>2. ss = <<>>
    BY <1>2, <1>3, EmptySeq DEF IsList
  <2>3. Flat(<<>>, ss, 0, ss)
    BY FlatEmpty
  <2> QED BY <1>3, <2>1, <2>2, <2>3
<1>4. CASE n # 0
  <2>1. PICK f : /\ FlattenSeq(ss) = f[n] /\ f[1] = ss[1]
                 /\ \A i \in 2 .. n : f[i] = f[i - 1] \o ss[i]
    <3>1. n \in Nat \ {0} /\ Len(ss) = n
      BY <1>1, <1>2, <1>4
    <3> QED BY <3>1, FlattenSteps, Zenon
  <2> DEFINE S == {i \in 0 .. n : i = 0 \/ \E base : Flat(f[i], ss, i, base)}
  <2>2. 0 \in S
    BY <1>1
  <2>3. ASSUME NEW m \in 1 .. n, m - 1 \in S PROVE m \in S
    <3>1. CASE m = 1
      <4>1. Flat(<<>>, ss, m - 1, ss)
        BY <3>1, FlatEmpty
      <4>2. IsList(ss[m])
        BY <1>1
      <4>3. <<>> \o ss[m] = ss[m]
        BY <4>2, ConcatEmptySeq DEF IsList
      <4>4. \E base : Flat(<<>> \o ss[m], ss, m, base)
        BY <1>1, <1>4, <4>1, FlatStep
      <4>5. f[m] = ss[m]
        BY <2>1, <3>1
      <4>6. m \in 0 .. n
        BY <1>1
      <4> QED BY <4>3, <4>4, <4>5, <4>6
    <3>2. CASE m # 1
      <4>1. m - 1 # 0 /\ m \in 2 .. n
        BY <3>2
      <4>2. PICK base : Flat(f[m - 1], ss, m - 1, base)
        BY <2>3, <4>1
      <4>3. \E b : Flat(f[m - 1] \o ss[m], ss, m, b)
        BY <1>1, <1>4, <4>2, FlatStep
      <4>4. f[m] = f[m - 1] \o ss[m]
        BY <2>1, <4>1
      <4>5. m \in 0 .. n
        BY <1>1
      <4> QED BY <4>3, <4>4, <4>5
    <3> QED BY <3>1, <3>2
  <2>4. n \in S
    <3> HIDE DEF S
    <3>1. n \in 0 .. n
      BY <1>1
    <3> QED BY <1>1, <2>2, <2>3, <3>1, Induction
  <2> QED BY <1>4, <2>1, <2>4
<1> QED BY <1>3, <1>4

\* Laid end to end, lists keep their elements and add no others.
LEMMA FlatRange ==
    ASSUME NEW n, NEW ss, Lists(ss, n), NEW r, NEW base, Flat(r, ss, n, base)
    PROVE  Range(r) = UNION {Range(ss[i]) : i \in 1 .. n}
<1>1. IsList(r)
  BY DEF Flat
<1>2. ASSUME NEW x \in Range(r) PROVE \E i \in 1 .. n : x \in Range(ss[i])
  <2>1. PICK m \in 1 .. Len(r) : x = r[m]
    BY <1>1, ListFacts
  <2>2. PICK i \in 1 .. n : \E k \in 1 .. Len(ss[i]) : m = base[i] + k
    BY DEF Flat
  <2>3. PICK k \in 1 .. Len(ss[i]) : m = base[i] + k
    BY <2>2
  <2>4. x = ss[i][k]
    BY <2>1, <2>3 DEF Flat
  <2> QED BY <2>4, ListFacts DEF Lists
<1>3. ASSUME NEW i \in 1 .. n, NEW x \in Range(ss[i]) PROVE x \in Range(r)
  <2>1. IsList(ss[i])
    BY DEF Lists
  <2>2. PICK k \in 1 .. Len(ss[i]) : x = ss[i][k]
    BY <2>1, ListFacts
  <2>3. x = r[base[i] + k]
    BY <2>2 DEF Flat
  <2>4. base[i] + k \in 1 .. Len(r)
    BY <1>1, <2>1, ListFacts DEF Flat
  <2> QED BY <1>1, <2>3, <2>4, ListFacts
<1> QED BY <1>2, <1>3

\* A place in the whole comes from one place in one list.
LEMMA FlatOnce ==
    ASSUME NEW n, NEW ss, Lists(ss, n), NEW r, NEW base, Flat(r, ss, n, base),
           NEW i \in 1 .. n, NEW k \in 1 .. Len(ss[i]),
           NEW j \in 1 .. n, NEW l \in 1 .. Len(ss[j]),
           base[i] + k = base[j] + l
    PROVE  i = j /\ k = l
<1>1. IsList(ss[i]) /\ IsList(ss[j]) /\ n \in Nat
  BY DEF Lists
<1>2. Len(ss[i]) \in Nat /\ Len(ss[j]) \in Nat
  BY <1>1, ListFacts
<1>3. base[i] \in Nat /\ base[j] \in Nat
  BY DEF Flat
<1>4. i < j => base[i] + Len(ss[i]) <= base[j]
  BY DEF Flat
<1>5. j < i => base[j] + Len(ss[j]) <= base[i]
  BY DEF Flat
<1>6. i = j
  BY SMTT(30), <1>1, <1>2, <1>3, <1>4, <1>5
<1> QED BY <1>2, <1>3, <1>6

\* h lists every element of S once.
Enumerates(h, n, S) ==
    /\ n \in Nat /\ h \in [1 .. n -> S]
    /\ \A i, j \in 1 .. n : h[i] = h[j] => i = j
    /\ \A x \in S : \E k \in 1 .. n : h[k] = x

LEMMA EnumeratesSize ==
    ASSUME NEW h, NEW n, NEW S, Enumerates(h, n, S)
    PROVE  IsFiniteSet(S) /\ Cardinality(S) = n
<1>1. /\ n \in Nat /\ h \in [1 .. n -> S]
      /\ \A i, j \in 1 .. n : h[i] = h[j] => i = j
      /\ \A x \in S : \E k \in 1 .. n : h[k] = x
  BY DEF Enumerates
<1>2. h \in Injection(1 .. n, S)
  BY <1>1 DEF Injection, IsInjective
<1>3. h \in Surjection(1 .. n, S)
  BY <1>1 DEF Surjection
<1>4. h \in Bijection(1 .. n, S)
  BY <1>2, <1>3 DEF Bijection
<1>5. IsFiniteSet(1 .. n) /\ Cardinality(1 .. n) = n
  BY <1>1, IntervalSize
<1> QED BY <1>4, <1>5, FS_Bijection DEF ExistsBijection

(***************************************************************************)
(* The places in the lists, told apart by the names of the lists, in the   *)
(* order of the whole.                                                     *)
(***************************************************************************)
Slots(name, ss, n) == UNION {{name[i]} \X (DOMAIN ss[i]) : i \in 1 .. n}

Slotted(g, r, ss, n, base, name) ==
    /\ Enumerates(g, Len(r), Slots(name, ss, n))
    /\ \A m \in 1 .. Len(r) : \E i \in 1 .. n :
          /\ g[m][1] = name[i] /\ g[m][2] \in 1 .. Len(ss[i])
          /\ r[m] = ss[i][g[m][2]] /\ m = base[i] + g[m][2]

LEMMA FlatSlots ==
    ASSUME NEW n, NEW ss, Lists(ss, n), NEW r, NEW base, Flat(r, ss, n, base),
           NEW name, \A i, j \in 1 .. n : name[i] = name[j] => i = j
    PROVE  \E g : Slotted(g, r, ss, n, base, name)
<1> DEFINE slots == UNION {{name[i]} \X (DOMAIN ss[i]) : i \in 1 .. n}
           At(s, m) == \E i \in 1 .. n : \E k \in 1 .. Len(ss[i]) :
                          s = <<name[i], k>> /\ m = base[i] + k
           g == [m \in 1 .. Len(r) |-> CHOOSE s \in slots : At(s, m)]
<1>1. IsList(r) /\ Len(r) \in Nat
  BY ListFacts DEF Flat
<1>2. \A i \in 1 .. n : DOMAIN ss[i] = 1 .. Len(ss[i]) /\ Len(ss[i]) \in Nat
  BY ListFacts DEF Lists
<1>3. ASSUME NEW m \in 1 .. Len(r) PROVE g[m] \in slots /\ At(g[m], m)
  <2>1. PICK i \in 1 .. n : \E k \in 1 .. Len(ss[i]) : m = base[i] + k
    BY DEF Flat
  <2>2. PICK k \in 1 .. Len(ss[i]) : m = base[i] + k
    BY <2>1
  <2>3. <<name[i], k>> \in slots
    BY <1>2
  <2>4. At(<<name[i], k>>, m)
    BY <2>2
  <2>5. \E s \in slots : At(s, m)
    BY <2>3, <2>4
  <2> HIDE DEF slots, At
  <2> QED BY <2>5
<1>4. ASSUME NEW m \in 1 .. Len(r), NEW p \in 1 .. Len(r), g[m] = g[p] PROVE m = p
  <2>1. At(g[m], m) /\ At(g[p], p)
    BY <1>3
  <2> HIDE DEF g
  <2>2. PICK i \in 1 .. n : \E k \in 1 .. Len(ss[i]) : g[m] = <<name[i], k>> /\ m = base[i] + k
    BY <2>1
  <2>3. PICK j \in 1 .. n : \E l \in 1 .. Len(ss[j]) : g[p] = <<name[j], l>> /\ p = base[j] + l
    BY <2>1
  <2>4. PICK k \in 1 .. Len(ss[i]) : g[m] = <<name[i], k>> /\ m = base[i] + k
    BY <2>2
  <2>5. PICK l \in 1 .. Len(ss[j]) : g[p] = <<name[j], l>> /\ p = base[j] + l
    BY <2>3
  <2>6. name[i] = name[j] /\ k = l
    <3>1. <<name[i], k>> = <<name[j], l>>
      BY <1>4, <2>4, <2>5
    <3> QED BY <3>1
  <2> QED BY <2>4, <2>5, <2>6
<1>5. ASSUME NEW s \in slots PROVE \E m \in 1 .. Len(r) : g[m] = s
  <2>1. PICK i \in 1 .. n : s \in {name[i]} \X (DOMAIN ss[i])
    BY <1>5
  <2>2. PICK k \in 1 .. Len(ss[i]) : s = <<name[i], k>>
    BY <1>2, <2>1
  <2> DEFINE m == base[i] + k
  <2>3. m \in 1 .. Len(r)
    BY SMTT(30), <1>1, <1>2 DEF Flat
  <2>4. At(g[m], m)
    BY <1>3, <2>3
  <2> HIDE DEF g, m
  <2>5. PICK j \in 1 .. n : \E l \in 1 .. Len(ss[j]) : g[m] = <<name[j], l>> /\ m = base[j] + l
    BY <2>4
  <2>6. PICK l \in 1 .. Len(ss[j]) : g[m] = <<name[j], l>> /\ m = base[j] + l
    BY <2>5
  <2>7. i = j /\ k = l
    BY <2>6, FlatOnce DEF m
  <2> QED BY <2>2, <2>3, <2>6, <2>7
<1>6. g \in [1 .. Len(r) -> slots]
  BY <1>3
<1>7. slots = Slots(name, ss, n)
  BY DEF Slots
<1> HIDE DEF slots, g
<1>8. Enumerates(g, Len(r), slots)
  BY <1>1, <1>4, <1>5, <1>6 DEF Enumerates
<1>9. ASSUME NEW m \in 1 .. Len(r)
      PROVE  \E i \in 1 .. n : /\ g[m][1] = name[i] /\ g[m][2] \in 1 .. Len(ss[i])
                               /\ r[m] = ss[i][g[m][2]] /\ m = base[i] + g[m][2]
  <2>1. At(g[m], m)
    BY <1>3
  <2>2. PICK i \in 1 .. n : \E k \in 1 .. Len(ss[i]) : g[m] = <<name[i], k>> /\ m = base[i] + k
    BY <2>1
  <2>3. PICK k \in 1 .. Len(ss[i]) : g[m] = <<name[i], k>> /\ m = base[i] + k
    BY <2>2
  <2>4. r[base[i] + k] = ss[i][k]
    BY DEF Flat
  <2>5. g[m][1] = name[i] /\ g[m][2] = k
    BY <2>3
  <2> QED BY <2>3, <2>4, <2>5
<1> QED BY <1>7, <1>8, <1>9 DEF Slotted

LEMMA FlatSize ==
    ASSUME NEW n, NEW ss, Lists(ss, n), NEW r, NEW base, Flat(r, ss, n, base),
           NEW name, \A i, j \in 1 .. n : name[i] = name[j] => i = j
    PROVE  Cardinality(UNION {{name[i]} \X (DOMAIN ss[i]) : i \in 1 .. n}) = Len(r)
<1>1. PICK g : Slotted(g, r, ss, n, base, name)
  BY FlatSlots
<1>2. Cardinality(Slots(name, ss, n)) = Len(r)
  BY <1>1, EnumeratesSize DEF Slotted
<1> QED BY <1>2 DEF Slots

\* A filter keeps what is in S, in one list.
Filtered(list, S) ==
    FlattenSeq([i \in DOMAIN list |-> IF list[i] \in S THEN <<list[i]>> ELSE <<>>])

LEMMA FilterFacts ==
    ASSUME NEW list, IsList(list), NEW S
    PROVE  IsList(Filtered(list, S)) /\ Range(Filtered(list, S)) = Range(list) \cap S
<1> DEFINE n == Len(list)
           ss == [i \in DOMAIN list |-> IF list[i] \in S THEN <<list[i]>> ELSE <<>>]
           r == FlattenSeq(ss)
<1>1. n \in Nat /\ DOMAIN list = 1 .. n /\ Range(list) = {list[i] : i \in 1 .. n}
  BY ListFacts DEF Range
<1>2. \A i \in 1 .. n : /\ list[i] \in S => ss[i] = <<list[i]>>
                        /\ list[i] \notin S => ss[i] = <<>>
  BY <1>1
<1>3. ASSUME NEW x PROVE IsList(<<x>>) /\ Range(<<x>>) = {x}
  BY DEF IsList, Range
<1>4. IsList(<<>>) /\ Range(<<>>) = {}
  BY EmptySeq DEF IsList, Range
<1>5. \A i \in 1 .. n : IsList(ss[i]) /\ Range(ss[i]) = {list[i]} \cap S
  BY <1>2, <1>3, <1>4
<1>6. ss = [i \in 1 .. n |-> ss[i]]
  BY <1>1
<1> HIDE DEF ss
<1>7. Lists(ss, n)
  BY <1>1, <1>5, <1>6 DEF Lists
<1>8. PICK base : Flat(r, ss, n, base)
  BY <1>7, FlattenFacts
<1>9. Range(r) = UNION {Range(ss[i]) : i \in 1 .. n}
  BY <1>7, <1>8, FlatRange
<1>10. IsList(r)
  BY <1>8 DEF Flat
<1> HIDE DEF r, n
<1>11. Range(r) = Range(list) \cap S
  BY <1>1, <1>5, <1>9
<1> QED BY <1>10, <1>11 DEF r, ss, Filtered

LEMMA MapFacts ==
    ASSUME NEW list, IsList(list), NEW f, f = [i \in DOMAIN list |-> f[i]]
    PROVE  /\ IsList(f) /\ Len(f) = Len(list)
           /\ Range(f) = {f[i] : i \in 1 .. Len(list)}
<1>1. Len(list) \in Nat /\ DOMAIN list = 1 .. Len(list)
  BY ListFacts
<1> DEFINE n == Len(list)
<1>2. n \in Nat /\ f = [i \in 1 .. n |-> f[i]]
  BY <1>1
<1> HIDE DEF n
<1>3. IsList(f) /\ Len(f) = n
  BY <1>2, ListOfFunction
<1>4. Range(f) = {f[i] : i \in 1 .. n}
  BY <1>2 DEF Range
<1> QED BY <1>3, <1>4 DEF n

LEMMA ConcatList ==
    ASSUME NEW r, IsList(r), NEW s, IsList(s)
    PROVE  IsList(r \o s) /\ Range(r \o s) = Range(r) \cup Range(s)
<1> DEFINE X == Range(r) \cup Range(s)
           q == r \o s
<1>1. r \in Seq(X) /\ s \in Seq(X)
  BY SeqMonotonic DEF IsList
<1>2. /\ q \in Seq(X) /\ Len(q) = Len(r) + Len(s)
      /\ \A i \in 1 .. Len(r) + Len(s) : q[i] = IF i <= Len(r) THEN r[i] ELSE s[i - Len(r)]
  BY <1>1, ConcatProperties
<1>3. IsList(q)
  BY <1>2, SeqOfRange DEF IsList
<1>4. Len(r) \in Nat /\ Len(s) \in Nat
  BY ListFacts
<1>5. \A x \in Range(q) : x \in X
  BY <1>2, RangeOfSeq
<1> HIDE DEF q
<1>6. ASSUME NEW x \in Range(r) PROVE x \in Range(q)
  <2>1. PICK i \in 1 .. Len(r) : x = r[i]
    BY ListFacts
  <2>2. i \in 1 .. Len(r) + Len(s) /\ i <= Len(r)
    BY <1>4
  <2>3. x = q[i] /\ i \in 1 .. Len(q)
    BY <1>2, <2>1, <2>2
  <2> QED BY <1>3, <2>3, ListFacts
<1>7. ASSUME NEW x \in Range(s) PROVE x \in Range(q)
  <2>1. PICK i \in 1 .. Len(s) : x = s[i]
    BY ListFacts
  <2>2. Len(r) + i \in 1 .. Len(r) + Len(s) /\ ~ (Len(r) + i <= Len(r)) /\ (Len(r) + i) - Len(r) = i
    BY <1>4
  <2>3. x = q[Len(r) + i] /\ Len(r) + i \in 1 .. Len(q)
    BY <1>2, <2>1, <2>2
  <2> QED BY <1>3, <2>3, ListFacts
<1>8. Range(q) = X
  BY <1>5, <1>6, <1>7
<1> QED BY <1>3, <1>8 DEF q

LEMMA ConcatPlaces ==
    ASSUME NEW r, IsList(r), NEW s, IsList(s)
    PROVE  /\ Len(r \o s) = Len(r) + Len(s)
           /\ \A k \in 1 .. Len(r) + Len(s) :
                (r \o s)[k] = IF k <= Len(r) THEN r[k] ELSE s[k - Len(r)]
<1> DEFINE X == Range(r) \cup Range(s)
<1>1. r \in Seq(X) /\ s \in Seq(X)
  BY SeqMonotonic DEF IsList
<1> QED BY <1>1, ConcatProperties

\* Elements of a sequence over a set are in it.
LEMMA ListOver ==
    ASSUME NEW X, NEW s \in Seq(X)
    PROVE  IsList(s) /\ Range(s) \subseteq X
BY SeqOfRange, RangeOfSeq DEF IsList

-----------------------------------------------------------------------------
(* Lists of identifiers, with the offsets from which they are in scope.    *)

\* Laid end to end, lists keep their order, and each its own.
LEMMA FlatOrder ==
    ASSUME NEW n, NEW ss, Lists(ss, n), NEW r, NEW base, Flat(r, ss, n, base),
           NEW i \in 1 .. n, NEW k \in 1 .. Len(ss[i]),
           NEW j \in 1 .. n, NEW l \in 1 .. Len(ss[j]),
           base[i] + k < base[j] + l
    PROVE  i < j \/ (i = j /\ k < l)
<1>1. IsList(ss[i]) /\ IsList(ss[j]) /\ n \in Nat
  BY DEF Lists
<1>2. Len(ss[i]) \in Nat /\ Len(ss[j]) \in Nat
  BY <1>1, ListFacts
<1>3. base[i] \in Nat /\ base[j] \in Nat
  BY DEF Flat
<1>4. j < i => base[j] + Len(ss[j]) <= base[i]
  BY DEF Flat
<1>5. ~ (j < i)
  BY <1>2, <1>3, <1>4
<1>6. i \in Nat /\ j \in Nat
  BY <1>1
<1>7. i = j => k < l
  BY <1>2, <1>3
<1> QED BY <1>5, <1>6, <1>7

(***************************************************************************)
(* D is the set of an identifier of r and an offset for each of its        *)
(* places, and the later of two places of one name has the later offset.   *)
(***************************************************************************)
DatedBy(r, D, from) ==
    /\ \A k \in 1 .. Len(r) : from[k] \in Int /\ <<r[k], from[k]>> \in D
    /\ \A d \in D : \E k \in 1 .. Len(r) : d = <<r[k], from[k]>>
    /\ \A k, l \in 1 .. Len(r) :
         k < l /\ r[k].name = r[l].name /\ r[k].name # Blank => from[k] < from[l]

Dated(r, D) == IsList(r) /\ \E from : DatedBy(r, D, from)

At(names, from) == {<<n, from>> : n \in Range(names)}

Before(D, E) == \A d \in D, e \in E : d[2] < e[2]

LEMMA DatedNothing == Dated(<<>>, {})
<1>1. IsList(<<>>) /\ Len(<<>>) = 0
  BY EmptySeq DEF IsList
<1>2. 1 .. 0 = {}
  OBVIOUS
<1>3. DatedBy(<<>>, {}, <<>>)
  BY <1>1, <1>2 DEF DatedBy
<1> QED BY <1>1, <1>3 DEF Dated

LEMMA DatedNames ==
    ASSUME NEW names, DeclaresOnce(names), NEW at \in Int
    PROVE  Dated(names, At(names, at))
<1> DEFINE from == [k \in 1 .. Len(names) |-> at]
<1>1. IsList(names)
  BY DEF DeclaresOnce
<1>2. /\ DOMAIN names = 1 .. Len(names) /\ Len(names) \in Nat
      /\ \A k \in 1 .. Len(names) : names[k] \in Range(names)
      /\ \A x \in Range(names) : \E k \in 1 .. Len(names) : x = names[k]
  BY <1>1, ListFacts
<1>3. \A k \in 1 .. Len(names) : from[k] = at
  OBVIOUS
<1> HIDE DEF from
<1>4. \A k, l \in 1 .. Len(names) :
        k < l /\ names[k].name = names[l].name /\ names[k].name # Blank => FALSE
  BY <1>2 DEF DeclaresOnce
<1>5. DatedBy(names, At(names, at), from)
  BY <1>2, <1>3, <1>4 DEF DatedBy, At
<1> QED BY <1>1, <1>5 DEF Dated

LEMMA DatedConcat ==
    ASSUME NEW r, NEW D, Dated(r, D), NEW s, NEW E, Dated(s, E), Before(D, E)
    PROVE  Dated(r \o s, D \cup E)
<1>1. IsList(r) /\ IsList(s)
  BY DEF Dated
<1>2. PICK f : DatedBy(r, D, f)
  BY DEF Dated
<1>3. PICK g : DatedBy(s, E, g)
  BY DEF Dated
<1> DEFINE q == r \o s
           m == Len(r)
           n == Len(s)
           from == [k \in 1 .. m + n |-> IF k <= m THEN f[k] ELSE g[k - m]]
<1>4. m \in Nat /\ n \in Nat
  BY <1>1, ListFacts
<1>5. /\ IsList(q) /\ Len(q) = m + n
      /\ \A k \in 1 .. m + n : q[k] = IF k <= m THEN r[k] ELSE s[k - m]
  BY <1>1, ConcatList, ConcatPlaces
<1> HIDE DEF q, m, n
<1>6. \A k \in 1 .. m + n : \/ k <= m /\ k \in 1 .. m /\ q[k] = r[k] /\ from[k] = f[k]
                            \/ k > m /\ k - m \in 1 .. n /\ q[k] = s[k - m] /\ from[k] = g[k - m]
  BY <1>4, <1>5
<1>7. \A k \in 1 .. m : k \in 1 .. m + n /\ q[k] = r[k] /\ from[k] = f[k]
  BY <1>4, <1>5
<1>8. ASSUME NEW k \in 1 .. n
      PROVE  m + k \in 1 .. m + n /\ q[m + k] = s[k] /\ from[m + k] = g[k]
  <2>1. m + k \in 1 .. m + n /\ ~ (m + k <= m) /\ (m + k) - m = k
    BY <1>4
  <2> QED BY <1>5, <2>1
<1> HIDE DEF from
<1>9. /\ \A k \in 1 .. m : f[k] \in Int /\ <<r[k], f[k]>> \in D
      /\ \A d \in D : \E k \in 1 .. m : d = <<r[k], f[k]>>
      /\ \A k, l \in 1 .. m :
           k < l /\ r[k].name = r[l].name /\ r[k].name # Blank => f[k] < f[l]
  BY <1>2 DEF DatedBy, m
<1>10. /\ \A k \in 1 .. n : g[k] \in Int /\ <<s[k], g[k]>> \in E
       /\ \A d \in E : \E k \in 1 .. n : d = <<s[k], g[k]>>
       /\ \A k, l \in 1 .. n :
            k < l /\ s[k].name = s[l].name /\ s[k].name # Blank => g[k] < g[l]
  BY <1>3 DEF DatedBy, n
<1>11. \A k \in 1 .. m + n : from[k] \in Int /\ <<q[k], from[k]>> \in D \cup E
  BY <1>6, <1>9, <1>10
<1>12. ASSUME NEW d \in D \cup E PROVE \E k \in 1 .. m + n : d = <<q[k], from[k]>>
  <2>1. CASE d \in D
    BY <1>7, <1>9, <2>1
  <2>2. CASE d \in E
    <3>1. PICK k \in 1 .. n : d = <<s[k], g[k]>>
      BY <1>10, <2>2
    <3> QED BY <1>8, <3>1
  <2> QED BY <2>1, <2>2
<1>13. ASSUME NEW k \in 1 .. m + n, NEW l \in 1 .. m + n,
              k < l, q[k].name = q[l].name, q[k].name # Blank
       PROVE  from[k] < from[l]
  <2>1. CASE k > m
    <3>1. l > m /\ k - m < l - m
      BY <1>4, <1>13, <2>1
    <3>2. /\ k - m \in 1 .. n /\ q[k] = s[k - m] /\ from[k] = g[k - m]
          /\ l - m \in 1 .. n /\ q[l] = s[l - m] /\ from[l] = g[l - m]
      BY <1>4, <1>6, <2>1, <3>1
    <3> QED BY <1>10, <1>13, <3>1, <3>2
  <2>2. CASE l <= m
    <3>1. k <= m
      BY <1>4, <1>13, <2>2
    <3>2. /\ k \in 1 .. m /\ q[k] = r[k] /\ from[k] = f[k]
          /\ l \in 1 .. m /\ q[l] = r[l] /\ from[l] = f[l]
      BY <1>4, <1>6, <2>2, <3>1
    <3> QED BY <1>9, <1>13, <3>2
  <2>3. CASE k <= m /\ l > m
    <3>1. /\ k \in 1 .. m /\ from[k] = f[k]
          /\ l - m \in 1 .. n /\ from[l] = g[l - m]
      BY <1>4, <1>6, <2>3
    <3>2. <<r[k], f[k]>> \in D /\ <<s[l - m], g[l - m]>> \in E
      BY <1>9, <1>10, <3>1
    <3> QED BY <3>1, <3>2 DEF Before
  <2> QED BY <1>4, <2>1, <2>2, <2>3
<1>14. DatedBy(q, D \cup E, from)
  BY <1>5, <1>11, <1>12, <1>13 DEF DatedBy
<1> QED BY <1>5, <1>14 DEF Dated, q

LEMMA DatedFlatten ==
    ASSUME NEW n, NEW ss, Lists(ss, n), NEW D,
           \A i \in 1 .. n : Dated(ss[i], D[i]),
           \A i, j \in 1 .. n : i < j => Before(D[i], D[j])
    PROVE  Dated(FlattenSeq(ss), UNION {D[i] : i \in 1 .. n})
<1> DEFINE r == FlattenSeq(ss)
           E == UNION {D[i] : i \in 1 .. n}
           F == [i \in 1 .. n |-> CHOOSE f : DatedBy(ss[i], D[i], f)]
<1>1. PICK base : Flat(r, ss, n, base)
  BY FlattenFacts
<1> DEFINE Comes(m, i, k) == m = base[i] + k
           from == [m \in 1 .. Len(r) |-> CHOOSE x : \E i \in 1 .. n : \E k \in 1 .. Len(ss[i]) :
                                             Comes(m, i, k) /\ x = F[i][k]]
<1>2. \A i \in 1 .. n : DatedBy(ss[i], D[i], F[i])
  BY DEF Dated
<1> HIDE DEF F
<1>3. /\ IsList(r) /\ n \in Nat
      /\ \A i \in 1 .. n : base[i] \in Nat /\ base[i] + Len(ss[i]) <= Len(r)
      /\ \A i \in 1 .. n : \A k \in 1 .. Len(ss[i]) : r[base[i] + k] = ss[i][k]
      /\ \A m \in 1 .. Len(r) : \E i \in 1 .. n : \E k \in 1 .. Len(ss[i]) : Comes(m, i, k)
  BY <1>1 DEF Flat, Lists
<1>4. \A i \in 1 .. n : Len(ss[i]) \in Nat
  BY ListFacts DEF Lists
<1>5. Len(r) \in Nat
  BY <1>3, ListFacts
<1>6. ASSUME NEW i \in 1 .. n, NEW k \in 1 .. Len(ss[i])
      PROVE  /\ base[i] + k \in 1 .. Len(r) /\ r[base[i] + k] = ss[i][k]
             /\ from[base[i] + k] = F[i][k]
  <2>1. base[i] + k \in 1 .. Len(r)
    BY <1>3, <1>4, <1>5
  <2>2. ASSUME NEW j \in 1 .. n, NEW l \in 1 .. Len(ss[j]), Comes(base[i] + k, j, l)
        PROVE  F[j][l] = F[i][k]
    <3>1. j = i /\ l = k
      BY <1>1, <2>2, FlatOnce
    <3> QED BY <3>1
  <2>3. Comes(base[i] + k, i, k)
    OBVIOUS
  <2> HIDE DEF Comes
  <2>4. from[base[i] + k] = F[i][k]
    BY <2>1, <2>2, <2>3
  <2> QED BY <1>3, <2>1, <2>4
<1> HIDE DEF from, r
<1>7. \A i \in 1 .. n : \A k \in 1 .. Len(ss[i]) :
        F[i][k] \in Int /\ <<ss[i][k], F[i][k]>> \in D[i]
  BY <1>2 DEF DatedBy
<1>8. ASSUME NEW m \in 1 .. Len(r) PROVE from[m] \in Int /\ <<r[m], from[m]>> \in E
  <2>1. PICK i \in 1 .. n : \E k \in 1 .. Len(ss[i]) : Comes(m, i, k)
    BY <1>3
  <2>2. PICK k \in 1 .. Len(ss[i]) : m = base[i] + k
    BY <2>1
  <2>3. from[m] = F[i][k] /\ r[m] = ss[i][k]
    BY <1>6, <2>2
  <2> QED BY <1>7, <2>3
<1>9. ASSUME NEW d \in E PROVE \E m \in 1 .. Len(r) : d = <<r[m], from[m]>>
  <2>1. PICK i \in 1 .. n : d \in D[i]
    OBVIOUS
  <2>2. PICK k \in 1 .. Len(ss[i]) : d = <<ss[i][k], F[i][k]>>
    BY <1>2, <2>1 DEF DatedBy
  <2> QED BY <1>6, <2>2
<1>10. ASSUME NEW m \in 1 .. Len(r), NEW q \in 1 .. Len(r),
              m < q, r[m].name = r[q].name, r[m].name # Blank
       PROVE  from[m] < from[q]
  <2>1. PICK i \in 1 .. n : \E k \in 1 .. Len(ss[i]) : Comes(m, i, k)
    BY <1>3
  <2>2. PICK k \in 1 .. Len(ss[i]) : m = base[i] + k
    BY <2>1
  <2>3. PICK j \in 1 .. n : \E k1 \in 1 .. Len(ss[j]) : Comes(q, j, k1)
    BY <1>3
  <2>4. PICK l \in 1 .. Len(ss[j]) : q = base[j] + l
    BY <2>3
  <2>5. /\ from[m] = F[i][k] /\ r[m] = ss[i][k]
        /\ from[q] = F[j][l] /\ r[q] = ss[j][l]
    BY <1>6, <2>2, <2>4
  <2>6. i < j \/ (i = j /\ k < l)
    BY <1>1, <1>10, <2>2, <2>4, FlatOrder
  <2>7. CASE i < j
    <3>1. <<ss[i][k], F[i][k]>> \in D[i] /\ <<ss[j][l], F[j][l]>> \in D[j]
      BY <1>7
    <3>2. Before(D[i], D[j])
      BY <2>7
    <3> QED BY <2>5, <3>1, <3>2 DEF Before
  <2>8. CASE i = j /\ k < l
    <3>1. DatedBy(ss[i], D[i], F[i])
      BY <1>2
    <3> QED BY <1>10, <2>5, <2>8, <3>1 DEF DatedBy
  <2> QED BY <2>6, <2>7, <2>8
<1>11. DatedBy(r, E, from)
  <2> HIDE DEF E
  <2> QED BY <1>8, <1>9, <1>10 DEF DatedBy
<1>12. Dated(r, E)
  BY <1>3, <1>11 DEF Dated
<1> QED BY <1>12 DEF r

\* The last place of a name.
LEMMA LatestFacts ==
    ASSUME NEW all, IsList(all), NEW i \in 1 .. Len(all)
    PROVE  \E x \in 1 .. Len(all) :
             /\ Latest(all, i) = all[x] /\ all[x].name = all[i].name
             /\ \A j \in 1 .. Len(all) : all[j].name = all[i].name => j <= x
<1> DEFINE n == Len(all)
           J == {j \in DOMAIN all : all[j].name = all[i].name}
           R == {n - j : j \in J}
<1>1. n \in Nat /\ DOMAIN all = 1 .. n
  BY ListFacts
<1> HIDE DEF n
<1>2. J \in SUBSET (1 .. n) /\ i \in J
  BY <1>1 DEF n
<1>3. R \in SUBSET Nat /\ n - i \in R
  BY <1>1, <1>2
<1>4. Min(R) \in R /\ \A y \in R : Min(R) <= y
  <2> HIDE DEF R
  <2> QED BY <1>3, MinOfSet
<1>5. PICK x \in J : Min(R) = n - x
  BY <1>4
<1>6. x \in Int /\ \A j \in J : x >= j
  <2>1. \A j \in J : n - j \in R
    OBVIOUS
  <2>2. \A j \in J : n - x <= n - j
    BY <1>4, <1>5, <2>1
  <2> HIDE DEF J, R
  <2> QED BY <1>1, <1>2, <2>2
<1>7. Max(J) = x
  <2>1. J \in SUBSET Int
    BY <1>1, <1>2
  <2> HIDE DEF J
  <2> QED BY <1>6, <2>1, MaxIs
<1>8. Latest(all, i) = all[x]
  BY <1>7 DEF Latest
<1>9. x \in 1 .. n /\ all[x].name = all[i].name
  BY <1>2, <1>5
<1>10. \A j \in 1 .. n : all[j].name = all[i].name => j <= x
  <2>1. \A j \in 1 .. n : all[j].name = all[i].name => j \in J
    BY <1>1
  <2> HIDE DEF J
  <2> QED BY <1>1, <1>2, <1>6, <2>1
<1> QED BY <1>8, <1>9, <1>10 DEF n

LatestOf(D) ==
    {d[1] : d \in {e \in D : /\ e[1].name # Blank
                             /\ \A o \in D : o[1].name = e[1].name => o[2] <= e[2]}}

\* What add leaves: each name once, with its latest identifier.
LEMMA AddedFacts ==
    ASSUME NEW all, NEW D, Dated(all, D)
    PROVE  /\ IsList(Added(all)) /\ Range(Added(all)) = LatestOf(D)
           /\ \A i, j \in 1 .. Len(Added(all)) :
                Added(all)[i].name = Added(all)[j].name => i = j
<1> DEFINE n == Len(all)
           Fresh(i) == ~ (all[i].name = Blank \/ \E j \in 1..i - 1 : all[j].name = all[i].name)
           ss == [i \in DOMAIN all |->
                    IF all[i].name = Blank \/ \E j \in 1..i - 1 : all[j].name = all[i].name
                    THEN <<>> ELSE <<Latest(all, i)>>]
           r == FlattenSeq(ss)
<1>1. PICK from : DatedBy(all, D, from)
  BY DEF Dated
<1>2. IsList(all)
  BY DEF Dated
<1>3. n \in Nat /\ DOMAIN all = 1 .. n
  BY <1>2, ListFacts
<1>4. \A i \in 1 .. n : ss[i] = IF Fresh(i) THEN <<Latest(all, i)>> ELSE <<>>
  BY <1>3
<1>5. ss = [i \in 1 .. n |-> ss[i]]
  BY <1>3
<1> HIDE DEF ss
<1>6. ASSUME NEW x PROVE IsList(<<x>>) /\ Len(<<x>>) = 1 /\ <<x>>[1] = x /\ Range(<<x>>) = {x}
  BY DEF IsList, Range
<1>7. IsList(<<>>) /\ Len(<<>>) = 0 /\ Range(<<>>) = {}
  BY EmptySeq DEF IsList, Range
<1>8. ASSUME NEW i \in 1 .. n PROVE IsList(ss[i])
  <2>1. CASE Fresh(i)
    <3>1. ss[i] = <<Latest(all, i)>>
      BY <1>4, <2>1
    <3> QED BY <1>6, <3>1
  <2>2. CASE ~ Fresh(i)
    BY <1>4, <1>7, <2>2
  <2> QED BY <2>1, <2>2
<1>9. Lists(ss, n)
  BY <1>3, <1>5, <1>8 DEF Lists
<1>10. PICK base : Flat(r, ss, n, base)
  BY <1>9, FlattenFacts
<1>11. r = Added(all)
  BY DEF ss, Added
<1>12. Range(r) = UNION {Range(ss[i]) : i \in 1 .. n}
  BY <1>9, <1>10, FlatRange
<1>13. IsList(r)
  BY <1>10 DEF Flat
<1> HIDE DEF r
<1>14. ASSUME NEW x
       PROVE  x \in Range(r) <=> \E i \in 1 .. n : Fresh(i) /\ x = Latest(all, i)
  <2> HIDE DEF Fresh
  <2>1. \A i \in 1 .. n : x \in Range(ss[i]) <=> Fresh(i) /\ x = Latest(all, i)
    <3> SUFFICES ASSUME NEW i \in 1 .. n
                 PROVE  x \in Range(ss[i]) <=> Fresh(i) /\ x = Latest(all, i)
      OBVIOUS
    <3>1. CASE Fresh(i)
      <4>1. ss[i] = <<Latest(all, i)>>
        BY <1>4, <3>1
      <4>2. Range(ss[i]) = {Latest(all, i)}
        BY <1>6, <4>1
      <4> QED BY <3>1, <4>2
    <3>2. CASE ~ Fresh(i)
      <4>1. Range(ss[i]) = {}
        BY <1>4, <1>7, <3>2
      <4> QED BY <3>2, <4>1
    <3> QED BY <3>1, <3>2
  <2> QED BY <1>12, <2>1
<1>15. ASSUME NEW k \in 1 .. n, NEW l \in 1 .. n,
              k < l, all[k].name = all[l].name, all[k].name # Blank
       PROVE  from[k] < from[l]
  BY <1>1, <1>15 DEF DatedBy
<1>16. \A k \in 1 .. n : from[k] \in Int /\ <<all[k], from[k]>> \in D
  BY <1>1 DEF DatedBy
<1>17. \A d \in D : \E k \in 1 .. n : d = <<all[k], from[k]>>
  BY <1>1 DEF DatedBy
<1>18. ASSUME NEW x \in Range(r) PROVE x \in LatestOf(D)
  <2>1. PICK i \in 1 .. n : Fresh(i) /\ x = Latest(all, i)
    BY <1>14
  <2>2. PICK k \in 1 .. n : /\ x = all[k] /\ all[k].name = all[i].name
                            /\ \A j \in 1 .. n : all[j].name = all[i].name => j <= k
    BY <1>2, <2>1, LatestFacts
  <2>3. all[k].name # Blank
    BY <2>1, <2>2
  <2>4. ASSUME NEW o \in D, o[1].name = all[k].name PROVE o[2] <= from[k]
    <3>1. PICK l \in 1 .. n : o = <<all[l], from[l]>>
      BY <1>17
    <3>2. l <= k /\ all[l].name = all[k].name
      BY <2>2, <2>4, <3>1
    <3>3. CASE l = k
      BY <1>16, <3>1, <3>3
    <3>4. CASE l # k
      <4>1. l < k
        BY <1>3, <3>2, <3>4
      <4>2. from[l] < from[k]
        BY <1>15, <2>3, <3>2, <4>1
      <4>3. from[l] \in Int /\ from[k] \in Int /\ o[2] = from[l]
        BY <1>16, <3>1
      <4> QED BY <4>2, <4>3
    <3> QED BY <3>3, <3>4
  <2>5. <<all[k], from[k]>> \in D
    BY <1>16
  <2> QED BY <2>2, <2>3, <2>4, <2>5 DEF LatestOf
<1>19. ASSUME NEW x \in LatestOf(D) PROVE x \in Range(r)
  <2>1. PICK d \in D : /\ x = d[1] /\ d[1].name # Blank
                       /\ \A o \in D : o[1].name = d[1].name => o[2] <= d[2]
    BY DEF LatestOf
  <2>2. PICK k \in 1 .. n : d = <<all[k], from[k]>>
    BY <1>17, <2>1
  <2>3. ASSUME NEW l \in 1 .. n, all[l].name = all[k].name PROVE l <= k
    <3>1. <<all[l], from[l]>> \in D
      BY <1>16
    <3>2. from[l] <= from[k]
      BY <2>1, <2>2, <2>3, <3>1
    <3>3. k < l => from[k] < from[l]
      BY <1>15, <2>1, <2>2, <2>3
    <3>4. from[l] \in Int /\ from[k] \in Int
      BY <1>16
    <3> QED BY <1>3, <3>2, <3>3, <3>4
  <2> DEFINE J == {j \in 1 .. n : all[j].name = all[k].name}
             i == Min(J)
  <2>4. i \in J /\ \A y \in J : i <= y
    <3>1. J \in SUBSET Nat /\ k \in J
      BY <1>3
    <3> HIDE DEF J
    <3> QED BY <3>1, MinOfSet
  <2>5. i \in 1 .. n /\ all[i].name = all[k].name
    BY <2>4
  <2>6. \A j \in 1 .. n : all[j].name = all[k].name => i <= j
    BY <2>4
  <2> HIDE DEF i, J
  <2>7. \A j \in 1 .. i - 1 : j \in 1 .. n /\ j < i
    BY <1>3, <2>5
  <2>8. Fresh(i)
    BY <1>3, <2>1, <2>2, <2>5, <2>6, <2>7
  <2>9. PICK q \in 1 .. n : /\ Latest(all, i) = all[q] /\ all[q].name = all[i].name
                            /\ \A j \in 1 .. n : all[j].name = all[i].name => j <= q
    BY <1>2, <2>5, LatestFacts
  <2>10. q = k
    BY <1>3, <2>3, <2>5, <2>9
  <2>11. x = Latest(all, i)
    BY <2>1, <2>2, <2>9, <2>10
  <2> HIDE DEF Fresh
  <2> QED BY <1>14, <2>5, <2>8, <2>11
<1>20. ASSUME NEW m \in 1 .. Len(r), NEW q \in 1 .. Len(r), r[m].name = r[q].name
       PROVE  m = q
  <2> DEFINE Comes(o, i) == base[i] + 1 = o /\ Fresh(i) /\ r[o] = Latest(all, i)
  <2>1. ASSUME NEW o \in 1 .. Len(r) PROVE \E i \in 1 .. n : Comes(o, i)
    <3>1. PICK i \in 1 .. n : \E k \in 1 .. Len(ss[i]) : o = base[i] + k
      BY <1>10 DEF Flat
    <3>2. PICK k \in 1 .. Len(ss[i]) : o = base[i] + k
      BY <3>1
    <3> HIDE DEF Fresh
    <3>3. Fresh(i) /\ ss[i] = <<Latest(all, i)>>
      <4>1. Len(ss[i]) # 0
        BY <3>2
      <4> QED BY <1>4, <1>7, <4>1
    <3>4. k = 1
      BY <1>6, <3>2, <3>3
    <3>5. r[base[i] + k] = ss[i][k]
      BY <1>10 DEF Flat
    <3> QED BY <1>6, <3>2, <3>3, <3>4, <3>5
  <2>2. PICK i \in 1 .. n : Comes(m, i)
    BY <2>1
  <2>3. PICK j \in 1 .. n : Comes(q, j)
    BY <2>1
  <2>4. Latest(all, i).name = all[i].name /\ Latest(all, j).name = all[j].name
    BY <1>2, LatestFacts
  <2>5. all[i].name = all[j].name
    BY <1>20, <2>2, <2>3, <2>4
  <2>6. ~ (i < j)
    <3>1. i < j => i \in 1 .. j - 1
      BY <1>3
    <3> QED BY <2>3, <2>5, <3>1
  <2>7. ~ (j < i)
    <3>1. j < i => j \in 1 .. i - 1
      BY <1>3
    <3> QED BY <2>2, <2>5, <3>1
  <2>8. i = j
    BY <1>3, <2>6, <2>7
  <2> QED BY <2>2, <2>3, <2>8
<1>21. Range(r) = LatestOf(D)
  BY <1>18, <1>19
<1> QED BY <1>11, <1>13, <1>20, <1>21

-----------------------------------------------------------------------------
(* The statements of a function.                                           *)

Height(fn) == fn.body.end - fn.body.pos

LEMMA LevelSteps ==
    ASSUME NEW fn, Height(fn) \in Nat
    PROVE  /\ Level(fn)[0] = Range(fn.body.list)
           /\ \A n \in 1 .. Height(fn) :
                Level(fn)[n] = UNION {Parts(s) : s \in Level(fn)[n - 1]}
<1> DEFINE h == Height(fn)
           Upto(m, g) == g = [n \in 0 .. m |-> IF n = 0 THEN Range(fn.body.list)
                                               ELSE UNION {Parts(s) : s \in g[n - 1]}]
           S == {m \in 0 .. h : \E g : Upto(m, g)}
<1>1. 0 \in S
  <2> DEFINE g == [n \in 0 .. 0 |-> Range(fn.body.list)]
  <2>1. \A n \in 0 .. 0 : n = 0
    OBVIOUS
  <2>2. g = [n \in 0 .. 0 |-> IF n = 0 THEN Range(fn.body.list)
                              ELSE UNION {Parts(s) : s \in g[n - 1]}]
    BY <2>1
  <2>3. Upto(0, g)
    BY <2>2
  <2>4. 0 \in 0 .. h
    OBVIOUS
  <2> HIDE DEF Upto, g
  <2> QED BY <2>3, <2>4
<1>2. ASSUME NEW m \in 1 .. h, m - 1 \in S PROVE m \in S
  <2>1. PICK g : Upto(m - 1, g)
    BY <1>2
  <2> DEFINE k == [n \in 0 .. m |-> IF n < m THEN g[n] ELSE UNION {Parts(s) : s \in g[n - 1]}]
  <2>2. ASSUME NEW n \in 0 .. m
        PROVE  k[n] = IF n = 0 THEN Range(fn.body.list) ELSE UNION {Parts(s) : s \in k[n - 1]}
    <3>1. n # 0 => n - 1 \in 0 .. m /\ n - 1 < m
      OBVIOUS
    <3>2. n # 0 => k[n - 1] = g[n - 1]
      BY <3>1
    <3>3. CASE n < m
      <4>1. n \in 0 .. m - 1 /\ k[n] = g[n]
        BY <3>3
      <4>2. g[n] = IF n = 0 THEN Range(fn.body.list) ELSE UNION {Parts(s) : s \in g[n - 1]}
        BY <2>1, <4>1
      <4> HIDE DEF k, Upto
      <4> QED BY <3>2, <4>1, <4>2
    <3>4. CASE ~ (n < m)
      <4>1. k[n] = UNION {Parts(s) : s \in g[n - 1]} /\ n # 0
        BY <3>4
      <4> HIDE DEF k, Upto
      <4> QED BY <3>2, <4>1
    <3> QED BY <3>3, <3>4
  <2>3. Upto(m, k)
    BY <2>2
  <2>4. m \in 0 .. h
    OBVIOUS
  <2> HIDE DEF Upto, k
  <2> QED BY <2>3, <2>4
<1>3. h \in S
  <2>1. h \in 0 .. h /\ h \in Nat
    OBVIOUS
  <2> HIDE DEF S, h
  <2> QED BY <1>1, <1>2, <2>1, Induction
<1>4. \E g : g = [n \in 0 .. fn.body.end - fn.body.pos |->
                    IF n = 0 THEN Range(fn.body.list) ELSE UNION {Parts(s) : s \in g[n - 1]}]
  BY <1>3 DEF Height
<1> DEFINE f == CHOOSE g : g = [n \in 0 .. fn.body.end - fn.body.pos |->
                    IF n = 0 THEN Range(fn.body.list) ELSE UNION {Parts(s) : s \in g[n - 1]}]
<1>5. f = [n \in 0 .. fn.body.end - fn.body.pos |->
             IF n = 0 THEN Range(fn.body.list) ELSE UNION {Parts(s) : s \in f[n - 1]}]
  BY <1>4, Zenon
<1>6. Level(fn) = f
  BY Zenon DEF Level
<1> HIDE DEF f
<1>7. \A n \in 0 .. h : f[n] = IF n = 0 THEN Range(fn.body.list)
                               ELSE UNION {Parts(s) : s \in f[n - 1]}
  BY <1>5 DEF Height
<1>8. 0 \in 0 .. h /\ \A n \in 1 .. h : n \in 0 .. h /\ n # 0
  OBVIOUS
<1> HIDE DEF h
<1> QED BY <1>6, <1>7, <1>8 DEF h

LEMMA SearchedSteps ==
    ASSUME NEW fn, NEW cursor, NEW d \in Nat, d = cursor - fn.body.pos
    PROVE  /\ Searched(fn, cursor)[0] = CollectVisibleInBlock(fn.body, cursor)
           /\ \A n \in 1 .. d :
                Searched(fn, cursor)[n] = Deeper(Searched(fn, cursor)[n - 1], cursor)
<1> DEFINE first == CollectVisibleInBlock(fn.body, cursor)
           Upto(m, g) == g = [n \in 0 .. m |-> IF n = 0 THEN first ELSE Deeper(g[n - 1], cursor)]
           S == {m \in 0 .. d : \E g : Upto(m, g)}
<1> HIDE DEF first
<1>1. 0 \in S
  <2> DEFINE g == [n \in 0 .. 0 |-> first]
  <2>1. \A n \in 0 .. 0 : n = 0
    OBVIOUS
  <2>2. g = [n \in 0 .. 0 |-> IF n = 0 THEN first ELSE Deeper(g[n - 1], cursor)]
    BY <2>1
  <2>3. Upto(0, g)
    BY <2>2
  <2>4. 0 \in 0 .. d
    OBVIOUS
  <2> HIDE DEF Upto, g
  <2> QED BY <2>3, <2>4
<1>2. ASSUME NEW m \in 1 .. d, m - 1 \in S PROVE m \in S
  <2>1. PICK g : Upto(m - 1, g)
    BY <1>2
  <2> DEFINE k == [n \in 0 .. m |-> IF n < m THEN g[n] ELSE Deeper(g[n - 1], cursor)]
  <2>2. ASSUME NEW n \in 0 .. m
        PROVE  k[n] = IF n = 0 THEN first ELSE Deeper(k[n - 1], cursor)
    <3>1. n # 0 => n - 1 \in 0 .. m /\ n - 1 < m
      OBVIOUS
    <3>2. n # 0 => k[n - 1] = g[n - 1]
      BY <3>1
    <3>3. CASE n < m
      <4>1. n \in 0 .. m - 1 /\ k[n] = g[n]
        BY <3>3
      <4>2. g[n] = IF n = 0 THEN first ELSE Deeper(g[n - 1], cursor)
        BY <2>1, <4>1
      <4> HIDE DEF k, Upto
      <4> QED BY <3>2, <4>1, <4>2
    <3>4. CASE ~ (n < m)
      <4>1. k[n] = Deeper(g[n - 1], cursor) /\ n # 0
        BY <3>4
      <4> HIDE DEF k, Upto
      <4> QED BY <3>2, <4>1
    <3> QED BY <3>3, <3>4
  <2>3. Upto(m, k)
    BY <2>2
  <2>4. m \in 0 .. d
    OBVIOUS
  <2> HIDE DEF Upto, k
  <2> QED BY <2>3, <2>4
<1>3. d \in S
  <2>1. d \in 0 .. d
    OBVIOUS
  <2> HIDE DEF S
  <2> QED BY <1>1, <1>2, <2>1, Induction
<1>4. \E g : g = [n \in 0 .. cursor - fn.body.pos |->
                    IF n = 0 THEN CollectVisibleInBlock(fn.body, cursor)
                    ELSE Deeper(g[n - 1], cursor)]
  BY <1>3 DEF first
<1> DEFINE f == CHOOSE g : g = [n \in 0 .. cursor - fn.body.pos |->
                    IF n = 0 THEN CollectVisibleInBlock(fn.body, cursor)
                    ELSE Deeper(g[n - 1], cursor)]
<1>5. f = [n \in 0 .. cursor - fn.body.pos |->
             IF n = 0 THEN CollectVisibleInBlock(fn.body, cursor) ELSE Deeper(f[n - 1], cursor)]
  BY <1>4, Zenon
<1>6. Searched(fn, cursor) = f
  BY Zenon DEF Searched
<1> HIDE DEF f
<1>7. \A n \in 0 .. d : f[n] = IF n = 0 THEN first ELSE Deeper(f[n - 1], cursor)
  BY <1>5 DEF first
<1>8. 0 \in 0 .. d /\ \A n \in 1 .. d : n \in 0 .. d /\ n # 0
  OBVIOUS
<1> QED BY <1>6, <1>7, <1>8 DEF first

\* A part of a statement lies in it.
LEMMA PartsFacts ==
    ASSUME NEW s, IsStatement(s), NEW t \in Parts(s), t.pos \in Nat, t.end \in Nat
    PROVE  /\ s.kind \in Compound /\ IsBlock(s.body)
           /\ s.pos < t.pos /\ t.end <= s.end
           /\ \/ t \in Range(s.init) /\ t.kind \in Simple /\ t.end < s.body.pos
              \/ /\ t \in Range(s.body.list)
                 /\ s.body.pos < t.pos /\ t.end <= s.body.end
              \/ /\ t \in Range(s.else) /\ t.kind \in {"if", "block"}
                 /\ s.kind = "if" /\ s.body.end < t.pos
<1>1. /\ s.pos \in Nat /\ s.end \in Nat /\ s.pos < s.end
      /\ IsList(s.init) /\ IsList(s.else)
      /\ \A i \in Range(s.init) : i.kind \in Simple /\ s.pos < i.pos /\ i.end < s.body.pos
      /\ \A i \in Range(s.else) :
           i.kind \in {"if", "block"} /\ s.body.end < i.pos /\ i.end <= s.end
      /\ s.kind # "if" => s.else = <<>>
      /\ s.kind \notin {"if", "for", "switch", "typeswitch"} => s.init = <<>>
      /\ s.kind \in Simple => s.body.list = <<>>
      /\ s.kind \in Compound =>
           IsBlock(s.body) /\ s.pos <= s.body.pos /\ s.body.end <= s.end
      /\ s.kind \in Simple \cup Compound
  BY DEF IsStatement
<1>2. Range(<<>>) = {}
  BY DEF Range
<1>3. s.kind \in Compound
  <2>1. s.kind \notin Simple
    <3>1. SUFFICES ASSUME s.kind \in Simple PROVE FALSE
      OBVIOUS
    <3>2. s.kind \notin {"if", "for", "switch", "typeswitch"}
      BY <3>1 DEF Simple
    <3>3. s.init = <<>> /\ s.body.list = <<>> /\ s.else = <<>>
      BY <1>1, <3>1, <3>2
    <3>4. Parts(s) = {}
      BY <1>2, <3>3 DEF Parts
    <3> QED BY <3>4
  <2> QED BY <1>1, <2>1
<1>4. IsBlock(s.body) /\ s.pos <= s.body.pos /\ s.body.end <= s.end
  BY <1>1, <1>3
<1>5. /\ s.body.pos \in Nat /\ s.body.end \in Nat /\ s.body.pos < s.body.end
      /\ IsList(s.body.list)
      /\ \A i \in DOMAIN s.body.list :
           s.body.pos < s.body.list[i].pos /\ s.body.list[i].end <= s.body.end
  BY <1>4 DEF IsBlock
<1>6. CASE t \in Range(s.init)
  <2>1. t.kind \in Simple /\ s.pos < t.pos /\ t.end < s.body.pos
    BY <1>1, <1>6
  <2>2. t.end <= s.end
    BY <1>1, <1>4, <1>5, <2>1
  <2> QED BY <1>3, <1>4, <1>6, <2>1, <2>2
<1>7. CASE t \in Range(s.body.list)
  <2>1. PICK i \in DOMAIN s.body.list : t = s.body.list[i]
    BY <1>7 DEF Range
  <2>2. s.body.pos < t.pos /\ t.end <= s.body.end
    BY <1>5, <2>1
  <2>3. s.pos < t.pos /\ t.end <= s.end
    BY <1>1, <1>4, <1>5, <2>2
  <2> QED BY <1>3, <1>4, <1>7, <2>2, <2>3
<1>8. CASE t \in Range(s.else)
  <2>1. s.kind = "if"
    BY <1>1, <1>2, <1>8
  <2>2. t.kind \in {"if", "block"} /\ s.body.end < t.pos /\ t.end <= s.end
    BY <1>1, <1>8
  <2>3. s.pos < t.pos
    BY <1>1, <1>4, <1>5, <2>2
  <2> QED BY <1>3, <1>4, <1>8, <2>1, <2>2, <2>3
<1> QED BY <1>6, <1>7, <1>8 DEF Parts

\* A statement of level n begins more than n bytes after the brace of the body.
Placed(fn, n, s) ==
    /\ s \in Statements(fn) /\ IsStatement(s)
    /\ s.pos \in Nat /\ s.end \in Nat /\ s.pos < s.end
    /\ fn.body.pos + n < s.pos /\ s.end <= fn.body.end
    /\ n + 1 \in 0 .. Height(fn) /\ Parts(s) \subseteq Level(fn)[n + 1]

LEMMA LevelFacts ==
    ASSUME NEW fn, IsFunction(fn)
    PROVE  /\ Height(fn) \in Nat \ {0} /\ fn.body.pos \in Nat /\ fn.body.end \in Nat
           /\ \A n \in 0 .. Height(fn) : \A s \in Level(fn)[n] : Placed(fn, n, s)
<1> DEFINE h == Height(fn)
           S == {n \in 0 .. h : \A s \in Level(fn)[n] : Placed(fn, n, s)}
<1>1. /\ fn.body.pos \in Nat /\ fn.body.end \in Nat /\ fn.body.pos < fn.body.end
      /\ IsList(fn.body.list)
      /\ \A i \in DOMAIN fn.body.list :
           fn.body.pos < fn.body.list[i].pos /\ fn.body.list[i].end <= fn.body.end
  BY DEF IsFunction, IsBlock
<1>2. h \in Nat \ {0} /\ h = fn.body.end - fn.body.pos
  BY <1>1 DEF Height
<1>3. /\ Level(fn)[0] = Range(fn.body.list)
      /\ \A n \in 1 .. h : Level(fn)[n] = UNION {Parts(s) : s \in Level(fn)[n - 1]}
  BY <1>2, LevelSteps
<1>4. ASSUME NEW n \in 0 .. h, NEW s \in Level(fn)[n]
      PROVE  /\ s \in Statements(fn) /\ IsStatement(s)
             /\ s.pos \in Nat /\ s.end \in Nat /\ s.pos < s.end
  <2>1. s \in Statements(fn)
    BY <1>2 DEF Statements
  <2>2. IsStatement(s)
    BY <2>1 DEF IsFunction
  <2> QED BY <2>1, <2>2 DEF IsStatement
<1> HIDE DEF h
<1>5. ASSUME NEW n \in 0 .. h, NEW s \in Level(fn)[n],
             fn.body.pos + n < s.pos, s.end <= fn.body.end
      PROVE  Placed(fn, n, s)
  <2>1. s.pos \in Nat /\ s.end \in Nat /\ s.pos < s.end
    BY <1>4
  <2>2. n + 1 \in 1 .. h /\ n + 1 \in 0 .. h
    BY <1>1, <1>2, <1>5, <2>1
  <2>3. (n + 1) - 1 = n
    OBVIOUS
  <2>4. Level(fn)[n + 1] = UNION {Parts(p) : p \in Level(fn)[(n + 1) - 1]}
    BY <1>3, <2>2
  <2>5. Parts(s) \subseteq Level(fn)[n + 1]
    BY <2>3, <2>4
  <2> QED BY <1>4, <1>5, <2>2, <2>5 DEF Placed, h
<1>6. 0 \in S
  <2>1. 0 \in 0 .. h
    BY <1>2
  <2>2. ASSUME NEW s \in Level(fn)[0] PROVE Placed(fn, 0, s)
    <3>1. PICK i \in DOMAIN fn.body.list : s = fn.body.list[i]
      BY <1>3 DEF Range
    <3>2. fn.body.pos < s.pos /\ s.end <= fn.body.end
      BY <1>1, <3>1
    <3>3. fn.body.pos + 0 < s.pos
      BY <1>1, <3>2
    <3> QED BY <1>5, <2>1, <3>2, <3>3
  <2> QED BY <2>1, <2>2
<1>7. ASSUME NEW n \in 1 .. h, n - 1 \in S PROVE n \in S
  <2>1. n \in 0 .. h
    OBVIOUS
  <2>2. ASSUME NEW s \in Level(fn)[n] PROVE Placed(fn, n, s)
    <3>1. PICK p \in Level(fn)[n - 1] : s \in Parts(p)
      BY <1>3
    <3>2. Placed(fn, n - 1, p)
      BY <1>7
    <3>3. s.pos \in Nat /\ s.end \in Nat
      BY <1>4, <2>1
    <3>4. p.pos < s.pos /\ s.end <= p.end
      BY <3>1, <3>2, <3>3, PartsFacts DEF Placed
    <3>5. /\ p.pos \in Nat /\ p.end \in Nat
          /\ fn.body.pos + (n - 1) < p.pos /\ p.end <= fn.body.end
      BY <3>2 DEF Placed
    <3>6. fn.body.pos + n < s.pos /\ s.end <= fn.body.end
      BY <1>1, <1>2, <3>3, <3>4, <3>5
    <3> QED BY <1>5, <2>1, <3>6
  <2> QED BY <2>1, <2>2
<1>8. \A n \in 0 .. h : n \in S
  <2> HIDE DEF S
  <2> QED BY <1>2, <1>6, <1>7, Induction
<1> QED BY <1>1, <1>2, <1>8 DEF h

-----------------------------------------------------------------------------
(* The lists that are searched.                                            *)

Ordered(list) ==
    /\ IsList(list)
    /\ \A i, j \in 1 .. Len(list) : i < j => list[i].end < list[j].pos

LEMMA OrderedNothing == Ordered(<<>>) /\ Range(<<>>) = {}
<1>1. IsList(<<>>) /\ Len(<<>>) = 0 /\ Range(<<>>) = {}
  BY EmptySeq DEF IsList, Range
<1> QED BY <1>1 DEF Ordered

LEMMA OrderedBlock ==
    ASSUME NEW block, IsBlock(block), NEW cursor
    PROVE  /\ Ordered(block.list) /\ Ordered(CollectVisibleInBlock(block, cursor))
           /\ Range(CollectVisibleInBlock(block, cursor)) \subseteq Range(block.list)
           /\ Holds(block, cursor) => CollectVisibleInBlock(block, cursor) = block.list
<1>1. IsList(block.list)
  BY DEF IsBlock
<1>2. DOMAIN block.list = 1 .. Len(block.list)
  BY <1>1, ListFacts
<1>3. Ordered(block.list)
  BY <1>1, <1>2 DEF Ordered, IsBlock
<1>4. CASE Holds(block, cursor)
  BY <1>3, <1>4 DEF CollectVisibleInBlock
<1>5. CASE ~ Holds(block, cursor)
  BY <1>3, <1>5, OrderedNothing DEF CollectVisibleInBlock
<1> QED BY <1>4, <1>5

\* Two ordered lists, the one before the other, in one.
LEMMA OrderedConcat ==
    ASSUME NEW r, Ordered(r), NEW s, Ordered(s),
           \A x \in Range(r), y \in Range(s) : x.end < y.pos
    PROVE  Ordered(r \o s)
<1> DEFINE q == r \o s
           m == Len(r)
           n == Len(s)
<1>1. IsList(r) /\ IsList(s)
  BY DEF Ordered
<1>2. /\ IsList(q) /\ Len(q) = m + n /\ m \in Nat /\ n \in Nat
      /\ \A k \in 1 .. m + n : q[k] = IF k <= m THEN r[k] ELSE s[k - m]
  BY <1>1, ConcatList, ConcatPlaces, ListFacts
<1>3. /\ \A k \in 1 .. m : r[k] \in Range(r)
      /\ \A k \in 1 .. n : s[k] \in Range(s)
  BY <1>1, ListFacts
<1>4. /\ \A i, j \in 1 .. m : i < j => r[i].end < r[j].pos
      /\ \A i, j \in 1 .. n : i < j => s[i].end < s[j].pos
  BY DEF Ordered
<1> HIDE DEF q, m, n
<1>5. ASSUME NEW i \in 1 .. m + n, NEW j \in 1 .. m + n, i < j
      PROVE  q[i].end < q[j].pos
  <2>1. CASE j <= m
    <3>1. i \in 1 .. m /\ j \in 1 .. m /\ i <= m
      BY <1>2, <1>5, <2>1
    <3>2. q[i] = r[i] /\ q[j] = r[j]
      BY <1>2, <2>1, <3>1
    <3> QED BY <1>4, <1>5, <3>1, <3>2
  <2>2. CASE ~ (j <= m) /\ i <= m
    <3>1. i \in 1 .. m /\ j - m \in 1 .. n
      BY <1>2, <1>5, <2>2
    <3>2. q[i] = r[i] /\ q[j] = s[j - m]
      BY <1>2, <2>2
    <3> QED BY <1>3, <3>1, <3>2
  <2>3. CASE ~ (j <= m) /\ ~ (i <= m)
    <3>1. i - m \in 1 .. n /\ j - m \in 1 .. n /\ i - m < j - m
      BY <1>2, <1>5, <2>3
    <3>2. q[i] = s[i - m] /\ q[j] = s[j - m]
      BY <1>2, <2>3
    <3> QED BY <1>4, <3>1, <3>2
  <2> QED BY <2>1, <2>2, <2>3
<1>6. Ordered(q)
  BY <1>2, <1>5 DEF Ordered
<1> QED BY <1>6 DEF q

\* The list a statement leads to is made of its parts, in order.
LEMMA InsideFacts ==
    ASSUME NEW s, IsStatement(s), NEW cursor,
           \A t \in Parts(s) : t.pos \in Nat /\ t.end \in Nat
    PROVE  /\ Ordered(CollectInside(s, cursor))
           /\ Range(CollectInside(s, cursor)) \subseteq Range(s.body.list) \cup Range(s.else)
<1> DEFINE block == CollectVisibleInBlock(s.body, cursor)
<1>1. /\ IsList(s.else) /\ Len(s.else) <= 1
      /\ s.kind \in Compound => IsBlock(s.body)
      /\ \A t \in Range(s.else) : s.body.end < t.pos
  BY DEF IsStatement
<1>2. CASE s.kind = "if"
  <2>1. IsBlock(s.body)
    BY <1>1, <1>2 DEF Compound
  <2>2. Ordered(block) /\ Range(block) \subseteq Range(s.body.list)
    BY <2>1, OrderedBlock
  <2>3. Ordered(s.else)
    <3>1. Len(s.else) \in Nat
      BY <1>1, ListFacts
    <3> QED BY <1>1, <3>1 DEF Ordered
  <2>4. ASSUME NEW x \in Range(block), NEW y \in Range(s.else) PROVE x.end < y.pos
    <3>1. x \in Range(s.body.list) /\ x \in Parts(s) /\ y \in Parts(s)
      BY <2>2 DEF Parts
    <3>2. PICK i \in DOMAIN s.body.list : x = s.body.list[i]
      BY <3>1 DEF Range
    <3>3. x.end <= s.body.end /\ s.body.end \in Nat
      BY <2>1, <3>2 DEF IsBlock
    <3> QED BY <1>1, <3>1, <3>3
  <2>5. CollectInside(s, cursor) = block \o s.else
    BY <1>2 DEF CollectInside, Switches
  <2> HIDE DEF block
  <2>6. Range(block \o s.else) = Range(block) \cup Range(s.else)
    BY <1>1, <2>2, ConcatList DEF Ordered
  <2> QED BY <2>2, <2>3, <2>4, <2>5, <2>6, OrderedConcat
<1>3. CASE s.kind \in {"for", "range", "block"} \cup Switches
  <2>1. IsBlock(s.body)
    BY <1>1, <1>3 DEF Compound
  <2>2. CollectInside(s, cursor) = block
    BY <1>3 DEF CollectInside, Switches
  <2> QED BY <2>1, <2>2, OrderedBlock
<1>4. CASE s.kind = "case"
  <2>1. IsBlock(s.body)
    BY <1>1, <1>4 DEF Compound, Clauses
  <2>2. CollectInside(s, cursor) = s.body.list
    BY <1>4 DEF CollectInside, Switches
  <2> QED BY <2>1, <2>2, OrderedBlock
<1>5. CASE s.kind \notin {"if", "case", "for", "range", "block"} \cup Switches
  <2>1. CollectInside(s, cursor) = <<>>
    BY <1>5 DEF CollectInside, Switches
  <2> QED BY <2>1, OrderedNothing
<1> QED BY <1>2, <1>3, <1>4, <1>5

\* The list searched after a list: parts of the statements that hold the cursor.
LEMMA DeeperFacts ==
    ASSUME NEW list, Ordered(list), NEW cursor,
           \A s \in Range(list) : /\ IsStatement(s)
                                  /\ \A t \in Parts(s) : t.pos \in Nat /\ t.end \in Nat
    PROVE  /\ Ordered(Deeper(list, cursor))
           /\ \A t : t \in Range(Deeper(list, cursor)) <=>
                \E s \in Range(list) : Holds(s, cursor) /\ t \in Range(CollectInside(s, cursor))
<1> DEFINE n == Len(list)
           ss == [i \in DOMAIN list |->
                    IF Holds(list[i], cursor) THEN CollectInside(list[i], cursor) ELSE <<>>]
           r == FlattenSeq(ss)
<1>1. IsList(list)
  BY DEF Ordered
<1>2. n \in Nat /\ DOMAIN list = 1 .. n /\ \A i \in 1 .. n : list[i] \in Range(list)
  BY <1>1, ListFacts
<1>3. \A i \in 1 .. n :
        ss[i] = IF Holds(list[i], cursor) THEN CollectInside(list[i], cursor) ELSE <<>>
  BY <1>2
<1>4. ss = [i \in 1 .. n |-> ss[i]]
  BY <1>2
<1>5. r = Deeper(list, cursor)
  BY DEF Deeper
<1> HIDE DEF ss
<1>6. ASSUME NEW i \in 1 .. n
      PROVE  /\ Ordered(ss[i])
             /\ \A t : t \in Range(ss[i]) <=>
                         Holds(list[i], cursor) /\ t \in Range(CollectInside(list[i], cursor))
             /\ \A t \in Range(ss[i]) : t \in Parts(list[i])
  <2>1. IsStatement(list[i]) /\ \A t \in Parts(list[i]) : t.pos \in Nat /\ t.end \in Nat
    BY <1>2
  <2>2. /\ Ordered(CollectInside(list[i], cursor))
        /\ \A t \in Range(CollectInside(list[i], cursor)) : t \in Parts(list[i])
    BY <2>1, InsideFacts DEF Parts
  <2>3. CASE Holds(list[i], cursor)
    BY <1>3, <2>2, <2>3
  <2>4. CASE ~ Holds(list[i], cursor)
    <3>1. ss[i] = <<>>
      BY <1>3, <2>4
    <3> QED BY <2>4, <3>1, OrderedNothing
  <2> QED BY <2>3, <2>4
<1>7. Lists(ss, n)
  BY <1>2, <1>4, <1>6 DEF Lists, Ordered
<1>8. PICK base : Flat(r, ss, n, base)
  BY <1>7, FlattenFacts
<1>9. Range(r) = UNION {Range(ss[i]) : i \in 1 .. n}
  BY <1>7, <1>8, FlatRange
<1> HIDE DEF r, n
<1>10. ASSUME NEW t
       PROVE  t \in Range(r) <=>
                \E s \in Range(list) : Holds(s, cursor) /\ t \in Range(CollectInside(s, cursor))
  <2>1. ASSUME t \in Range(r)
        PROVE  \E s \in Range(list) : Holds(s, cursor) /\ t \in Range(CollectInside(s, cursor))
    <3>1. PICK i \in 1 .. n : t \in Range(ss[i])
      BY <1>9, <2>1
    <3> QED BY <1>2, <1>6, <3>1
  <2>2. ASSUME NEW s \in Range(list), Holds(s, cursor), t \in Range(CollectInside(s, cursor))
        PROVE  t \in Range(r)
    <3>1. PICK i \in 1 .. n : s = list[i]
      BY <1>1, ListFacts DEF n
    <3>2. t \in Range(ss[i])
      BY <1>6, <2>2, <3>1
    <3> QED BY <1>9, <3>2
  <2> QED BY <2>1, <2>2
<1>11. ASSUME NEW m \in 1 .. Len(r), NEW q \in 1 .. Len(r), m < q
       PROVE  r[m].end < r[q].pos
  <2> DEFINE Comes(o, i, k) == o = base[i] + k /\ r[o] = ss[i][k]
  <2>1. ASSUME NEW o \in 1 .. Len(r)
        PROVE  \E i \in 1 .. n : \E k \in 1 .. Len(ss[i]) : Comes(o, i, k)
    <3>1. PICK i \in 1 .. n : \E k \in 1 .. Len(ss[i]) : o = base[i] + k
      BY <1>8 DEF Flat
    <3>2. PICK k \in 1 .. Len(ss[i]) : o = base[i] + k
      BY <3>1
    <3>3. r[base[i] + k] = ss[i][k]
      BY <1>8 DEF Flat
    <3> QED BY <3>2, <3>3
  <2>2. PICK i \in 1 .. n : \E k \in 1 .. Len(ss[i]) : Comes(m, i, k)
    BY <2>1
  <2>3. PICK k \in 1 .. Len(ss[i]) : Comes(m, i, k)
    BY <2>2
  <2>4. PICK j \in 1 .. n : \E l \in 1 .. Len(ss[j]) : Comes(q, j, l)
    BY <2>1
  <2>5. PICK l \in 1 .. Len(ss[j]) : Comes(q, j, l)
    BY <2>4
  <2>6. i < j \/ (i = j /\ k < l)
    BY <1>7, <1>8, <1>11, <2>3, <2>5, FlatOrder
  <2>7. CASE i = j /\ k < l
    BY <1>6, <2>3, <2>5, <2>7 DEF Ordered
  <2>8. CASE i < j
    <3>1. r[m] \in Parts(list[i]) /\ r[q] \in Parts(list[j])
      BY <1>6, <2>3, <2>5, ListFacts DEF Ordered
    <3>2. /\ IsStatement(list[i]) /\ IsStatement(list[j])
          /\ r[m].pos \in Nat /\ r[m].end \in Nat /\ r[q].pos \in Nat /\ r[q].end \in Nat
      BY <1>2, <3>1
    <3>3. r[m].end <= list[i].end /\ list[j].pos < r[q].pos
      BY <3>1, <3>2, PartsFacts
    <3>4. list[i].end < list[j].pos
      BY <2>8 DEF Ordered, n
    <3>5. list[i].end \in Nat /\ list[j].pos \in Nat
      BY <3>2 DEF IsStatement
    <3> QED BY <3>2, <3>3, <3>4, <3>5
  <2> QED BY <2>6, <2>7, <2>8
<1>12. Ordered(r)
  BY <1>8, <1>11 DEF Ordered, Flat
<1> QED BY <1>5, <1>10, <1>12

\* The list searched at depth n: statements of level n, in order.
LEMMA PathFacts ==
    ASSUME NEW fn, IsFunction(fn), NEW cursor \in Nat, Holds(fn.body, cursor)
    PROVE  /\ cursor - fn.body.pos \in 0 .. Height(fn)
           /\ Searched(fn, cursor)[0] = fn.body.list
           /\ \A n \in 0 .. cursor - fn.body.pos :
                /\ Ordered(Searched(fn, cursor)[n])
                /\ Range(Searched(fn, cursor)[n]) \subseteq Level(fn)[n]
           /\ \A n \in 1 .. cursor - fn.body.pos :
                \A t : t \in Range(Searched(fn, cursor)[n]) <=>
                         \E s \in Range(Searched(fn, cursor)[n - 1]) :
                            Holds(s, cursor) /\ t \in Range(CollectInside(s, cursor))
<1> DEFINE d == cursor - fn.body.pos
           L == Searched(fn, cursor)
           Found(n) == \A t : t \in Range(L[n]) <=>
                                \E s \in Range(L[n - 1]) :
                                   Holds(s, cursor) /\ t \in Range(CollectInside(s, cursor))
           S == {n \in 0 .. d : /\ Ordered(L[n]) /\ Range(L[n]) \subseteq Level(fn)[n]
                                /\ n # 0 => Found(n)}
<1>1. /\ Height(fn) \in Nat \ {0} /\ fn.body.pos \in Nat /\ fn.body.end \in Nat
      /\ \A n \in 0 .. Height(fn) : \A s \in Level(fn)[n] : Placed(fn, n, s)
  BY LevelFacts
<1>2. /\ d \in 0 .. Height(fn) /\ d \in Nat
      /\ \A n \in 0 .. d : n \in 0 .. Height(fn)
  BY <1>1 DEF Holds, Height
<1>3. /\ L[0] = CollectVisibleInBlock(fn.body, cursor)
      /\ \A n \in 1 .. d : L[n] = Deeper(L[n - 1], cursor)
  BY <1>2, SearchedSteps
<1>4. IsBlock(fn.body)
  BY DEF IsFunction
<1>5. L[0] = fn.body.list /\ Ordered(L[0])
  BY <1>3, <1>4, OrderedBlock
<1>6. Level(fn)[0] = Range(fn.body.list)
  BY <1>1, LevelSteps
<1>7. ASSUME NEW n \in 0 .. Height(fn), NEW s \in Level(fn)[n]
      PROVE  IsStatement(s) /\ \A t \in Parts(s) : t.pos \in Nat /\ t.end \in Nat
  <2>1. Placed(fn, n, s)
    BY <1>1
  <2>2. \A t \in Parts(s) : Placed(fn, n + 1, t)
    BY <1>1, <2>1 DEF Placed
  <2> QED BY <2>1, <2>2 DEF Placed
<1> HIDE DEF d, L, Found
<1>8. 0 \in S
  BY <1>2, <1>5, <1>6
<1>9. ASSUME NEW n \in 1 .. d, n - 1 \in S PROVE n \in S
  <2>1. n - 1 \in 0 .. Height(fn) /\ n \in 0 .. d /\ (n - 1) + 1 = n
    BY <1>2
  <2>2. Ordered(L[n - 1]) /\ Range(L[n - 1]) \subseteq Level(fn)[n - 1]
    BY <1>9
  <2>3. \A s \in Range(L[n - 1]) : /\ IsStatement(s)
                                   /\ \A t \in Parts(s) : t.pos \in Nat /\ t.end \in Nat
    BY <1>7, <2>1, <2>2
  <2>4. /\ Ordered(Deeper(L[n - 1], cursor))
        /\ \A t : t \in Range(Deeper(L[n - 1], cursor)) <=>
             \E s \in Range(L[n - 1]) : Holds(s, cursor) /\ t \in Range(CollectInside(s, cursor))
    BY <2>2, <2>3, DeeperFacts
  <2>5. Ordered(L[n]) /\ Found(n)
    BY <1>3, <2>4 DEF Found
  <2>6. ASSUME NEW t \in Range(L[n]) PROVE t \in Level(fn)[n]
    <3>1. PICK s \in Range(L[n - 1]) : t \in Range(CollectInside(s, cursor))
      BY <2>5 DEF Found
    <3>2. t \in Parts(s)
      BY <2>3, <3>1, InsideFacts DEF Parts
    <3>3. Placed(fn, n - 1, s)
      BY <1>1, <2>1, <2>2
    <3> QED BY <2>1, <3>2, <3>3 DEF Placed
  <2> QED BY <2>1, <2>5, <2>6
<1>10. \A n \in 0 .. d : n \in S
  <2> HIDE DEF S
  <2> QED BY <1>2, <1>8, <1>9, Induction
<1>11. \A n \in 1 .. d : n \in 0 .. d /\ n # 0
  OBVIOUS
<1>12. \A n \in 1 .. d : Found(n)
  BY <1>10, <1>11
<1>13. \A n \in 0 .. d : Ordered(L[n]) /\ Range(L[n]) \subseteq Level(fn)[n]
  BY <1>10
<1> HIDE DEF S
<1> QED BY <1>2, <1>5, <1>12, <1>13 DEF Found, d, L

-----------------------------------------------------------------------------
(* What is collected. *)

\* What a statement adds, and the offset from which that is in scope.
Contributed(s, cursor) ==
    CASE s.end < cursor   -> CollectSameScopeIdentifiers(s)
      [] Holds(s, cursor) -> CollectContainedScopeIdentifiers(s, cursor)
      [] OTHER            -> <<>>

FromOf(s) ==
    CASE s.kind \in {"var", "define"} -> s.end
      [] s.kind = "range"             -> s.body.pos
      [] OTHER                        -> s.init[1].end + 1

Group(s, cursor) == At(Contributed(s, cursor), FromOf(s))

LEMMA OneInit ==
    ASSUME NEW s, NEW cursor, IsList(s.init), Len(s.init) = 1
    PROVE  /\ InitIdentifiers(s, cursor) = IF s.init[1].end < cursor
                                           THEN CollectSameScopeIdentifiers(s.init[1]) ELSE <<>>
           /\ Range(s.init) = {s.init[1]}
<1> DEFINE one == 1
           ss == [i \in DOMAIN s.init |->
                    IF s.init[i].end < cursor THEN CollectSameScopeIdentifiers(s.init[i]) ELSE <<>>]
<1>1. DOMAIN s.init = 1 .. one
  BY ListFacts
<1>2. ss = [i \in 1 .. one |-> ss[i]]
  BY <1>1
<1>3. one \in Nat \ {0} /\ 1 \in DOMAIN s.init
  BY <1>1
<1>4. ss[1] = IF s.init[1].end < cursor THEN CollectSameScopeIdentifiers(s.init[1]) ELSE <<>>
  BY <1>3
<1>5. InitIdentifiers(s, cursor) = FlattenSeq(ss)
  BY DEF InitIdentifiers
<1>6. \A i \in 1 .. one : i = 1
  OBVIOUS
<1>7. Range(s.init) = {s.init[1]}
  BY <1>1, <1>3, <1>6 DEF Range
<1> HIDE DEF ss, one
<1>8. Len(ss) = one
  BY <1>2, <1>3, ListOfFunction
<1>9. PICK f : /\ FlattenSeq(ss) = f[one] /\ f[1] = ss[1]
               /\ \A i \in 2 .. one : f[i] = f[i - 1] \o ss[i]
  <2>1. one \in Nat \ {0} /\ Len(ss) = one
    BY <1>3, <1>8
  <2> QED BY <2>1, FlattenSteps, Zenon
<1>10. FlattenSeq(ss) = ss[1]
  BY <1>9 DEF one
<1> QED BY <1>4, <1>5, <1>7, <1>10

LEMMA NoInit ==
    ASSUME NEW s, NEW cursor, s.init = <<>>
    PROVE  InitIdentifiers(s, cursor) = <<>>
<1> DEFINE ss == [i \in DOMAIN s.init |->
                    IF s.init[i].end < cursor THEN CollectSameScopeIdentifiers(s.init[i]) ELSE <<>>]
           none == 0
<1>1. DOMAIN s.init = 1 .. none
  BY SMT
<1>2. none \in Nat /\ ss = [i \in 1 .. none |-> ss[i]]
  BY <1>1
<1>3. InitIdentifiers(s, cursor) = FlattenSeq(ss)
  BY DEF InitIdentifiers
<1> HIDE DEF ss, none
<1>4. IsList(ss) /\ Len(ss) = none
  BY <1>2, ListOfFunction
<1>5. Len(ss) = 0
  BY <1>4 DEF none
<1>6. FlattenSeq(ss) = ss
  BY <1>5 DEF FlattenSeq
<1>7. ss = <<>>
  BY <1>4, <1>5, EmptySeq DEF IsList
<1> QED BY <1>3, <1>6, <1>7

\* What a statement adds are names it or its init statement declares.
LEMMA ContributedIs ==
    ASSUME NEW s, IsStatement(s), NEW cursor \in Nat, \A t \in Parts(s) : IsStatement(t)
    PROVE  \/ Contributed(s, cursor) = <<>>
           \/ /\ s.kind \in {"var", "define"} /\ s.end <= cursor
              /\ Contributed(s, cursor) = s.names
           \/ /\ s.kind = "range" /\ Holds(s, cursor) /\ Holds(s.body, cursor)
              /\ Contributed(s, cursor) = s.names
           \/ /\ s.kind \notin {"var", "define", "range"} /\ Holds(s, cursor)
              /\ s.init # <<>> /\ Range(s.init) = {s.init[1]} /\ s.init[1].end < cursor
              /\ Contributed(s, cursor) = s.init[1].names
<1>1. /\ s.pos \in Nat /\ s.end \in Nat /\ IsList(s.init) /\ Len(s.init) <= 1
      /\ \A i \in Range(s.init) : i.kind \in Simple
  BY DEF IsStatement
<1>2. CASE s.end < cursor
  <2>1. Contributed(s, cursor) = CollectSameScopeIdentifiers(s)
    BY <1>1, <1>2 DEF Contributed, Holds
  <2> QED BY <1>1, <1>2, <2>1 DEF CollectSameScopeIdentifiers
<1>3. CASE ~ (s.end < cursor) /\ ~ Holds(s, cursor)
  BY <1>3 DEF Contributed
<1>4. CASE ~ (s.end < cursor) /\ Holds(s, cursor)
  <2>1. Contributed(s, cursor) = CollectContainedScopeIdentifiers(s, cursor)
    BY <1>4 DEF Contributed
  <2>2. CASE s.kind \in {"var", "define"}
    <3>1. Contributed(s, cursor) = IF s.end <= cursor THEN s.names ELSE <<>>
      BY <2>1, <2>2 DEF CollectContainedScopeIdentifiers
    <3> QED BY <2>2, <3>1
  <2>3. CASE s.kind = "range"
    <3>1. Contributed(s, cursor) = IF Holds(s.body, cursor) THEN s.names ELSE <<>>
      BY <2>1, <2>3 DEF CollectContainedScopeIdentifiers
    <3> QED BY <1>4, <2>3, <3>1
  <2>4. CASE s.kind \notin {"var", "define", "range"}
    <3>1. Contributed(s, cursor) = InitIdentifiers(s, cursor)
      BY <2>1, <2>4 DEF CollectContainedScopeIdentifiers
    <3>2. CASE s.init = <<>>
      BY <3>1, <3>2, NoInit
    <3>3. CASE s.init # <<>>
      <4>1. Len(s.init) = 1
        <5> DEFINE n == Len(s.init)
        <5>1. n \in Nat /\ n # 0
          BY <1>1, <3>3, ListFacts, EmptySeq DEF IsList
        <5>2. n <= 1
          BY <1>1
        <5> HIDE DEF n
        <5>3. n = 1
          BY <5>1, <5>2
        <5> QED BY <5>3 DEF n
      <4>2. /\ Contributed(s, cursor) = IF s.init[1].end < cursor
                                        THEN CollectSameScopeIdentifiers(s.init[1]) ELSE <<>>
            /\ Range(s.init) = {s.init[1]}
        BY <1>1, <3>1, <4>1, OneInit
      <4>3. CollectSameScopeIdentifiers(s.init[1]) \in {s.init[1].names, <<>>}
        BY DEF CollectSameScopeIdentifiers
      <4> QED BY <1>4, <2>4, <3>3, <4>2, <4>3
    <3> QED BY <3>2, <3>3
  <2> QED BY <2>2, <2>3, <2>4
<1> QED BY <1>2, <1>3, <1>4

LEMMA AtNothing == \A from : At(<<>>, from) = {}
<1>1. Range(<<>>) = {}
  BY DEF Range
<1> QED BY <1>1 DEF At

\* They are in scope from an offset inside the statement, before its body's parts.
LEMMA GroupFacts ==
    ASSUME NEW s, IsStatement(s), NEW cursor \in Nat, \A t \in Parts(s) : IsStatement(t)
    PROVE  /\ Dated(Contributed(s, cursor), Group(s, cursor))
           /\ \A d \in Group(s, cursor) :
                /\ d[2] = FromOf(s) /\ d[2] \in Nat /\ s.pos <= d[2] /\ d[2] <= s.end
                /\ s.pos <= cursor
                /\ s.kind \in {"var", "define"} \/ d[2] <= s.body.pos
<1>1. /\ s.pos \in Nat /\ s.end \in Nat /\ s.pos < s.end /\ DeclaresOnce(s.names)
      /\ s.kind \in Simple \cup Compound
      /\ s.kind \in Simple => s.init = <<>>
      /\ s.kind \in Compound => IsBlock(s.body) /\ s.pos <= s.body.pos /\ s.body.end <= s.end
      /\ \A i \in Range(s.init) : s.pos < i.pos /\ i.end < s.body.pos
  BY DEF IsStatement, Simple
<1>2. s.kind \in Compound => s.body.pos \in Nat /\ s.body.pos <= s.end
  BY <1>1 DEF IsBlock
<1>3. \A d \in Group(s, cursor) : d[2] = FromOf(s)
  BY DEF Group, At
<1>4. CASE Contributed(s, cursor) = <<>>
  <2>1. Group(s, cursor) = {}
    BY <1>4, AtNothing DEF Group
  <2> QED BY <1>4, <2>1, DatedNothing
<1>5. CASE /\ s.kind \in {"var", "define"} /\ s.end <= cursor
           /\ Contributed(s, cursor) = s.names
  <2>1. FromOf(s) = s.end
    BY <1>5 DEF FromOf
  <2>2. Dated(Contributed(s, cursor), Group(s, cursor))
    BY <1>1, <1>5, <2>1, DatedNames DEF Group
  <2>3. s.pos <= cursor
    BY <1>1, <1>5
  <2> QED BY <1>1, <1>3, <1>5, <2>1, <2>2, <2>3
<1>6. CASE /\ s.kind = "range" /\ Holds(s, cursor) /\ Holds(s.body, cursor)
           /\ Contributed(s, cursor) = s.names
  <2>1. FromOf(s) = s.body.pos
    BY <1>6 DEF FromOf
  <2>2. s.kind \in Compound
    BY <1>6 DEF Compound
  <2>3. Dated(Contributed(s, cursor), Group(s, cursor))
    BY <1>1, <1>2, <1>6, <2>1, <2>2, DatedNames DEF Group
  <2> QED BY <1>1, <1>2, <1>3, <1>6, <2>1, <2>2, <2>3 DEF Holds
<1>7. CASE /\ s.kind \notin {"var", "define", "range"} /\ Holds(s, cursor)
           /\ s.init # <<>> /\ Range(s.init) = {s.init[1]} /\ s.init[1].end < cursor
           /\ Contributed(s, cursor) = s.init[1].names
  <2> DEFINE i == s.init[1]
  <2>1. FromOf(s) = i.end + 1
    BY <1>7 DEF FromOf
  <2>2. i \in Range(s.init)
    BY <1>7
  <2>3. IsStatement(i)
    BY <2>2 DEF Parts
  <2>4. i.pos \in Nat /\ i.end \in Nat /\ i.pos < i.end /\ DeclaresOnce(i.names)
    BY <2>3 DEF IsStatement
  <2>5. s.kind \in Compound
    BY <1>1, <1>7
  <2>6. s.pos < i.pos /\ i.end < s.body.pos
    BY <1>1, <2>2
  <2> HIDE DEF i
  <2>7. i.end + 1 \in Nat /\ s.pos <= i.end + 1 /\ i.end + 1 <= s.end /\ i.end + 1 <= s.body.pos
    BY <1>1, <1>2, <2>4, <2>5, <2>6
  <2>8. Dated(Contributed(s, cursor), Group(s, cursor))
    <3>1. Contributed(s, cursor) = i.names
      BY <1>7 DEF i
    <3> QED BY <2>1, <2>4, <2>7, <3>1, DatedNames DEF Group
  <2> QED BY <1>3, <1>7, <2>1, <2>7, <2>8 DEF Holds
<1> QED BY <1>4, <1>5, <1>6, <1>7, ContributedIs

\* What the list at depth n adds.
AddedAt(fn, cursor, n) == UNION {Group(s, cursor) : s \in Range(Searched(fn, cursor)[n])}

AllAdded(fn, cursor) ==
    At(fn.fields, fn.body.pos) \cup UNION {AddedAt(fn, cursor, n) : n \in 0 .. cursor - fn.body.pos}

\* The statements a list of the path holds, and their parts.
LEMMA PathPlaced ==
    ASSUME NEW fn, IsFunction(fn), NEW cursor \in Nat, Holds(fn.body, cursor),
           NEW n \in 0 .. cursor - fn.body.pos, NEW s \in Range(Searched(fn, cursor)[n])
    PROVE  /\ Placed(fn, n, s) /\ s \in Level(fn)[n]
           /\ \A t \in Parts(s) : Placed(fn, n + 1, t) /\ IsStatement(t)
<1>1. n \in 0 .. Height(fn) /\ s \in Level(fn)[n]
  <2>1. Height(fn) \in Nat /\ cursor - fn.body.pos \in 0 .. Height(fn)
    BY PathFacts, LevelFacts
  <2>2. s \in Level(fn)[n]
    BY PathFacts
  <2> DEFINE d == cursor - fn.body.pos
             h == Height(fn)
  <2>3. d \in 0 .. h /\ n \in 0 .. d /\ h \in Nat
    BY <2>1
  <2> HIDE DEF d, h
  <2>4. n \in 0 .. h
    BY <2>3
  <2> QED BY <2>2, <2>4 DEF h
<1>2. Placed(fn, n, s)
  BY <1>1, LevelFacts
<1>3. n + 1 \in 0 .. Height(fn) /\ Parts(s) \subseteq Level(fn)[n + 1]
  BY <1>2 DEF Placed
<1>4. \A t \in Parts(s) : Placed(fn, n + 1, t)
  BY <1>3, LevelFacts
<1> QED BY <1>1, <1>2, <1>4 DEF Placed

\* A statement further in begins after whatever the lists around it add.
LEMMA AddedBefore ==
    ASSUME NEW fn, IsFunction(fn), NEW cursor \in Nat, Holds(fn.body, cursor),
           NEW m \in 0 .. cursor - fn.body.pos, NEW e \in AddedAt(fn, cursor, m)
    PROVE  \A n \in m + 1 .. cursor - fn.body.pos :
             \A t \in Range(Searched(fn, cursor)[n]) : e[2] < t.pos
<1> DEFINE d == cursor - fn.body.pos
           L == Searched(fn, cursor)
           S == {k \in 0 .. d - (m + 1) : \A t \in Range(L[m + 1 + k]) : e[2] < t.pos}
<1>1. /\ d \in Nat
      /\ \A n \in 0 .. d : Ordered(L[n]) /\ \A s \in Range(L[n]) : /\ Placed(fn, n, s)
                                 /\ \A t \in Parts(s) : Placed(fn, n + 1, t) /\ IsStatement(t)
      /\ \A n \in 1 .. d : \A t \in Range(L[n]) :
           \E s \in Range(L[n - 1]) : Holds(s, cursor) /\ t \in Range(CollectInside(s, cursor))
  <2>1. d \in Nat
    BY PathFacts, LevelFacts
  <2> QED BY <2>1, PathFacts, PathPlaced
<1>2. PICK s \in Range(L[m]) : e \in Group(s, cursor)
  BY DEF AddedAt
<1>3. m \in 0 .. d /\ m \in Nat
  OBVIOUS
<1> HIDE DEF d, L
<1>4. ASSUME NEW n \in 0 .. d, NEW p \in Range(L[n]), NEW t \in Range(CollectInside(p, cursor))
      PROVE  /\ t \in Parts(p) /\ t.pos \in Nat /\ p.pos \in Nat /\ p.end \in Nat /\ p.pos < t.pos
             /\ p.kind \notin {"var", "define"} /\ p.kind \in Compound /\ IsBlock(p.body)
             /\ t.kind \notin Simple \/ t \in Range(p.body.list)
             /\ p.body.pos < t.pos
  <2>1. IsStatement(p) /\ \A q \in Parts(p) : q.pos \in Nat /\ q.end \in Nat
    BY <1>1 DEF Placed
  <2>2. t \in Range(p.body.list) \cup Range(p.else)
    BY <2>1, InsideFacts
  <2>3. t \in Parts(p) /\ t.pos \in Nat /\ t.end \in Nat
    BY <2>1, <2>2 DEF Parts
  <2>4. /\ p.kind \in Compound /\ IsBlock(p.body) /\ p.pos < t.pos
        /\ p.pos \in Nat /\ p.end \in Nat
    BY <2>1, <2>3, PartsFacts DEF IsStatement
  <2>5. p.body.pos \in Nat /\ p.body.end \in Nat /\ p.body.pos < p.body.end
    BY <2>4 DEF IsBlock
  <2>6. CASE t \in Range(p.body.list)
    <3>1. PICK i \in DOMAIN p.body.list : t = p.body.list[i]
      BY <2>6 DEF Range
    <3>2. p.body.pos < t.pos
      BY <2>4, <3>1 DEF IsBlock
    <3>3. p.kind \notin {"var", "define"}
      BY <2>4 DEF Compound, Switches, Clauses
    <3> QED BY <2>3, <2>4, <2>6, <3>2, <3>3
  <2>7. CASE t \in Range(p.else)
    <3>1. t.kind \in {"if", "block"} /\ p.body.end < t.pos
      BY <2>1, <2>7 DEF IsStatement
    <3>2. p.body.pos < t.pos
      BY <2>3, <2>5, <3>1
    <3>3. p.kind \notin {"var", "define"}
      BY <2>4 DEF Compound, Switches, Clauses
    <3>4. t.kind \notin Simple
      BY <3>1 DEF Simple
    <3> QED BY <2>3, <2>4, <3>2, <3>3, <3>4
  <2> QED BY <2>2, <2>6, <2>7
<1>5. /\ IsStatement(s) /\ s.pos \in Nat /\ s.end \in Nat /\ e[2] \in Nat
      /\ e[2] <= s.end /\ s.pos <= cursor
      /\ s.kind \in {"var", "define"} \/ e[2] <= s.body.pos
  <2>1. Placed(fn, m, s) /\ \A t \in Parts(s) : IsStatement(t)
    BY <1>1, <1>2, <1>3
  <2> QED BY <1>2, <2>1, GroupFacts DEF Placed
<1>6. ASSUME m + 1 <= d, NEW t \in Range(L[m + 1]) PROVE e[2] < t.pos
  <2>1. m + 1 \in 1 .. d /\ (m + 1) - 1 = m
    BY <1>1, <1>3, <1>6
  <2>2. PICK p \in Range(L[m]) : Holds(p, cursor) /\ t \in Range(CollectInside(p, cursor))
    BY <1>1, <2>1
  <2>3. /\ t.pos \in Nat /\ p.pos \in Nat /\ p.end \in Nat /\ p.pos < t.pos
        /\ p.kind \notin {"var", "define"} /\ IsBlock(p.body) /\ p.body.pos < t.pos
    BY <1>3, <1>4, <2>2
  <2>4. CASE s = p
    BY <1>5, <2>3, <2>4 DEF IsBlock
  <2>5. CASE s # p
    <3>1. IsList(L[m]) /\ \A i, j \in 1 .. Len(L[m]) : i < j => L[m][i].end < L[m][j].pos
      BY <1>1, <1>3 DEF Ordered
    <3>2. PICK i \in 1 .. Len(L[m]) : s = L[m][i]
      BY <1>2, <3>1, ListFacts
    <3>3. PICK j \in 1 .. Len(L[m]) : p = L[m][j]
      BY <2>2, <3>1, ListFacts
    <3>4. i < j \/ j < i
      BY <2>5, <3>2, <3>3
    <3>5. s.end < p.pos \/ p.end < s.pos
      BY <3>1, <3>2, <3>3, <3>4
    <3>6. ~ (p.end < s.pos)
      BY <1>5, <2>2, <2>3 DEF Holds
    <3> QED BY <1>5, <2>3, <3>5, <3>6
  <2> QED BY <2>4, <2>5
<1>7. CASE m + 1 <= d
  <2> DEFINE h == d - (m + 1)
  <2>1. h \in Nat
    BY <1>1, <1>3, <1>7
  <2>2. 0 \in S
    <3>1. m + 1 + 0 = m + 1
      BY <1>3
    <3> QED BY <1>6, <1>7, <2>1, <3>1
  <2>3. ASSUME NEW k \in 1 .. h, k - 1 \in S PROVE k \in S
    <3>1. ASSUME NEW t \in Range(L[m + 1 + k]) PROVE e[2] < t.pos
      <4>1. /\ m + 1 + k \in 1 .. d /\ (m + 1 + k) - 1 = m + 1 + (k - 1)
            /\ m + 1 + (k - 1) \in 0 .. d
        BY <1>1, <1>3
      <4>2. PICK p \in Range(L[m + 1 + (k - 1)]) : t \in Range(CollectInside(p, cursor))
        BY <1>1, <4>1
      <4>3. e[2] < p.pos
        BY <2>3, <4>2
      <4>4. t.pos \in Nat /\ p.pos \in Nat /\ p.pos < t.pos
        BY <1>4, <4>1, <4>2
      <4> QED BY <1>5, <4>3, <4>4
    <3> QED BY <3>1
  <2>4. 0 .. h \subseteq S
    <3> HIDE DEF S, h
    <3> QED BY <2>1, <2>2, <2>3, Induction
  <2>5. ASSUME NEW n \in m + 1 .. d PROVE \A t \in Range(L[n]) : e[2] < t.pos
    <3>1. n - (m + 1) \in 0 .. h /\ m + 1 + (n - (m + 1)) = n
      BY <1>1, <1>3
    <3> QED BY <2>4, <3>1
  <2> QED BY <2>5 DEF d, L
<1>8. CASE ~ (m + 1 <= d)
  <2>1. \A n \in m + 1 .. d : FALSE
    BY <1>1, <1>3, <1>8
  <2> QED BY <2>1 DEF d, L
<1> QED BY <1>7, <1>8

LEMMA ListDated ==
    ASSUME NEW fn, IsFunction(fn), NEW cursor \in Nat, Holds(fn.body, cursor),
           NEW n \in 0 .. cursor - fn.body.pos
    PROVE  /\ Dated(CollectStatements(Searched(fn, cursor)[n], cursor), AddedAt(fn, cursor, n))
           /\ \A e \in AddedAt(fn, cursor, n) : e[2] \in Nat /\ fn.body.pos < e[2]
           /\ \A e \in AddedAt(fn, cursor, n) :
                \E s \in Range(Searched(fn, cursor)[n]) : s.pos <= e[2]
<1> DEFINE list == Searched(fn, cursor)[n]
           m == Len(list)
           ss == [i \in DOMAIN list |-> Contributed(list[i], cursor)]
           D == [i \in 1 .. m |-> Group(list[i], cursor)]
<1>1. Ordered(list) /\ IsList(list)
  BY PathFacts DEF Ordered
<1>2. m \in Nat /\ DOMAIN list = 1 .. m
  BY <1>1, ListFacts
<1>3. \A s \in Range(list) : Placed(fn, n, s) /\ \A t \in Parts(s) : IsStatement(t)
  BY PathPlaced
<1>4. ASSUME NEW s \in Range(list)
      PROVE  /\ s.pos \in Nat /\ s.end \in Nat /\ fn.body.pos < s.pos
             /\ Dated(Contributed(s, cursor), Group(s, cursor))
             /\ \A d \in Group(s, cursor) : d[2] \in Nat /\ s.pos <= d[2] /\ d[2] <= s.end
  <2>1. IsStatement(s) /\ \A t \in Parts(s) : IsStatement(t)
    BY <1>3 DEF Placed
  <2>2. s.pos \in Nat /\ s.end \in Nat /\ fn.body.pos + n < s.pos
    BY <1>3 DEF Placed
  <2>3. fn.body.pos \in Nat /\ n \in Nat
    BY LevelFacts
  <2>4. fn.body.pos < s.pos
    BY <2>2, <2>3
  <2> QED BY <2>1, <2>2, <2>4, GroupFacts
<1>5. CollectStatements(list, cursor) = FlattenSeq(ss)
  BY DEF CollectStatements, Contributed
<1>6. AddedAt(fn, cursor, n) = UNION {D[i] : i \in 1 .. m}
  <2>1. Range(list) = {list[i] : i \in 1 .. m}
    BY <1>2 DEF Range
  <2> HIDE DEF list, m
  <2>2. AddedAt(fn, cursor, n) = UNION {Group(s, cursor) : s \in Range(list)}
    BY DEF AddedAt, list
  <2> QED BY <2>1, <2>2
<1>7. \A i \in 1 .. m : list[i] \in Range(list)
  BY <1>1, ListFacts
<1>8. \A i \in 1 .. m : ss[i] = Contributed(list[i], cursor) /\ D[i] = Group(list[i], cursor)
  BY <1>2
<1>9. ss = [i \in 1 .. m |-> ss[i]]
  BY <1>2
<1>10. \A i, j \in 1 .. m : i < j => list[i].end < list[j].pos
  BY <1>1 DEF Ordered
<1> HIDE DEF ss, D, m, list
<1>11. \A i \in 1 .. m : Dated(ss[i], D[i])
  BY <1>4, <1>7, <1>8
<1>12. Lists(ss, m)
  BY <1>2, <1>9, <1>11 DEF Lists, Dated
<1>13. ASSUME NEW i \in 1 .. m, NEW j \in 1 .. m, i < j PROVE Before(D[i], D[j])
  <2>1. ASSUME NEW d \in D[i], NEW e \in D[j] PROVE d[2] < e[2]
    <3>1. /\ d[2] \in Nat /\ d[2] <= list[i].end /\ list[i].end \in Nat
          /\ e[2] \in Nat /\ list[j].pos <= e[2] /\ list[j].pos \in Nat
      BY <1>4, <1>7, <1>8
    <3>2. list[i].end < list[j].pos
      BY <1>10, <1>13
    <3> QED BY <3>1, <3>2
  <2> QED BY <2>1 DEF Before
<1>14. Dated(FlattenSeq(ss), UNION {D[i] : i \in 1 .. m})
  BY <1>11, <1>12, <1>13, DatedFlatten
<1>15. ASSUME NEW e \in AddedAt(fn, cursor, n)
       PROVE  /\ e[2] \in Nat /\ fn.body.pos < e[2]
              /\ \E s \in Range(list) : s.pos <= e[2]
  <2>1. PICK s \in Range(list) : e \in Group(s, cursor)
    BY DEF AddedAt, list
  <2>2. s.pos \in Nat /\ fn.body.pos < s.pos /\ e[2] \in Nat /\ s.pos <= e[2]
    BY <1>4, <2>1
  <2>3. fn.body.pos \in Nat
    BY LevelFacts
  <2> QED BY <2>2, <2>3
<1> QED BY <1>5, <1>6, <1>14, <1>15 DEF list

\* All that is collected, in the order of the scopes.
LEMMA IdentifiersDated ==
    ASSUME NEW fn, IsFunction(fn), NEW cursor \in Nat, Holds(fn.body, cursor)
    PROVE  Dated(Identifiers(fn, cursor), AllAdded(fn, cursor))
<1> DEFINE d == cursor - fn.body.pos
           L == Searched(fn, cursor)
           ss == [n \in 1 .. d + 1 |-> CollectStatements(L[n - 1], cursor)]
           D == [n \in 1 .. d + 1 |-> AddedAt(fn, cursor, n - 1)]
<1>1. d \in Nat /\ d + 1 \in Nat
  BY PathFacts, LevelFacts
<1>2. Identifiers(fn, cursor) = fn.fields \o FlattenSeq(ss)
  BY DEF Identifiers
<1>3. \A n \in 0 .. d :
        /\ Dated(CollectStatements(L[n], cursor), AddedAt(fn, cursor, n))
        /\ \A e \in AddedAt(fn, cursor, n) : e[2] \in Nat /\ fn.body.pos < e[2]
        /\ \A e \in AddedAt(fn, cursor, n) : \E s \in Range(L[n]) : s.pos <= e[2]
  BY ListDated
<1>4. \A m, n \in 0 .. d : m < n =>
        \A e \in AddedAt(fn, cursor, m), t \in Range(L[n]) : e[2] < t.pos
  <2> SUFFICES ASSUME NEW m \in 0 .. d, NEW n \in 0 .. d, m < n,
                      NEW e \in AddedAt(fn, cursor, m), NEW t \in Range(L[n])
               PROVE  e[2] < t.pos
    OBVIOUS
  <2>1. n \in m + 1 .. d
    BY <1>1
  <2> QED BY <2>1, AddedBefore
<1>5. \A n \in 0 .. d : \A s \in Range(L[n]) : s.pos \in Nat
  BY PathPlaced DEF Placed
<1>6. AllAdded(fn, cursor) =
        At(fn.fields, fn.body.pos) \cup UNION {D[n] : n \in 1 .. d + 1}
  <2>1. \A n \in 1 .. d + 1 : n - 1 \in 0 .. d /\ D[n] = AddedAt(fn, cursor, n - 1)
    BY <1>1
  <2>2. \A n \in 0 .. d : n + 1 \in 1 .. d + 1 /\ (n + 1) - 1 = n
    BY <1>1
  <2>3. AllAdded(fn, cursor) =
          At(fn.fields, fn.body.pos) \cup UNION {AddedAt(fn, cursor, n) : n \in 0 .. d}
    BY DEF AllAdded
  <2> HIDE DEF D, d
  <2>4. UNION {AddedAt(fn, cursor, n) : n \in 0 .. d} = UNION {D[n] : n \in 1 .. d + 1}
    <3>1. ASSUME NEW n \in 0 .. d
          PROVE  \E k \in 1 .. d + 1 : AddedAt(fn, cursor, n) = D[k]
      BY <2>1, <2>2
    <3>2. ASSUME NEW k \in 1 .. d + 1
          PROVE  \E n \in 0 .. d : AddedAt(fn, cursor, n) = D[k]
      BY <2>1
    <3> QED BY <3>1, <3>2
  <2> QED BY <2>3, <2>4
<1>7. \A n \in 1 .. d + 1 :
        /\ n - 1 \in 0 .. d /\ D[n] = AddedAt(fn, cursor, n - 1)
        /\ ss[n] = CollectStatements(L[n - 1], cursor)
  BY <1>1
<1>8. ss = [n \in 1 .. d + 1 |-> ss[n]]
  OBVIOUS
<1> HIDE DEF ss, D, d, L
<1>9. \A n \in 1 .. d + 1 : Dated(ss[n], D[n])
  BY <1>3, <1>7
<1>10. Lists(ss, d + 1)
  BY <1>1, <1>8, <1>9 DEF Lists, Dated
<1>11. ASSUME NEW m \in 1 .. d + 1, NEW n \in 1 .. d + 1, m < n PROVE Before(D[m], D[n])
  <2>1. ASSUME NEW e \in D[m], NEW o \in D[n] PROVE e[2] < o[2]
    <3>1. m - 1 \in 0 .. d /\ n - 1 \in 0 .. d /\ m - 1 < n - 1
      BY <1>1, <1>11
    <3>2. e \in AddedAt(fn, cursor, m - 1) /\ o \in AddedAt(fn, cursor, n - 1)
      BY <1>7
    <3>3. PICK t \in Range(L[n - 1]) : t.pos <= o[2]
      BY <1>3, <3>1, <3>2
    <3>4. e[2] < t.pos
      BY <1>4, <3>1, <3>2
    <3>5. e[2] \in Nat /\ o[2] \in Nat /\ t.pos \in Nat
      BY <1>3, <1>5, <3>1, <3>2
    <3> QED BY <3>3, <3>4, <3>5
  <2> QED BY <2>1 DEF Before
<1>12. Dated(FlattenSeq(ss), UNION {D[n] : n \in 1 .. d + 1})
  BY <1>1, <1>9, <1>10, <1>11, DatedFlatten
<1>13. Dated(fn.fields, At(fn.fields, fn.body.pos))
  <2>1. DeclaresOnce(fn.fields) /\ fn.body.pos \in Int
    BY LevelFacts DEF IsFunction
  <2> QED BY <2>1, DatedNames
<1>14. Before(At(fn.fields, fn.body.pos), UNION {D[n] : n \in 1 .. d + 1})
  <2>1. \A n \in 1 .. d + 1 : \A e \in D[n] : fn.body.pos < e[2]
    BY <1>3, <1>7
  <2> QED BY <2>1 DEF Before, At
<1> QED BY <1>2, <1>6, <1>12, <1>13, <1>14, DatedConcat

-----------------------------------------------------------------------------
(* What is collected is in scope. *)

\* Which statements hold clauses, and which stand in a clause.
LEMMA BodyKinds ==
    ASSUME NEW s, IsStatement(s), NEW t \in Range(s.body.list)
    PROVE  /\ t.kind = "case" => s.kind \in {"switch", "typeswitch"}
           /\ t.kind = "comm" => s.kind = "select"
           /\ s.kind \in Switches => t.kind \in Clauses
           /\ s.kind = "switch" => t.kind = "case"
           /\ s.kind = "labeled" => t.kind \notin {"var", "define"}
<1>1. t.kind \in (IF s.kind = "select" THEN {"comm"}
                  ELSE IF s.kind \in Switches THEN {"case"}
                  ELSE IF s.kind = "labeled" THEN {"other"} \cup (Compound \ Clauses)
                  ELSE (Simple \cup Compound) \ Clauses)
  BY DEF IsStatement
<1>2. CASE s.kind = "select"
  BY <1>1, <1>2 DEF Switches, Clauses
<1>3. CASE s.kind \in Switches /\ s.kind # "select"
  BY <1>1, <1>3 DEF Switches, Clauses
<1>4. CASE s.kind = "labeled"
  BY <1>1, <1>4 DEF Switches, Clauses, Compound, Simple
<1>5. CASE s.kind \notin Switches \cup {"labeled"}
  BY <1>1, <1>5 DEF Switches, Clauses
<1> QED BY <1>2, <1>3, <1>4, <1>5

LEMMA ClauseEndFacts ==
    ASSUME NEW block, IsBlock(block), NEW i \in DOMAIN block.list,
           \A s \in Range(block.list) : s.pos \in Nat /\ s.end \in Nat /\ s.pos < s.end
    PROVE  /\ ClauseEnd(block, i) \in Int /\ ClauseEnd(block, i) <= block.end
           /\ block.list[i].end <= ClauseEnd(block, i)
<1>1. DOMAIN block.list = 1 .. Len(block.list) /\ Len(block.list) \in Nat
  BY ListFacts DEF IsBlock
<1>2. /\ block.end \in Nat
      /\ \A j, k \in DOMAIN block.list :
           /\ block.list[j].end <= block.end
           /\ j < k => block.list[j].end < block.list[k].pos
  BY DEF IsBlock
<1>3. \A j \in DOMAIN block.list :
        /\ block.list[j].pos \in Nat /\ block.list[j].end \in Nat
        /\ block.list[j].pos < block.list[j].end
  BY DEF Range
<1>4. CASE i = Len(block.list)
  BY <1>2, <1>4 DEF ClauseEnd
<1>5. CASE i # Len(block.list)
  <2> DEFINE k == i + 1
  <2>1. k \in DOMAIN block.list /\ i < k
    BY <1>1, <1>5
  <2>2. block.list[i].end < block.list[k].pos /\ block.list[k].end <= block.end
    BY <1>2, <2>1
  <2>3. block.list[i].end \in Nat /\ block.list[k].pos \in Nat /\ block.list[k].end \in Nat
        /\ block.list[k].pos < block.list[k].end
    BY <1>3, <2>1
  <2>4. ClauseEnd(block, i) = block.list[k].pos - 1
    BY <1>5 DEF ClauseEnd
  <2> HIDE DEF k
  <2> QED BY <1>2, <2>2, <2>3, <2>4
<1> QED BY <1>4, <1>5

\* The variables of a list are in scope to the end of the list.
LEMMA ListScopesHas ==
    ASSUME NEW list, NEW s \in Range(list), s.kind \in {"var", "define"}, NEW to
    PROVE  Over(s.names, s.end, to) \subseteq ListScopes(list, to)
BY DEF ListScopes

\* The scopes that begin in a statement, by its kind.
LEMMA StatementScopesHas ==
    ASSUME NEW s
    PROVE  /\ \A i \in Range(s.init) :
                Over(i.names, i.end + 1, s.end) \subseteq StatementScopes(s)
           /\ s.kind \in {"if", "for", "block", "range"} =>
                ListScopes(s.body.list, s.body.end) \subseteq StatementScopes(s)
           /\ s.kind = "range" => Over(s.names, s.body.pos, s.end) \subseteq StatementScopes(s)
           /\ s.kind \in Switches => ClauseScopes(s.body) \subseteq StatementScopes(s)
<1> DEFINE Own == CASE s.kind \in {"if", "for", "block"} -> ListScopes(s.body.list, s.body.end)
                    [] s.kind = "range" -> Over(s.names, s.body.pos, s.end)
                                             \cup ListScopes(s.body.list, s.body.end)
                    [] s.kind \in Switches -> Over(s.names, s.body.pos, s.end)
                                             \cup ClauseScopes(s.body)
                    [] OTHER -> {}
           Init == UNION {Over(i.names, i.end + 1, s.end) : i \in Range(s.init)}
<1>1. StatementScopes(s) = Init \cup Own
  BY DEF StatementScopes
<1>2. s.kind \in {"if", "for", "block"} => Own = ListScopes(s.body.list, s.body.end)
  BY DEF Switches
<1>3. s.kind = "range" => Own = Over(s.names, s.body.pos, s.end)
                                  \cup ListScopes(s.body.list, s.body.end)
  BY DEF Switches
<1>4. s.kind \in Switches => Own = Over(s.names, s.body.pos, s.end) \cup ClauseScopes(s.body)
  BY DEF Switches
<1>5. \A i \in Range(s.init) : Over(i.names, i.end + 1, s.end) \subseteq Init
  OBVIOUS
<1> HIDE DEF Own, Init
<1> QED BY <1>1, <1>2, <1>3, <1>4, <1>5

\* A declaration the code comes to is in scope up to the cursor.
Reaches(fn, names, from, cursor) ==
    \E to \in Int : cursor <= to /\ Over(names, from, to) \subseteq Scopes(fn)

LEMMA DeclaredReaches ==
    ASSUME NEW fn, IsFunction(fn), NEW cursor \in Nat, Holds(fn.body, cursor),
           NEW n \in 0 .. cursor - fn.body.pos, NEW s \in Range(Searched(fn, cursor)[n]),
           s.kind \in {"var", "define"}, s.end <= cursor
    PROVE  Reaches(fn, s.names, s.end, cursor)
<1> DEFINE d == cursor - fn.body.pos
           L == Searched(fn, cursor)
<1>1. fn.body.pos \in Nat /\ fn.body.end \in Nat /\ cursor <= fn.body.end
  BY LevelFacts DEF Holds
<1>2. L[0] = fn.body.list
  BY PathFacts
<1>3. \A k \in 0 .. d : \A p \in Range(L[k]) :
        Placed(fn, k, p) /\ \A t \in Parts(p) : Placed(fn, k + 1, t) /\ IsStatement(t)
  BY PathPlaced
<1>4. \A k \in 1 .. d : \A t \in Range(L[k]) :
        \E p \in Range(L[k - 1]) : Holds(p, cursor) /\ t \in Range(CollectInside(p, cursor))
  BY PathFacts
<1>5. \A p \in Statements(fn) : StatementScopes(p) \subseteq Scopes(fn)
  BY DEF Scopes
<1>6. d \in Nat /\ \A k \in 1 .. d : k - 1 \in 0 .. d /\ k \in 0 .. d
  <2>1. d \in Nat
    BY PathFacts, LevelFacts
  <2> HIDE DEF d
  <2> QED BY <2>1
<1>7. \A k \in 0 .. d : k = 0 \/ k \in 1 .. d
  OBVIOUS
<1> HIDE DEF d, L
<1>8. ASSUME NEW k \in 1 .. d, NEW t \in Range(L[k])
      PROVE  \E p \in Range(L[k - 1]) :
               /\ Placed(fn, k - 1, p) /\ IsStatement(p) /\ Holds(p, cursor)
               /\ p.kind \in Compound /\ IsBlock(p.body)
               /\ t \in Range(CollectInside(p, cursor))
               /\ t \in Range(p.body.list) \/ t.kind \in {"if", "block"}
  <2>1. PICK p \in Range(L[k - 1]) : Holds(p, cursor) /\ t \in Range(CollectInside(p, cursor))
    BY <1>4
  <2>2. Placed(fn, k - 1, p) /\ \A q \in Parts(p) : q.pos \in Nat /\ q.end \in Nat
    BY <1>3, <1>6 DEF Placed
  <2>3. IsStatement(p)
    BY <2>2 DEF Placed
  <2>4. t \in Range(p.body.list) \cup Range(p.else)
    BY <2>1, <2>2, <2>3, InsideFacts
  <2>5. t \in Range(p.else) => t.kind \in {"if", "block"}
    BY <2>3 DEF IsStatement
  <2>6. t \in Parts(p)
    BY <2>4 DEF Parts
  <2>7. p.kind \in Compound /\ IsBlock(p.body)
    BY <2>2, <2>3, <2>6, PartsFacts
  <2> QED BY <2>1, <2>2, <2>3, <2>4, <2>5, <2>7
<1>9. CASE n = 0
  <2>1. s \in Range(fn.body.list)
    BY <1>2, <1>9 DEF L
  <2>2. Over(s.names, s.end, fn.body.end) \subseteq Scopes(fn)
    BY <2>1, ListScopesHas DEF Scopes
  <2> QED BY <1>1, <2>2 DEF Reaches
<1>10. CASE n \in 1 .. d
  <2>1. PICK p \in Range(L[n - 1]) :
          /\ Placed(fn, n - 1, p) /\ IsStatement(p) /\ Holds(p, cursor)
          /\ p.kind \in Compound /\ IsBlock(p.body)
          /\ s \in Range(CollectInside(p, cursor))
          /\ s \in Range(p.body.list) \/ s.kind \in {"if", "block"}
    BY <1>8, <1>10 DEF L
  <2>2. s \in Range(p.body.list) /\ p \in Statements(fn)
    BY <2>1 DEF Placed
  <2>3. p.body.end \in Int
    BY <2>1 DEF IsBlock
  <2>4. CASE p.kind \in {"if", "for", "block", "range"}
    <3>1. ListScopes(p.body.list, p.body.end) \subseteq StatementScopes(p)
      BY <2>4, StatementScopesHas
    <3>2. Holds(p.body, cursor)
      <4>1. ASSUME ~ Holds(p.body, cursor) PROVE FALSE
        <5>1. CollectVisibleInBlock(p.body, cursor) = <<>>
          BY <4>1 DEF CollectVisibleInBlock
        <5>2. CASE p.kind = "if"
          <6>1. CollectInside(p, cursor) = CollectVisibleInBlock(p.body, cursor) \o p.else
            BY <5>2 DEF CollectInside, Switches
          <6>2. IsList(p.else) /\ \A t \in Range(p.else) : t.kind \in {"if", "block"}
            BY <2>1 DEF IsStatement
          <6>3. <<>> \o p.else = p.else
            BY <6>2, ConcatEmptySeq DEF IsList
          <6> QED BY <2>1, <5>1, <6>1, <6>2, <6>3
        <5>3. CASE p.kind \in {"for", "block", "range"}
          <6>1. CollectInside(p, cursor) = <<>>
            BY <5>1, <5>3 DEF CollectInside, Switches
          <6> QED BY <2>1, <6>1, OrderedNothing
        <5> QED BY <2>4, <5>2, <5>3
      <4> QED BY <4>1
    <3>3. Over(s.names, s.end, p.body.end) \subseteq Scopes(fn)
      BY <1>5, <2>2, <3>1, ListScopesHas
    <3> QED BY <2>3, <3>2, <3>3 DEF Reaches, Holds
  <2>5. CASE p.kind \in Switches
    BY <2>2, <2>1, <2>5, BodyKinds DEF Clauses
  <2>6. CASE p.kind \in {"comm", "labeled"}
    <3>1. CollectInside(p, cursor) = <<>>
      BY <2>6 DEF CollectInside, Switches
    <3> QED BY <2>1, <3>1, OrderedNothing
  <2>7. CASE p.kind = "case"
    <3>1. n - 1 # 0
      <4>1. n - 1 = 0 => p \in Range(fn.body.list)
        BY <1>2, <2>1
      <4> QED BY <2>7, <4>1 DEF IsFunction, Clauses
    <3>2. n - 1 \in 1 .. d
      BY <1>6, <1>7, <1>10, <3>1
    <3>3. PICK w \in Range(L[(n - 1) - 1]) :
            /\ Placed(fn, (n - 1) - 1, w) /\ IsStatement(w)
            /\ w.kind \in Compound /\ IsBlock(w.body)
            /\ p \in Range(w.body.list) \/ p.kind \in {"if", "block"}
      BY <1>8, <2>1, <3>2
    <3>4. p \in Range(w.body.list) /\ w \in Statements(fn)
      BY <2>7, <3>3 DEF Placed
    <3>5. w.kind \in Switches
      BY <2>7, <3>3, <3>4, BodyKinds DEF Switches
    <3>6. PICK i \in DOMAIN w.body.list : p = w.body.list[i]
      BY <3>4 DEF Range
    <3>7. \A t \in Range(w.body.list) : t.pos \in Nat /\ t.end \in Nat /\ t.pos < t.end
      <4>1. Range(w.body.list) \subseteq Parts(w)
        BY DEF Parts
      <4>2. (n - 1) - 1 \in 0 .. d
        BY <1>6, <3>2
      <4> QED BY <1>3, <4>1, <4>2 DEF Placed
    <3> DEFINE to == ClauseEnd(w.body, i)
    <3>8. to \in Int /\ p.end <= to
      BY <3>3, <3>6, <3>7, ClauseEndFacts
    <3>9. ListScopes(p.body.list, to) \subseteq StatementScopes(w)
      <4>1. ListScopes(p.body.list, to) \subseteq ClauseScopes(w.body)
        BY <3>6 DEF ClauseScopes
      <4>2. ClauseScopes(w.body) \subseteq StatementScopes(w)
        BY <3>5, StatementScopesHas
      <4> QED BY <4>1, <4>2
    <3> HIDE DEF to
    <3>10. p.end \in Nat /\ cursor <= p.end
      BY <2>1 DEF Placed, Holds
    <3>11. cursor <= to
      BY <3>8, <3>10
    <3>12. Over(s.names, s.end, to) \subseteq Scopes(fn)
      BY <1>5, <2>2, <3>4, <3>9, ListScopesHas
    <3> QED BY <3>8, <3>11, <3>12 DEF Reaches
  <2> QED BY <2>1, <2>4, <2>5, <2>6, <2>7 DEF Compound, Clauses
<1> QED BY <1>7, <1>9, <1>10 DEF d

LEMMA ReachesInScope ==
    ASSUME NEW fn, NEW names, NEW from, NEW cursor, Reaches(fn, names, from, cursor),
           from <= cursor, NEW x \in Range(names), x.name # Blank
    PROVE  \E v \in InScope(fn, cursor) : v.id = x /\ v.from = from
<1>1. PICK to \in Int : cursor <= to /\ Over(names, from, to) \subseteq Scopes(fn)
  BY DEF Reaches
<1> DEFINE v == [id |-> x, from |-> from, to |-> to]
<1>2. v \in Over(names, from, to)
  BY DEF Over
<1>3. v \in Scopes(fn) /\ v.id = x /\ v.from = from /\ v.to = to
  BY <1>1, <1>2
<1> HIDE DEF v
<1>4. v \in InScope(fn, cursor)
  BY <1>1, <1>3 DEF InScope
<1> QED BY <1>3, <1>4

LEMMA AddedInScope ==
    ASSUME NEW fn, IsFunction(fn), NEW cursor \in Nat, Holds(fn.body, cursor),
           NEW e \in AllAdded(fn, cursor), e[1].name # Blank
    PROVE  \E v \in InScope(fn, cursor) : v.id = e[1] /\ v.from = e[2]
<1>1. /\ fn.body.pos \in Nat /\ fn.body.end \in Nat
      /\ fn.body.pos <= cursor /\ cursor <= fn.body.end
  BY LevelFacts DEF Holds
<1>2. CASE e \in At(fn.fields, fn.body.pos)
  <2>1. e[1] \in Range(fn.fields) /\ e[2] = fn.body.pos
    BY <1>2 DEF At
  <2>2. Over(fn.fields, fn.body.pos, fn.body.end) \subseteq Scopes(fn)
    BY DEF Scopes
  <2>3. Reaches(fn, fn.fields, fn.body.pos, cursor)
    BY <1>1, <2>2 DEF Reaches
  <2> QED BY <1>1, <2>1, <2>3, ReachesInScope
<1>3. CASE \E n \in 0 .. cursor - fn.body.pos : e \in AddedAt(fn, cursor, n)
  <2>1. PICK n \in 0 .. cursor - fn.body.pos : e \in AddedAt(fn, cursor, n)
    BY <1>3
  <2>2. PICK s \in Range(Searched(fn, cursor)[n]) : e \in Group(s, cursor)
    BY <2>1 DEF AddedAt
  <2>3. /\ IsStatement(s) /\ s \in Statements(fn) /\ s.pos \in Nat /\ s.end \in Nat
        /\ \A t \in Parts(s) : IsStatement(t) /\ t.end \in Nat
    BY PathPlaced DEF Placed
  <2>4. e[1] \in Range(Contributed(s, cursor)) /\ e[2] = FromOf(s)
    BY <2>2 DEF Group, At
  <2>5. StatementScopes(s) \subseteq Scopes(fn)
    BY <2>3 DEF Scopes
  <2>6. CASE Contributed(s, cursor) = <<>>
    BY <2>4, <2>6, OrderedNothing
  <2>7. CASE /\ s.kind \in {"var", "define"} /\ s.end <= cursor
             /\ Contributed(s, cursor) = s.names
    <3>1. Reaches(fn, s.names, s.end, cursor)
      BY <2>7, DeclaredReaches
    <3>2. FromOf(s) = s.end
      BY <2>7 DEF FromOf
    <3> QED BY <2>4, <2>7, <3>1, <3>2, ReachesInScope
  <2>8. CASE /\ s.kind = "range" /\ Holds(s, cursor) /\ Holds(s.body, cursor)
             /\ Contributed(s, cursor) = s.names
    <3>1. Over(s.names, s.body.pos, s.end) \subseteq Scopes(fn)
      BY <2>5, <2>8, StatementScopesHas
    <3>2. FromOf(s) = s.body.pos
      BY <2>8 DEF FromOf
    <3>3. Reaches(fn, s.names, s.body.pos, cursor) /\ s.body.pos <= cursor
      BY <2>3, <2>8, <3>1 DEF Reaches, Holds
    <3> QED BY <2>4, <2>8, <3>2, <3>3, ReachesInScope
  <2>9. CASE /\ s.kind \notin {"var", "define", "range"} /\ Holds(s, cursor)
             /\ s.init # <<>> /\ Range(s.init) = {s.init[1]} /\ s.init[1].end < cursor
             /\ Contributed(s, cursor) = s.init[1].names
    <3> DEFINE i == s.init[1]
    <3>1. i \in Range(s.init) /\ i.end < cursor /\ Contributed(s, cursor) = i.names
      BY <2>9
    <3>2. FromOf(s) = i.end + 1
      BY <2>9 DEF FromOf
    <3> HIDE DEF i
    <3>3. i.end \in Nat
      BY <2>3, <3>1 DEF Parts
    <3>4. Over(i.names, i.end + 1, s.end) \subseteq Scopes(fn)
      BY <2>5, <3>1, StatementScopesHas
    <3>5. Reaches(fn, i.names, i.end + 1, cursor) /\ i.end + 1 <= cursor
      BY <2>3, <2>9, <3>1, <3>3, <3>4 DEF Reaches, Holds
    <3> QED BY <2>4, <3>1, <3>2, <3>5, ReachesInScope
  <2> QED BY <2>3, <2>6, <2>7, <2>8, <2>9, ContributedIs
<1> QED BY <1>2, <1>3 DEF AllAdded

-----------------------------------------------------------------------------
(* What is in scope is collected, where the code looks.                    *)

\* Which of its parts a statement leads to.
LEMMA InsideHas ==
    ASSUME NEW s, IsStatement(s), NEW cursor,
           s.kind \in Compound \ {"comm", "labeled"}
    PROVE  /\ Holds(s.body, cursor) \/ s.kind = "case" =>
                Range(s.body.list) \subseteq Range(CollectInside(s, cursor))
           /\ s.kind = "if" => Range(s.else) \subseteq Range(CollectInside(s, cursor))
<1>1. IsBlock(s.body) /\ IsList(s.else)
  BY DEF IsStatement
<1>2. IsList(CollectVisibleInBlock(s.body, cursor))
  BY <1>1, OrderedBlock DEF Ordered
<1>3. CASE s.kind = "if"
  <2>1. CollectInside(s, cursor) = CollectVisibleInBlock(s.body, cursor) \o s.else
    BY <1>3 DEF CollectInside, Switches
  <2>2. Range(CollectInside(s, cursor)) =
            Range(CollectVisibleInBlock(s.body, cursor)) \cup Range(s.else)
    BY <1>1, <1>2, <2>1, ConcatList
  <2> QED BY <1>3, <2>2 DEF CollectVisibleInBlock
<1>4. CASE s.kind \in {"for", "range", "block"} \cup Switches
  <2>1. CollectInside(s, cursor) = CollectVisibleInBlock(s.body, cursor)
    BY <1>4 DEF CollectInside, Switches
  <2> QED BY <1>4, <2>1 DEF CollectVisibleInBlock, Switches
<1>5. CASE s.kind = "case"
  <2>1. CollectInside(s, cursor) = s.body.list
    BY <1>5 DEF CollectInside, Switches
  <2> QED BY <1>5, <2>1
<1> QED BY <1>3, <1>4, <1>5 DEF Compound, Clauses

LEMMA PartSearched ==
    ASSUME NEW fn, IsFunction(fn), NEW cursor \in Nat, Holds(fn.body, cursor),
           NEW n \in 0 .. cursor - fn.body.pos, NEW s \in Range(Searched(fn, cursor)[n]),
           Holds(s, cursor), NEW t \in Range(CollectInside(s, cursor)), t.pos <= cursor
    PROVE  n + 1 \in 0 .. cursor - fn.body.pos /\ t \in Range(Searched(fn, cursor)[n + 1])
<1>1. /\ IsStatement(s)
      /\ \A p \in Parts(s) : Placed(fn, n + 1, p) /\ p.pos \in Nat /\ p.end \in Nat
  BY PathPlaced DEF Placed
<1>2. t \in Parts(s)
  BY <1>1, InsideFacts DEF Parts
<1>3. fn.body.pos + (n + 1) < t.pos /\ t.pos \in Nat /\ fn.body.pos \in Nat
  BY <1>1, <1>2, LevelFacts DEF Placed
<1> DEFINE d == cursor - fn.body.pos
<1>4. d \in Nat /\ n \in 0 .. d
  BY PathFacts, LevelFacts
<1>5. n + 1 \in 1 .. d /\ n + 1 \in 0 .. d /\ (n + 1) - 1 = n
  BY <1>3, <1>4
<1>6. \A k \in 1 .. d : \A q : q \in Range(Searched(fn, cursor)[k]) <=>
        \E p \in Range(Searched(fn, cursor)[k - 1]) :
           Holds(p, cursor) /\ q \in Range(CollectInside(p, cursor))
  BY PathFacts
<1> HIDE DEF d
<1>7. t \in Range(Searched(fn, cursor)[n + 1])
  BY <1>5, <1>6
<1> QED BY <1>5, <1>7 DEF d

\* The statements that hold the cursor are all come to.
LEMMA HoldersSearched ==
    ASSUME NEW fn, IsFunction(fn), NEW cursor \in Nat, Holds(fn.body, cursor),
           ~ NotLookedAt(fn, cursor)
    PROVE  \A n \in 0 .. Height(fn) : \A s \in Level(fn)[n] :
             Holds(s, cursor) /\ s.kind \in Compound =>
               n \in 0 .. cursor - fn.body.pos /\ s \in Range(Searched(fn, cursor)[n])
<1> DEFINE h == Height(fn)
           d == cursor - fn.body.pos
           Come(n, s) == n \in 0 .. d /\ s \in Range(Searched(fn, cursor)[n])
           S == {n \in 0 .. h : \A s \in Level(fn)[n] :
                                  Holds(s, cursor) /\ s.kind \in Compound => Come(n, s)}
<1>1. /\ h \in Nat /\ fn.body.pos \in Nat /\ fn.body.end \in Nat
      /\ \A n \in 0 .. h : \A s \in Level(fn)[n] : Placed(fn, n, s)
  BY LevelFacts
<1>2. /\ Level(fn)[0] = Range(fn.body.list)
      /\ \A n \in 1 .. h : Level(fn)[n] = UNION {Parts(s) : s \in Level(fn)[n - 1]}
  BY <1>1, LevelSteps
<1>3. Searched(fn, cursor)[0] = fn.body.list
  BY PathFacts
<1>4. d \in Nat
  BY PathFacts, LevelFacts
<1>5. ASSUME NEW n \in 0 .. d, NEW s, Come(n, s), Holds(s, cursor),
             NEW t \in Range(CollectInside(s, cursor)), t.pos <= cursor
      PROVE  Come(n + 1, t)
  BY <1>5, PartSearched
<1> HIDE DEF d, Come
<1>6. 0 \in S
  <2>1. ASSUME NEW s \in Level(fn)[0] PROVE Come(0, s)
    <3>1. s \in Range(fn.body.list)
      BY <1>2
    <3>2. 0 \in 0 .. d
      BY <1>4
    <3> QED BY <1>3, <3>1, <3>2 DEF Come, d
  <2> QED BY <1>1, <2>1
<1> HIDE DEF h
<1>7. ASSUME NEW n \in 1 .. h, n - 1 \in S PROVE n \in S
  <2>1. n \in 0 .. h /\ n - 1 \in 0 .. h /\ (n - 1) + 1 = n
    BY <1>1
  <2>2. ASSUME NEW s \in Level(fn)[n], Holds(s, cursor), s.kind \in Compound PROVE Come(n, s)
    <3>1. PICK p \in Level(fn)[n - 1] : s \in Parts(p)
      BY <1>2
    <3>2. Placed(fn, n - 1, p) /\ Placed(fn, n, s)
      BY <1>1, <2>1
    <3>3. /\ IsStatement(p) /\ p.pos \in Nat /\ p.end \in Nat /\ p \in Statements(fn)
          /\ s.pos \in Nat /\ s.end \in Nat
      BY <3>2 DEF Placed
    <3>4. /\ p.kind \in Compound /\ IsBlock(p.body) /\ p.pos < s.pos /\ s.end <= p.end
          /\ \/ s \in Range(p.init) /\ s.kind \in Simple
             \/ /\ s \in Range(p.body.list)
                /\ p.body.pos < s.pos /\ s.end <= p.body.end
             \/ s \in Range(p.else) /\ p.kind = "if"
      BY <3>1, <3>3, PartsFacts
    <3>5. Holds(p, cursor)
      BY <2>2, <3>3, <3>4 DEF Holds
    <3>6. Come(n - 1, p)
      BY <1>7, <3>4, <3>5
    <3>7. s.kind \notin Simple
      BY <2>2 DEF Simple, Compound, Switches, Clauses
    <3>8. p.kind # "labeled"
      BY <3>3, <3>5 DEF NotLookedAt
    <3>9. p.kind # "comm"
      <4>1. SUFFICES ASSUME p.kind = "comm" PROVE FALSE
        OBVIOUS
      <4>2. CASE n - 1 = 0
        <5>1. p \in Range(fn.body.list)
          BY <1>2, <4>2
        <5> QED BY <4>1, <5>1 DEF IsFunction, Clauses
      <4>3. CASE n - 1 # 0
        <5>1. n - 1 \in 1 .. h /\ (n - 1) - 1 \in 0 .. h
          BY <1>1, <4>3
        <5>2. PICK w \in Level(fn)[(n - 1) - 1] : p \in Parts(w)
          BY <1>2, <5>1
        <5>3. Placed(fn, (n - 1) - 1, w)
          BY <1>1, <5>1
        <5>4. /\ IsStatement(w) /\ w \in Statements(fn)
          BY <5>3 DEF Placed
        <5>5. /\ IsBlock(w.body)
              /\ \/ p \in Range(w.init) /\ p.kind \in Simple
                 \/ /\ p \in Range(w.body.list)
                    /\ w.body.pos < p.pos /\ p.end <= w.body.end
                 \/ p \in Range(w.else) /\ p.kind \in {"if", "block"}
          BY <3>3, <5>2, <5>4, PartsFacts
        <5>6. p \in Range(w.body.list) /\ w.body.pos < p.pos /\ p.end <= w.body.end
          BY <4>1, <5>5 DEF Simple
        <5>7. w.kind = "select"
          BY <4>1, <5>4, <5>6, BodyKinds
        <5>8. Holds(w.body, cursor)
          BY <3>3, <3>5, <5>5, <5>6 DEF Holds, IsBlock
        <5> QED BY <5>4, <5>7, <5>8 DEF NotLookedAt
      <4> QED BY <4>2, <4>3
    <3>10. p.kind \in Compound \ {"comm", "labeled"}
      BY <3>4, <3>8, <3>9
    <3>11. s \in Range(CollectInside(p, cursor))
      <4>1. CASE s \in Range(p.body.list) /\ p.body.pos < s.pos /\ s.end <= p.body.end
        <5>1. Holds(p.body, cursor)
          BY <2>2, <3>3, <3>4, <4>1 DEF Holds, IsBlock
        <5> QED BY <3>3, <3>10, <4>1, <5>1, InsideHas
      <4>2. CASE s \in Range(p.else) /\ p.kind = "if"
        BY <3>3, <3>10, <4>2, InsideHas
      <4> QED BY <3>4, <3>7, <4>1, <4>2
    <3>12. s.pos <= cursor /\ n - 1 \in 0 .. d
      BY <2>2, <3>6 DEF Holds, Come
    <3> QED BY <1>5, <2>1, <3>5, <3>6, <3>11, <3>12
  <2> QED BY <2>1, <2>2
<1>8. \A n \in 0 .. h : n \in S
  <2> HIDE DEF S
  <2> QED BY <1>1, <1>6, <1>7, Induction
<1> QED BY <1>8 DEF h, Come, d

\* A declaration that ends before the cursor, in a list that is searched.
LEMMA DeclaredAdded ==
    ASSUME NEW fn, NEW cursor \in Nat, NEW n \in 0 .. cursor - fn.body.pos,
           NEW s \in Range(Searched(fn, cursor)[n]), IsStatement(s),
           s.kind \in {"var", "define"}, s.end <= cursor, NEW x \in Range(s.names)
    PROVE  <<x, s.end>> \in AllAdded(fn, cursor)
<1>1. s.pos \in Nat /\ s.end \in Nat /\ s.pos < s.end
  BY DEF IsStatement
<1>2. Contributed(s, cursor) = s.names
  <2>1. CASE s.end < cursor
    BY <1>1, <2>1 DEF Contributed, CollectSameScopeIdentifiers, Holds
  <2>2. CASE s.end = cursor
    <3>1. Holds(s, cursor) /\ ~ (s.end < cursor)
      BY <1>1, <2>2 DEF Holds
    <3>2. Contributed(s, cursor) = CollectContainedScopeIdentifiers(s, cursor)
      BY <3>1 DEF Contributed
    <3>3. CollectContainedScopeIdentifiers(s, cursor) = s.names
      BY DEF CollectContainedScopeIdentifiers
    <3> QED BY <3>2, <3>3
  <2> QED BY <1>1, <2>1, <2>2
<1>3. FromOf(s) = s.end
  BY DEF FromOf
<1>4. <<x, s.end>> \in Group(s, cursor)
  BY <1>2, <1>3 DEF Group, At
<1>5. <<x, s.end>> \in AddedAt(fn, cursor, n)
  BY <1>4 DEF AddedAt
<1> QED BY <1>5 DEF AllAdded

\* The scopes of a list and of a statement, by where they come from.
LEMMA ListScopesAre ==
    ASSUME NEW list, NEW to, NEW v \in ListScopes(list, to)
    PROVE  \E s \in Range(list) : /\ s.kind \in {"var", "define"}
                                  /\ v.id \in Range(s.names) /\ v.from = s.end /\ v.to = to
<1>1. PICK s \in Range(list) : s.kind \in {"var", "define"} /\ v \in Over(s.names, s.end, to)
  BY DEF ListScopes
<1>2. v.id \in Range(s.names) /\ v.from = s.end /\ v.to = to
  BY <1>1 DEF Over
<1> QED BY <1>1, <1>2

LEMMA StatementScopesAre ==
    ASSUME NEW s, NEW v \in StatementScopes(s)
    PROVE  \/ \E i \in Range(s.init) : v \in Over(i.names, i.end + 1, s.end)
           \/ /\ s.kind \in {"if", "for", "block", "range"}
              /\ v \in ListScopes(s.body.list, s.body.end)
           \/ s.kind \in {"range"} \cup Switches /\ v \in Over(s.names, s.body.pos, s.end)
           \/ /\ s.kind \in Switches
              /\ \E i \in DOMAIN s.body.list :
                   \/ v \in Over(s.body.list[i].names, s.body.list[i].body.pos,
                                 ClauseEnd(s.body, i))
                   \/ v \in ListScopes(s.body.list[i].body.list, ClauseEnd(s.body, i))
<1> DEFINE Own == CASE s.kind \in {"if", "for", "block"} -> ListScopes(s.body.list, s.body.end)
                    [] s.kind = "range" -> Over(s.names, s.body.pos, s.end)
                                             \cup ListScopes(s.body.list, s.body.end)
                    [] s.kind \in Switches -> Over(s.names, s.body.pos, s.end)
                                             \cup ClauseScopes(s.body)
                    [] OTHER -> {}
           Init == UNION {Over(i.names, i.end + 1, s.end) : i \in Range(s.init)}
<1>1. StatementScopes(s) = Init \cup Own
  BY DEF StatementScopes
<1>2. s.kind \in {"if", "for", "block"} => Own = ListScopes(s.body.list, s.body.end)
  BY DEF Switches
<1>3. s.kind = "range" => Own = Over(s.names, s.body.pos, s.end)
                                  \cup ListScopes(s.body.list, s.body.end)
  BY DEF Switches
<1>4. s.kind \in Switches => Own = Over(s.names, s.body.pos, s.end) \cup ClauseScopes(s.body)
  BY DEF Switches
<1>5. s.kind \notin {"if", "for", "block", "range"} \cup Switches => Own = {}
  BY DEF Switches
<1>6. v \in Init => \E i \in Range(s.init) : v \in Over(i.names, i.end + 1, s.end)
  OBVIOUS
<1>7. v \in ClauseScopes(s.body) =>
        \E i \in DOMAIN s.body.list :
           \/ v \in Over(s.body.list[i].names, s.body.list[i].body.pos, ClauseEnd(s.body, i))
           \/ v \in ListScopes(s.body.list[i].body.list, ClauseEnd(s.body, i))
  BY DEF ClauseScopes
<1> HIDE DEF Own, Init
<1> QED BY <1>1, <1>2, <1>3, <1>4, <1>5, <1>6, <1>7

LEMMA InScopeAdded ==
    ASSUME NEW fn, IsFunction(fn), NEW cursor \in Nat, Holds(fn.body, cursor),
           ~ NotLookedAt(fn, cursor), NEW v \in InScope(fn, cursor)
    PROVE  <<v.id, v.from>> \in AllAdded(fn, cursor)
<1> DEFINE d == cursor - fn.body.pos
           L == Searched(fn, cursor)
           h == Height(fn)
<1>1. v \in Scopes(fn) /\ v.from <= cursor /\ cursor <= v.to
  BY DEF InScope
<1>2. /\ d \in Nat /\ L[0] = fn.body.list
      /\ \A n \in 0 .. d : \A s \in Range(L[n]) : IsStatement(s)
  BY PathFacts, PathPlaced, LevelFacts DEF Placed
<1>3. h \in Nat /\ \A n \in 0 .. h : \A s \in Level(fn)[n] : Placed(fn, n, s)
  BY LevelFacts
<1>4. \A n \in 0 .. h : \A s \in Level(fn)[n] :
        Holds(s, cursor) /\ s.kind \in Compound => n \in 0 .. d /\ s \in Range(L[n])
  BY HoldersSearched
<1>5. ASSUME NEW n \in 0 .. d, NEW s \in Range(L[n]),
             s.kind \in {"var", "define"}, s.end <= cursor, NEW x \in Range(s.names)
      PROVE  <<x, s.end>> \in AllAdded(fn, cursor)
  BY <1>2, <1>5, DeclaredAdded
<1>6. ASSUME NEW n \in 0 .. d, NEW s \in Range(L[n]), Holds(s, cursor),
             NEW t \in Range(CollectInside(s, cursor)), t.pos <= cursor
      PROVE  n + 1 \in 0 .. d /\ t \in Range(L[n + 1])
  BY <1>6, PartSearched
<1>7. \A n \in 0 .. d : \A s \in Range(L[n]) : Group(s, cursor) \subseteq AllAdded(fn, cursor)
  BY DEF AllAdded, AddedAt
<1> HIDE DEF d, L, h
<1>8. CASE v \in Over(fn.fields, fn.body.pos, fn.body.end)
  <2>1. v.id \in Range(fn.fields) /\ v.from = fn.body.pos
    BY <1>8 DEF Over
  <2> QED BY <2>1 DEF AllAdded, At
<1>9. CASE v \in ListScopes(fn.body.list, fn.body.end)
  <2>1. PICK s \in Range(fn.body.list) : /\ s.kind \in {"var", "define"}
                                         /\ v.id \in Range(s.names) /\ v.from = s.end
    BY <1>9, ListScopesAre
  <2>2. 0 \in 0 .. d /\ s \in Range(L[0])
    BY <1>2, <2>1
  <2> QED BY <1>1, <1>5, <2>1, <2>2
<1>10. ASSUME NEW s \in Statements(fn), v \in StatementScopes(s)
       PROVE  <<v.id, v.from>> \in AllAdded(fn, cursor)
  <2>1. PICK n \in 0 .. h : s \in Level(fn)[n]
    BY DEF Statements, h, Height
  <2>2. /\ IsStatement(s) /\ s.pos \in Nat /\ s.end \in Nat
        /\ n + 1 \in 0 .. h /\ Parts(s) \subseteq Level(fn)[n + 1]
    BY <1>3, <2>1 DEF Placed, h
  <2>3. \A t \in Parts(s) : Placed(fn, n + 1, t) /\ IsStatement(t) /\ t.pos \in Nat /\ t.end \in Nat
    BY <1>3, <2>2 DEF Placed
  <2>4. /\ s.kind \in Compound =>
             IsBlock(s.body) /\ s.pos <= s.body.pos /\ s.body.end <= s.end
        /\ s.kind \in Simple \cup Compound /\ (s.kind \in Simple => s.init = <<>>)
        /\ s.kind \in Compound /\ s.kind # "if" => s.body.end = s.end
        /\ s.kind \notin Declaring => s.names = <<>>
        /\ IsList(s.init) /\ Len(s.init) <= 1
        /\ \A i \in Range(s.init) : s.pos < i.pos /\ i.kind \in Simple
    BY <2>2 DEF IsStatement, Simple
  <2>5. ASSUME NEW t \in Range(s.body.list)
        PROVE  /\ t \in Parts(s) /\ IsStatement(t) /\ t.pos \in Nat /\ t.end \in Nat
               /\ t.pos < t.end /\ s.body.pos < t.pos /\ t.end <= s.body.end
               /\ s.kind \in Compound /\ IsBlock(s.body)
               /\ s.body.pos \in Nat /\ s.body.end \in Nat
               /\ s.pos <= s.body.pos /\ s.body.end <= s.end
    <3>1. t \in Parts(s)
      BY DEF Parts
    <3>2. s.kind \in Compound /\ IsBlock(s.body)
      BY <2>2, <2>3, <3>1, PartsFacts
    <3>3. PICK i \in DOMAIN s.body.list : t = s.body.list[i]
      BY DEF Range
    <3>4. s.body.pos < t.pos /\ t.end <= s.body.end /\ s.body.pos \in Nat /\ s.body.end \in Nat
      BY <3>2, <3>3 DEF IsBlock
    <3>5. t.pos < t.end
      BY <2>3, <3>1 DEF IsStatement
    <3> QED BY <2>3, <2>4, <3>1, <3>2, <3>4, <3>5
  <2>6. CASE \E i \in Range(s.init) : v \in Over(i.names, i.end + 1, s.end)
    <3>1. PICK i \in Range(s.init) : v \in Over(i.names, i.end + 1, s.end)
      BY <2>6
    <3>2. v.id \in Range(i.names) /\ v.from = i.end + 1 /\ v.to = s.end
      BY <3>1 DEF Over
    <3>3. IsStatement(i) /\ i.pos \in Nat /\ i.end \in Nat /\ i.pos < i.end
      BY <2>3, <3>1 DEF Parts, IsStatement
    <3>4. Holds(s, cursor) /\ i.end < cursor
      BY <1>1, <2>2, <2>4, <3>1, <3>2, <3>3 DEF Holds
    <3>5. s.init # <<>>
      BY <3>1, OrderedNothing
    <3>6. s.kind \in Compound
      BY <2>4, <3>5
    <3>7. n \in 0 .. d /\ s \in Range(L[n])
      BY <1>4, <2>1, <3>4, <3>6
    <3>8. s.kind \notin {"var", "define", "range"}
      BY <2>2, <3>5, <3>6 DEF IsStatement, Compound, Switches, Clauses
    <3>9. Len(s.init) = 1
      <4> DEFINE k == Len(s.init)
      <4>1. k \in Nat /\ k # 0
        BY <2>4, <3>5, ListFacts, EmptySeq DEF IsList
      <4>2. k <= 1
        BY <2>4
      <4> HIDE DEF k
      <4>3. k = 1
        BY <4>1, <4>2
      <4> QED BY <4>3 DEF k
    <3>10. /\ InitIdentifiers(s, cursor) = IF s.init[1].end < cursor
                                           THEN CollectSameScopeIdentifiers(s.init[1]) ELSE <<>>
           /\ s.init[1] = i
      BY <2>4, <3>1, <3>9, OneInit
    <3>11. CollectSameScopeIdentifiers(i) = i.names
      <4>1. CASE i.kind \in {"var", "define"}
        BY <4>1 DEF CollectSameScopeIdentifiers
      <4>2. CASE i.kind = "other"
        <5>1. i.names = <<>>
          BY <3>3, <4>2 DEF IsStatement, Declaring
        <5> QED BY <4>2, <5>1 DEF CollectSameScopeIdentifiers
      <4> QED BY <2>4, <3>1, <4>1, <4>2 DEF Simple
    <3>12. Contributed(s, cursor) = i.names
      <4>1. Contributed(s, cursor) = CollectContainedScopeIdentifiers(s, cursor)
        BY <2>2, <3>4 DEF Contributed, Holds
      <4>2. Contributed(s, cursor) = InitIdentifiers(s, cursor)
        BY <3>8, <4>1 DEF CollectContainedScopeIdentifiers
      <4> QED BY <3>4, <3>10, <3>11, <4>2
    <3>13. FromOf(s) = i.end + 1
      BY <3>8, <3>10 DEF FromOf
    <3>14. <<v.id, v.from>> \in Group(s, cursor)
      BY <3>2, <3>12, <3>13 DEF Group, At
    <3> QED BY <1>7, <3>7, <3>14
  <2>7. CASE /\ s.kind \in {"if", "for", "block", "range"}
             /\ v \in ListScopes(s.body.list, s.body.end)
    <3>1. PICK t \in Range(s.body.list) :
            /\ t.kind \in {"var", "define"} /\ v.id \in Range(t.names)
            /\ v.from = t.end /\ v.to = s.body.end
      BY <2>7, ListScopesAre
    <3>2. t.pos <= cursor /\ Holds(s.body, cursor) /\ Holds(s, cursor)
      BY <1>1, <2>2, <2>5, <3>1 DEF Holds
    <3>3. n \in 0 .. d /\ s \in Range(L[n])
      BY <1>4, <2>1, <2>5, <3>1, <3>2
    <3>4. t \in Range(CollectInside(s, cursor))
      <4>1. s.kind \in Compound \ {"comm", "labeled"}
        BY <2>7 DEF Compound
      <4> QED BY <2>2, <3>1, <3>2, <4>1, InsideHas
    <3>5. n + 1 \in 0 .. d /\ t \in Range(L[n + 1])
      BY <1>6, <3>2, <3>3, <3>4
    <3> QED BY <1>1, <1>5, <3>1, <3>5
  <2>8. CASE s.kind \in {"range"} \cup Switches /\ v \in Over(s.names, s.body.pos, s.end)
    <3>1. v.id \in Range(s.names) /\ v.from = s.body.pos /\ v.to = s.end
      BY <2>8 DEF Over
    <3>2. s.kind \in Compound /\ s.kind # "if"
      BY <2>8 DEF Compound, Switches
    <3>3. Holds(s.body, cursor) /\ Holds(s, cursor)
      BY <1>1, <2>2, <2>4, <3>1, <3>2 DEF Holds, IsBlock
    <3>4. s.kind \notin {"typeswitch", "select"}
      BY <3>3 DEF NotLookedAt
    <3>5. s.kind # "switch"
      <4>1. s.kind = "switch" => s.names = <<>>
        BY <2>4 DEF Declaring
      <4> QED BY <3>1, <4>1, OrderedNothing
    <3>6. s.kind = "range"
      BY <2>8, <3>4, <3>5 DEF Switches
    <3>7. n \in 0 .. d /\ s \in Range(L[n])
      BY <1>4, <2>1, <3>2, <3>3
    <3>8. Contributed(s, cursor) = s.names
      <4>1. Contributed(s, cursor) = CollectContainedScopeIdentifiers(s, cursor)
        BY <2>2, <3>3 DEF Contributed, Holds
      <4> QED BY <3>3, <3>6, <4>1 DEF CollectContainedScopeIdentifiers
    <3>9. FromOf(s) = s.body.pos
      BY <3>6 DEF FromOf
    <3>10. <<v.id, v.from>> \in Group(s, cursor)
      BY <3>1, <3>8, <3>9 DEF Group, At
    <3> QED BY <1>7, <3>7, <3>10
  <2>9. ASSUME s.kind \in Switches, NEW i \in DOMAIN s.body.list,
               v \in ListScopes(s.body.list[i].body.list, ClauseEnd(s.body, i))
        PROVE  <<v.id, v.from>> \in AllAdded(fn, cursor)
    <3> DEFINE c == s.body.list[i]
               to == ClauseEnd(s.body, i)
    <3>1. c \in Range(s.body.list)
      BY DEF Range
    <3>2. PICK t \in Range(c.body.list) :
            /\ t.kind \in {"var", "define"} /\ v.id \in Range(t.names)
            /\ v.from = t.end /\ v.to = to
      BY <2>9, ListScopesAre
    <3>3. to \in Int /\ to <= s.body.end
      <4>1. \A p \in Range(s.body.list) : p.pos \in Nat /\ p.end \in Nat /\ p.pos < p.end
        BY <2>5
      <4>2. IsBlock(s.body)
        BY <2>5, <3>1
      <4> QED BY <4>1, <4>2, ClauseEndFacts
    <3>4. c.kind \in Clauses /\ (s.kind = "switch" => c.kind = "case")
      BY <2>2, <2>9, <3>1, BodyKinds
    <3>5. NotLookedAt(fn, cursor) \/ ~ (s.kind = "switch" /\ c.end < cursor /\ cursor <= to)
      BY DEF NotLookedAt
    <3>6. Placed(fn, n + 1, c) /\ c \in Level(fn)[n + 1] /\ IsStatement(c)
      BY <2>2, <2>3, <2>5, <3>1
    <3>7. NotLookedAt(fn, cursor) \/ ~ (s.kind \in {"typeswitch", "select"} /\ Holds(s.body, cursor))
      BY DEF NotLookedAt
    <3> HIDE DEF c, to
    <3>8. /\ c.pos \in Nat /\ c.end \in Nat /\ s.body.pos < c.pos /\ s.body.pos \in Nat
          /\ s.body.end \in Nat
      BY <2>5, <3>1
    <3>9. \A q \in Parts(c) : Placed(fn, (n + 1) + 1, q)
      BY <1>3, <3>6 DEF Placed, h
    <3>10. t \in Parts(c)
      BY <3>2 DEF Parts
    <3>11. t.pos \in Nat /\ t.end \in Nat /\ t.pos < t.end
      BY <3>9, <3>10 DEF Placed
    <3>12. c.pos < t.pos /\ c.kind \in Compound
      BY <3>6, <3>10, <3>11, PartsFacts
    <3>13. t.pos <= cursor /\ t.end <= cursor /\ cursor <= to
      BY <1>1, <3>2, <3>11
    <3>14. Holds(s.body, cursor)
      BY <3>3, <3>8, <3>11, <3>12, <3>13 DEF Holds
    <3>15. s.kind = "switch" /\ c.kind = "case"
      BY <2>9, <3>4, <3>7, <3>14 DEF Switches
    <3>16. Holds(c, cursor)
      BY <3>5, <3>8, <3>11, <3>12, <3>13, <3>15 DEF Holds
    <3>17. n + 1 \in 0 .. d /\ c \in Range(L[n + 1])
      BY <1>4, <2>2, <3>6, <3>12, <3>16
    <3>18. t \in Range(CollectInside(c, cursor))
      <4>1. c.kind \in Compound \ {"comm", "labeled"}
        BY <3>12, <3>15
      <4> QED BY <3>2, <3>6, <3>15, <4>1, InsideHas
    <3>19. (n + 1) + 1 \in 0 .. d /\ t \in Range(L[(n + 1) + 1])
      BY <1>6, <3>13, <3>16, <3>17, <3>18
    <3> QED BY <1>5, <3>2, <3>13, <3>19
  <2>10. ASSUME s.kind \in Switches, NEW i \in DOMAIN s.body.list,
                v \in Over(s.body.list[i].names, s.body.list[i].body.pos, ClauseEnd(s.body, i))
         PROVE  <<v.id, v.from>> \in AllAdded(fn, cursor)
    <3> DEFINE c == s.body.list[i]
               to == ClauseEnd(s.body, i)
    <3>1. c \in Range(s.body.list)
      BY DEF Range
    <3>2. v.id \in Range(c.names) /\ v.from = c.body.pos /\ v.to = to
      BY <2>10 DEF Over
    <3>3. to \in Int /\ to <= s.body.end
      <4>1. \A p \in Range(s.body.list) : p.pos \in Nat /\ p.end \in Nat /\ p.pos < p.end
        BY <2>5
      <4>2. IsBlock(s.body)
        BY <2>5, <3>1
      <4> QED BY <4>1, <4>2, ClauseEndFacts
    <3>4. c.kind \in Clauses /\ (s.kind = "switch" => c.kind = "case")
      BY <2>2, <2>10, <3>1, BodyKinds
    <3>5. ~ (s.kind \in {"typeswitch", "select"} /\ Holds(s.body, cursor))
      BY DEF NotLookedAt
    <3>6. IsStatement(c) /\ c.pos \in Nat /\ s.body.pos < c.pos /\ s.body.pos \in Nat
      BY <2>5, <3>1
    <3>7. s.body.end \in Nat
      BY <2>5, <3>1
    <3> HIDE DEF c, to
    <3>8. c.pos <= c.body.pos /\ c.body.pos \in Nat
      BY <3>4, <3>6 DEF IsStatement, IsBlock, Compound
    <3>9. Holds(s.body, cursor)
      BY <1>1, <3>2, <3>3, <3>6, <3>7, <3>8 DEF Holds
    <3>10. c.kind = "case"
      BY <2>10, <3>4, <3>5, <3>9 DEF Switches
    <3>11. c.names = <<>>
      BY <3>6, <3>10 DEF IsStatement, Declaring
    <3> QED BY <3>2, <3>11, OrderedNothing
  <2> QED BY <1>10, <2>6, <2>7, <2>8, <2>9, <2>10, StatementScopesAre
<1> QED BY <1>1, <1>8, <1>9, <1>10 DEF Scopes

-----------------------------------------------------------------------------
(* What visibleIdentifiersAtOffset returns. *)

(***************************************************************************)
(* Wherever the cursor is in the body of a function, every identifier that *)
(* is offered is a variable in scope there, and no name is offered twice:  *)
(* what the walk over the statements and add leave between them.           *)
(***************************************************************************)
THEOREM VisibleAreInScope ==
    ASSUME NEW fn, IsFunction(fn), NEW cursor \in Nat, Holds(fn.body, cursor)
    PROVE  LET visible == VisibleIdentifiersAtOffset(fn, cursor)
           IN  /\ IsList(visible)
               /\ \A i, j \in 1 .. Len(visible) : visible[i].name = visible[j].name => i = j
               /\ \A x \in Range(visible) : \E v \in InScope(fn, cursor) : v.id = x
<1> DEFINE visible == VisibleIdentifiersAtOffset(fn, cursor)
           D == AllAdded(fn, cursor)
<1>1. Dated(Identifiers(fn, cursor), D)
  BY IdentifiersDated
<1>2. /\ IsList(visible) /\ Range(visible) = LatestOf(D)
      /\ \A i, j \in 1 .. Len(visible) : visible[i].name = visible[j].name => i = j
  BY <1>1, AddedFacts DEF VisibleIdentifiersAtOffset
<1> HIDE DEF visible
<1>3. ASSUME NEW x \in Range(visible) PROVE \E v \in InScope(fn, cursor) : v.id = x
  <2>1. PICK e \in D : x = e[1] /\ e[1].name # Blank
    BY <1>2 DEF LatestOf
  <2> QED BY <2>1, AddedInScope
<1> QED BY <1>2, <1>3 DEF visible

(***************************************************************************)
(* Where the code looks, what is offered is exactly the innermost          *)
(* declaration of every variable in scope: a name shadowed at the cursor   *)
(* is offered with the type it has there.                                  *)
(***************************************************************************)
THEOREM VisibleAreInnermost ==
    ASSUME NEW fn, IsFunction(fn), NEW cursor \in Nat, Holds(fn.body, cursor),
           ~ NotLookedAt(fn, cursor)
    PROVE  Range(VisibleIdentifiersAtOffset(fn, cursor)) = Innermost(fn, cursor)
<1> DEFINE D == AllAdded(fn, cursor)
           scope == InScope(fn, cursor)
<1>1. Range(VisibleIdentifiersAtOffset(fn, cursor)) = LatestOf(D)
  <2>1. Dated(Identifiers(fn, cursor), D)
    BY IdentifiersDated
  <2> QED BY <2>1, AddedFacts DEF VisibleIdentifiersAtOffset
<1>2. \A e \in D : e[1].name # Blank => \E v \in scope : v.id = e[1] /\ v.from = e[2]
  BY AddedInScope
<1>3. \A v \in scope : <<v.id, v.from>> \in D
  BY InScopeAdded
<1>4. \A v \in scope : v.id.name # Blank
  BY DEF InScope
<1>5. Innermost(fn, cursor) =
        {v.id : v \in {e \in scope : \A o \in scope : o.id.name = e.id.name => o.from <= e.from}}
  BY DEF Innermost
<1> HIDE DEF D, scope
<1>6. ASSUME NEW x \in LatestOf(D) PROVE x \in Innermost(fn, cursor)
  <2>1. PICK e \in D : /\ x = e[1] /\ e[1].name # Blank
                       /\ \A o \in D : o[1].name = e[1].name => o[2] <= e[2]
    BY DEF LatestOf
  <2>2. PICK v \in scope : v.id = e[1] /\ v.from = e[2]
    BY <1>2, <2>1
  <2>3. ASSUME NEW o \in scope, o.id.name = v.id.name PROVE o.from <= v.from
    <3>1. <<o.id, o.from>> \in D
      BY <1>3
    <3> QED BY <2>1, <2>2, <2>3, <3>1
  <2> QED BY <1>5, <2>1, <2>2, <2>3
<1>7. ASSUME NEW x \in Innermost(fn, cursor) PROVE x \in LatestOf(D)
  <2>1. PICK v \in scope : x = v.id /\ \A o \in scope : o.id.name = v.id.name => o.from <= v.from
    BY <1>5
  <2> DEFINE e == <<v.id, v.from>>
  <2>2. e \in D /\ e[1] = v.id /\ e[2] = v.from /\ e[1].name # Blank
    BY <1>3, <1>4
  <2> HIDE DEF e
  <2>3. ASSUME NEW o \in D, o[1].name = e[1].name PROVE o[2] <= e[2]
    <3>1. PICK w \in scope : w.id = o[1] /\ w.from = o[2]
      BY <1>2, <2>2, <2>3
    <3> QED BY <2>1, <2>2, <2>3, <3>1
  <2> QED BY <2>1, <2>2, <2>3 DEF LatestOf
<1> QED BY <1>1, <1>6, <1>7

=============================================================================
