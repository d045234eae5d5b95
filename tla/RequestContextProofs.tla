------------------------ MODULE RequestContextProofs ------------------------
(***************************************************************************)
(* Theorems about RequestContext, for any package of any sources, any      *)
(* cursor, window and budget: the context is that of the buffer, what is   *)
(* offered as visible is in scope, the budget drops other files first, the *)
(* prompt loses no code, and an answer that repeats the suffix is dropped. *)
(***************************************************************************)
EXTENDS RequestContext, GoScopeProofs, FiniteSetTheorems, SequenceTheorems,
        NaturalsInduction, WellFoundedInduction, TLAPS

-----------------------------------------------------------------------------
(* Lists: sorted, arranged. *)

(***************************************************************************)
(* The indices of a list in an order that is total: an element's place is  *)
(* the number of those up to it, so the places are 1 to the length.        *)
(***************************************************************************)
TotalOrder(R, n) ==
    /\ \A i \in 1 .. n : <<i, i>> \notin R
    /\ \A i, j \in 1 .. n : i # j => <<i, j>> \in R \/ <<j, i>> \in R
    /\ \A i, j, k \in 1 .. n : <<i, j>> \in R /\ <<j, k>> \in R => <<i, k>> \in R

LEMMA ArrangedFacts ==
    ASSUME NEW list, IsList(list), NEW R, TotalOrder(R, Len(list))
    PROVE  LET n == Len(list)
           IN  \E at \in [1 .. n -> 1 .. n] :
                 /\ Arranged(list, R) = [k \in 1 .. n |-> list[at[k]]]
                 /\ {at[k] : k \in 1 .. n} = 1 .. n
                 /\ \A k, l \in 1 .. n : k < l => <<at[k], at[l]>> \in R
<1> DEFINE n == Len(list)
           before(i) == {j \in 1 .. n : <<j, i>> \in R}
           place == [i \in 1 .. n |-> 1 + Cardinality(before(i))]
           at == [k \in 1 .. n |-> CHOOSE i \in 1 .. n : place[i] = k]
<1>1. n \in Nat /\ DOMAIN list = 1 .. n
  BY ListFacts
<1>2. Arranged(list, R) = [k \in 1 .. n |-> list[at[k]]]
  BY <1>1 DEF Arranged
<1>3. IsFiniteSet(1 .. n) /\ Cardinality(1 .. n) = n
  BY <1>1, IntervalSize
<1>4. ASSUME NEW i \in 1 .. n
      PROVE  /\ IsFiniteSet(before(i)) /\ Cardinality(before(i)) \in Nat
             /\ Cardinality(before(i)) < n
  <2>1. before(i) \in SUBSET (1 .. n) /\ before(i) # 1 .. n
    BY DEF TotalOrder
  <2> HIDE DEF before
  <2>2. /\ IsFiniteSet(before(i)) /\ Cardinality(before(i)) <= Cardinality(1 .. n)
        /\ Cardinality(before(i)) # Cardinality(1 .. n)
    BY <1>3, <2>1, FS_Subset
  <2>3. Cardinality(before(i)) \in Nat
    BY <2>2, FS_CardinalityType
  <2> HIDE DEF n
  <2> QED BY <1>1, <1>3, <2>2, <2>3
<1>5. ASSUME NEW i \in 1 .. n, NEW j \in 1 .. n, <<i, j>> \in R PROVE place[i] < place[j]
  <2>1. before(i) \subseteq before(j)
    BY <1>5 DEF TotalOrder
  <2>2. i \in before(j) /\ i \notin before(i)
    BY <1>5 DEF TotalOrder
  <2>3. place[i] = 1 + Cardinality(before(i)) /\ place[j] = 1 + Cardinality(before(j))
    OBVIOUS
  <2> HIDE DEF before, place
  <2>4. /\ Cardinality(before(i)) <= Cardinality(before(j))
        /\ Cardinality(before(i)) # Cardinality(before(j))
    BY <1>4, <2>1, <2>2, FS_Subset
  <2>5. Cardinality(before(i)) \in Nat /\ Cardinality(before(j)) \in Nat
    BY <1>4
  <2> QED BY <2>3, <2>4, <2>5
<1>6. place \in [1 .. n -> 1 .. n]
  <2>1. ASSUME NEW i \in 1 .. n PROVE 1 + Cardinality(before(i)) \in 1 .. n
    <3> HIDE DEF before, n
    <3> QED BY <1>1, <1>4
  <2> QED BY <2>1
<1> HIDE DEF before
<1>7. \A i, j \in 1 .. n : place[i] = place[j] => i = j
  <2>1. \A i \in 1 .. n : place[i] \in Int
    BY <1>6
  <2>2. ASSUME NEW i \in 1 .. n, NEW j \in 1 .. n, place[i] = place[j], i # j PROVE FALSE
    <3>1. <<i, j>> \in R \/ <<j, i>> \in R
      BY <2>2 DEF TotalOrder
    <3> HIDE DEF place, n
    <3>2. place[i] \in Int /\ place[j] \in Int
      BY <2>1
    <3>3. ~ (place[i] < place[j]) /\ ~ (place[j] < place[i])
      BY <2>2, <3>2
    <3> QED BY <1>5, <3>1, <3>3
  <2> HIDE DEF place
  <2> QED BY <2>2
<1> HIDE DEF place
<1>8. place \in Surjection(1 .. n, 1 .. n)
  <2>1. place \in Injection(1 .. n, 1 .. n)
    BY <1>6, <1>7 DEF Injection, IsInjective
  <2> HIDE DEF n
  <2> QED BY <1>3, <2>1, FS_Injection
<1>9. ASSUME NEW k \in 1 .. n PROVE at[k] \in 1 .. n /\ place[at[k]] = k
  <2>1. \E i \in 1 .. n : place[i] = k
    BY <1>8 DEF Surjection
  <2>2. at[k] = CHOOSE i \in 1 .. n : place[i] = k
    OBVIOUS
  <2> HIDE DEF at, n
  <2> QED BY <2>1, <2>2
<1>10. at \in [1 .. n -> 1 .. n]
  BY <1>9
<1> HIDE DEF at
<1>11. {at[k] : k \in 1 .. n} = 1 .. n
  <2>1. ASSUME NEW i \in 1 .. n PROVE \E k \in 1 .. n : at[k] = i
    <3>1. place[i] \in 1 .. n
      BY <1>6
    <3>2. at[place[i]] \in 1 .. n /\ place[at[place[i]]] = place[i]
      BY <1>9, <3>1
    <3>3. at[place[i]] = i
      BY <1>7, <3>2
    <3> QED BY <3>1, <3>3
  <2> QED BY <1>10, <2>1
<1>12. ASSUME NEW k \in 1 .. n, NEW l \in 1 .. n, k < l PROVE <<at[k], at[l]>> \in R
  <2>1. at[k] \in 1 .. n /\ at[l] \in 1 .. n /\ place[at[k]] = k /\ place[at[l]] = l
    BY <1>9
  <2>2. k \in Int /\ l \in Int
    BY <1>1
  <2>3. <<at[l], at[k]>> \notin R
    BY <1>5, <1>12, <2>1, <2>2
  <2>4. at[k] # at[l]
    BY <1>12, <2>1, <2>2
  <2> QED BY <2>1, <2>3, <2>4 DEF TotalOrder
<1> QED BY <1>2, <1>10, <1>11, <1>12

\* What an order on elements needs for a sort by it.
StrictWeak(B, X) ==
    /\ \A x, y \in X : <<x, y>> \in B => <<y, x>> \notin B
    /\ \A x, y, z \in X : <<x, z>> \in B => <<x, y>> \in B \/ <<y, z>> \in B

StablePairs(list, B) ==
    {pair \in (DOMAIN list) \X (DOMAIN list) :
        \/ <<list[pair[1]], list[pair[2]]>> \in B
        \/ <<list[pair[2]], list[pair[1]]>> \notin B /\ pair[1] < pair[2]}

LEMMA StableIsTotal ==
    ASSUME NEW list, IsList(list), NEW B, StrictWeak(B, Range(list))
    PROVE  TotalOrder(StablePairs(list, B), Len(list))
<1> DEFINE n == Len(list)
           R == StablePairs(list, B)
<1>1. /\ n \in Nat /\ DOMAIN list = 1 .. n
      /\ \A i \in 1 .. n : list[i] \in Range(list)
      /\ Range(list) = {list[i] : i \in 1 .. n}
  BY ListFacts DEF Range
<1> HIDE DEF n
<1>2. \A i, j \in 1 .. n :
        /\ <<list[i], list[j]>> \in B => <<list[j], list[i]>> \notin B
        /\ \A k \in 1 .. n : <<list[i], list[k]>> \in B
                             => <<list[i], list[j]>> \in B \/ <<list[j], list[k]>> \in B
  BY <1>1 DEF StrictWeak
<1>3. \A i, j \in 1 .. n : <<i, j>> \in R <=>
        \/ <<list[i], list[j]>> \in B
        \/ <<list[j], list[i]>> \notin B /\ i < j
  BY <1>1 DEF StablePairs
<1> HIDE DEF R
<1>4. TotalOrder(R, n)
  <2>1. ASSUME NEW i \in 1 .. n PROVE <<i, i>> \notin R
    <3>1. ~ (i < i)
      BY <1>1
    <3>2. <<list[i], list[i]>> \notin B
      BY <1>2
    <3> QED BY <1>3, <3>1, <3>2
  <2>2. ASSUME NEW i \in 1 .. n, NEW j \in 1 .. n, i # j PROVE <<i, j>> \in R \/ <<j, i>> \in R
    <3>1. i < j \/ j < i
      BY <1>1, <2>2
    <3> QED BY <1>3, <3>1
  <2>3. ASSUME NEW i \in 1 .. n, NEW j \in 1 .. n, NEW k \in 1 .. n,
               <<i, j>> \in R, <<j, k>> \in R
        PROVE  <<i, k>> \in R
    <3>1. i < j /\ j < k => i < k
      BY <1>1
    <3> QED BY <1>2, <1>3, <2>3, <3>1
  <2> QED BY <2>1, <2>2, <2>3 DEF TotalOrder
<1> QED BY <1>4 DEF n, R

(***************************************************************************)
(* A stable sort: the same elements as often, and none after one that      *)
(* belongs behind it.                                                      *)
(***************************************************************************)
Sorted(r, list, B) ==
    /\ IsList(r) /\ Len(r) = Len(list) /\ Range(r) = Range(list)
    /\ \A k, l \in 1 .. Len(r) : k < l => <<r[l], r[k]>> \notin B

LEMMA SortFacts ==
    ASSUME NEW list, IsList(list), NEW B, StrictWeak(B, Range(list))
    PROVE  Sorted(Arranged(list, StablePairs(list, B)), list, B)
<1> DEFINE n == Len(list)
           R == StablePairs(list, B)
           r == Arranged(list, R)
<1>1. /\ n \in Nat /\ DOMAIN list = 1 .. n
      /\ \A i \in 1 .. n : list[i] \in Range(list)
      /\ Range(list) = {list[i] : i \in 1 .. n}
  BY ListFacts DEF Range
<1> HIDE DEF n
<1>2. \A i, j \in 1 .. n :
        /\ <<list[i], list[j]>> \in B => <<list[j], list[i]>> \notin B
        /\ \A k \in 1 .. n : <<list[i], list[k]>> \in B
                             => <<list[i], list[j]>> \in B \/ <<list[j], list[k]>> \in B
  BY <1>1 DEF StrictWeak
<1>3. \A i, j \in 1 .. n : <<i, j>> \in R <=>
        \/ <<list[i], list[j]>> \in B
        \/ <<list[j], list[i]>> \notin B /\ i < j
  BY <1>1 DEF StablePairs
<1>4. TotalOrder(R, n)
  BY StableIsTotal DEF n
<1> HIDE DEF R
<1>5. PICK at \in [1 .. n -> 1 .. n] :
        /\ r = [k \in 1 .. n |-> list[at[k]]]
        /\ {at[k] : k \in 1 .. n} = 1 .. n
        /\ \A k, l \in 1 .. n : k < l => <<at[k], at[l]>> \in R
  BY <1>4, ArrangedFacts DEF n
<1> HIDE DEF r
<1>6. r = [k \in 1 .. n |-> r[k]]
  BY <1>5
<1>7. IsList(r) /\ Len(r) = n
  BY <1>1, <1>6, ListOfFunction
<1>8. Range(r) = Range(list)
  <2>1. Range(r) = {list[at[k]] : k \in 1 .. n}
    BY <1>5 DEF Range
  <2>2. \A i \in 1 .. n : \E k \in 1 .. n : at[k] = i
    BY <1>5
  <2>3. \A i \in 1 .. n : list[i] \in Range(r)
    BY <2>1, <2>2
  <2>4. \A k \in 1 .. n : list[at[k]] \in Range(list)
    BY <1>1, <1>5
  <2> QED BY <1>1, <2>1, <2>3, <2>4
<1>9. ASSUME NEW k \in 1 .. n, NEW l \in 1 .. n, k < l PROVE <<r[l], r[k]>> \notin B
  <2>1. r[k] = list[at[k]] /\ r[l] = list[at[l]]
    BY <1>5
  <2>2. <<at[k], at[l]>> \in R
    BY <1>5, <1>9
  <2> QED BY <1>2, <1>3, <1>5, <2>1, <2>2
<1>10. Sorted(r, list, B)
  BY <1>7, <1>8, <1>9 DEF Sorted, n
<1> QED BY <1>10 DEF r, R

-----------------------------------------------------------------------------
(* Two sorts of the same things. *)

\* Neither comes before the other.
Tied(B, x, y) == <<x, y>> \notin B /\ <<y, x>> \notin B

Follows(h, n, B) == \A i, j \in 1 .. n : i < j => <<h[j], h[i]>> \notin B

(***************************************************************************)
(* At the same place of two lists that follow the same order stand         *)
(* elements of which neither comes before the other: if h[k] came before   *)
(* g[k], so would the k elements up to h[k], and g has k - 1 before g[k].  *)
(***************************************************************************)
LEMMA SameOrder ==
    ASSUME NEW n, NEW S, NEW B, StrictWeak(B, S),
           NEW h, Enumerates(h, n, S), Follows(h, n, B),
           NEW g, Enumerates(g, n, S), Follows(g, n, B),
           NEW k \in 1 .. n
    PROVE  <<h[k], g[k]>> \notin B
<1> SUFFICES ASSUME <<h[k], g[k]>> \in B PROVE FALSE
  OBVIOUS
<1>1. n \in Nat /\ k \in Int /\ (\A i \in 1 .. n : h[i] \in S /\ g[i] \in S)
  BY DEF Enumerates
<1>2. ASSUME NEW i \in 1 .. k PROVE i \in 1 .. n /\ <<h[i], g[k]>> \in B
  <2>1. i \in 1 .. n /\ (i = k \/ i < k)
    BY <1>1
  <2>2. CASE i = k
    BY <2>1, <2>2
  <2>3. CASE i < k
    <3>1. <<h[k], h[i]>> \notin B
      BY <2>1, <2>3 DEF Follows
    <3> QED BY <1>1, <2>1, <3>1 DEF StrictWeak
  <2> QED BY <2>1, <2>2, <2>3
<1> DEFINE f == [i \in 1 .. k |-> CHOOSE j \in 1 .. n : g[j] = h[i]]
           m == k - 1
<1>3. ASSUME NEW i \in 1 .. k PROVE f[i] \in 1 .. m /\ g[f[i]] = h[i]
  <2>1. \E j \in 1 .. n : g[j] = h[i]
    BY <1>1, <1>2 DEF Enumerates
  <2>2. f[i] = CHOOSE j \in 1 .. n : g[j] = h[i]
    OBVIOUS
  <2> HIDE DEF f
  <2>3. f[i] \in 1 .. n /\ g[f[i]] = h[i]
    BY <2>1, <2>2
  <2>4. <<g[f[i]], g[k]>> \in B
    BY <1>2, <2>3
  <2>5. ~ (k < f[i])
    BY <2>3, <2>4 DEF Follows
  <2>6. f[i] # k
    BY <1>1, <2>4 DEF StrictWeak
  <2> QED BY <1>1, <2>3, <2>5, <2>6
<1>4. f \in [1 .. k -> 1 .. m]
  <2> HIDE DEF m
  <2> QED BY <1>3
<1>5. k \in Nat /\ m \in Nat /\ m < k
  BY <1>1
<1> HIDE DEF f, m
<1>6. /\ IsFiniteSet(1 .. k) /\ Cardinality(1 .. k) = k
      /\ IsFiniteSet(1 .. m) /\ Cardinality(1 .. m) = m
  BY <1>5, IntervalSize
<1>7. PICK x \in 1 .. k, y \in 1 .. k : x # y /\ f[x] = f[y]
  BY <1>4, <1>5, <1>6, FS_PigeonHole
<1>8. h[x] = h[y] /\ x \in 1 .. n /\ y \in 1 .. n
  BY <1>2, <1>3, <1>7
<1> QED BY <1>7, <1>8 DEF Enumerates

\* A list of the values of the elements that g lists.
Values(list, g, val) == \A m \in 1 .. Len(list) : list[m] = val[g[m]]

\* The order of the places of g, as far as N tells.
Along(g, n, N) == \A i, j \in 1 .. n : i < j => <<g[i], g[j]>> \in N

(***************************************************************************)
(* What a stable sort is of, element by element: the sorted list has the   *)
(* values of h, and of two that tie the one that was first still is.       *)
(***************************************************************************)
SortedOnce(r, h, n, S, val, B, N) ==
    /\ Enumerates(h, n, S) /\ Len(r) = n /\ IsList(r)
    /\ \A k \in 1 .. n : r[k] = val[h[k]]
    /\ \A k, l \in 1 .. n : k < l =>
          /\ <<r[l], r[k]>> \notin B
          /\ <<r[k], r[l]>> \in B \/ <<h[k], h[l]>> \in N

LEMMA SortOnce ==
    ASSUME NEW list, IsList(list), NEW B, StrictWeak(B, Range(list)),
           NEW S, NEW g, Enumerates(g, Len(list), S),
           NEW val, Values(list, g, val), NEW N, Along(g, Len(list), N)
    PROVE  \E h : SortedOnce(Arranged(list, StablePairs(list, B)), h, Len(list), S, val, B, N)
<1> DEFINE n == Len(list)
           R == StablePairs(list, B)
           r == Arranged(list, R)
<1>1. n \in Nat /\ DOMAIN list = 1 .. n
  BY ListFacts
<1>2. PICK at \in [1 .. n -> 1 .. n] :
        /\ r = [k \in 1 .. n |-> list[at[k]]]
        /\ {at[k] : k \in 1 .. n} = 1 .. n
        /\ \A k, l \in 1 .. n : k < l => <<at[k], at[l]>> \in R
  BY StableIsTotal, ArrangedFacts
<1>3. Sorted(r, list, B)
  BY SortFacts
<1> DEFINE h == [k \in 1 .. n |-> g[at[k]]]
<1>4. g \in [1 .. n -> S] /\ (\A i, j \in 1 .. n : g[i] = g[j] => i = j)
      /\ (\A x \in S : \E k \in 1 .. n : g[k] = x)
  BY DEF Enumerates
<1>5. \A i, j \in 1 .. n : <<i, j>> \in R =>
         <<list[i], list[j]>> \in B \/ (<<list[j], list[i]>> \notin B /\ i < j)
  BY <1>1 DEF StablePairs
<1>6. \A m \in 1 .. n : list[m] = val[g[m]]
  BY DEF Values
<1>7. \A i, j \in 1 .. n : i < j => <<g[i], g[j]>> \in N
  BY DEF Along
<1>8. TotalOrder(R, n)
  BY StableIsTotal
<1>9. IsList(r) /\ Len(r) = n /\ (\A k, l \in 1 .. n : k < l => <<r[l], r[k]>> \notin B)
  BY <1>3 DEF Sorted
<1> HIDE DEF n, R, r
<1>10. \A k \in 1 .. n : at[k] \in 1 .. n /\ h[k] = g[at[k]] /\ r[k] = list[at[k]]
  BY <1>2
<1>11. Enumerates(h, n, S)
  <2>1. h \in [1 .. n -> S]
    BY <1>2, <1>4
  <2>2. ASSUME NEW i \in 1 .. n, NEW j \in 1 .. n, h[i] = h[j] PROVE i = j
    <3>1. at[i] = at[j]
      BY <1>4, <1>10, <2>2
    <3>2. i < j \/ j < i \/ i = j
      BY <1>1
    <3>3. <<at[i], at[i]>> \notin R
      BY <1>8, <1>10 DEF TotalOrder
    <3>4. ~ (i < j) /\ ~ (j < i)
      BY <1>2, <3>1, <3>3
    <3> QED BY <3>2, <3>4
  <2>3. ASSUME NEW x \in S PROVE \E k \in 1 .. n : h[k] = x
    <3>1. PICK m \in 1 .. n : g[m] = x
      BY <1>4
    <3>2. PICK k \in 1 .. n : at[k] = m
      BY <1>2
    <3> QED BY <1>10, <3>1, <3>2
  <2> HIDE DEF h
  <2> QED BY <1>1, <2>1, <2>2, <2>3 DEF Enumerates
<1> HIDE DEF h
<1>12. \A k \in 1 .. n : r[k] = val[h[k]]
  BY <1>6, <1>10
<1>13. ASSUME NEW k \in 1 .. n, NEW l \in 1 .. n, k < l
       PROVE  <<r[k], r[l]>> \in B \/ <<h[k], h[l]>> \in N
  <2>1. <<at[k], at[l]>> \in R
    BY <1>2, <1>13
  <2>2. /\ at[k] \in 1 .. n /\ h[k] = g[at[k]] /\ r[k] = list[at[k]]
        /\ at[l] \in 1 .. n /\ h[l] = g[at[l]] /\ r[l] = list[at[l]]
    BY <1>10
  <2>3. <<list[at[k]], list[at[l]]>> \in B \/ at[k] < at[l]
    BY <1>5, <2>1, <2>2
  <2>4. at[k] < at[l] => <<g[at[k]], g[at[l]]>> \in N
    BY <1>7, <2>2
  <2> QED BY <2>2, <2>3, <2>4
<1>14. SortedOnce(r, h, n, S, val, B, N)
  BY <1>9, <1>11, <1>12, <1>13 DEF SortedOnce
<1> QED BY <1>14 DEF n, R, r

-----------------------------------------------------------------------------
(* The orders that collect sorts by. *)

\* A score, then two keys.
LEMMA Lexical ==
    ASSUME NEW X, NEW score \in [X -> Int], NEW key \in [X -> Int], NEW last \in [X -> Int]
    PROVE  StrictWeak({p \in X \X X :
               IF score[p[1]] # score[p[2]] THEN score[p[1]] > score[p[2]]
               ELSE IF key[p[1]] = key[p[2]] THEN last[p[1]] < last[p[2]]
               ELSE key[p[1]] < key[p[2]]}, X)
<1> DEFINE Less(x, y) == IF score[x] # score[y] THEN score[x] > score[y]
                         ELSE IF key[x] = key[y] THEN last[x] < last[y]
                         ELSE key[x] < key[y]
           B == {p \in X \X X : Less(p[1], p[2])}
<1>1. \A x, y \in X : <<x, y>> \in B <=> Less(x, y)
  OBVIOUS
<1>2. \A x, y \in X : Less(x, y) => ~ Less(y, x)
  OBVIOUS
<1>3. ASSUME NEW x \in X, NEW y \in X, NEW z \in X, Less(x, z), ~ Less(x, y) PROVE Less(y, z)
  <2>1. score[x] \in Int /\ score[y] \in Int /\ score[z] \in Int
    OBVIOUS
  <2>2. key[x] \in Int /\ key[y] \in Int /\ key[z] \in Int
    OBVIOUS
  <2>3. last[x] \in Int /\ last[y] \in Int /\ last[z] \in Int
    OBVIOUS
  <2> QED BY <1>3, <2>1, <2>2, <2>3
<1> HIDE DEF B, Less
<1>4. StrictWeak(B, X)
  BY <1>1, <1>2, <1>3 DEF StrictWeak
<1> QED BY <1>4 DEF B, Less

\* The entries of a context.
IsImport(e) == e.path \in Nat /\ e.file \in Nat

IsNamed(e) == e.name \in Nat /\ e.file \in Nat

IsFunc(e) == IsNamed(e) /\ e.signature \in Nat /\ IsFiniteSet(e.mentions)

IsValue(e) == IsNamed(e) /\ e.type \in TypeExprs /\ e.value \in Seq(Nat)

Imported(list) == IsList(list) /\ \A e \in Range(list) : IsImport(e)

Named(list) == IsList(list) /\ \A e \in Range(list) : IsNamed(e)

Functional(list) == IsList(list) /\ \A e \in Range(list) : IsFunc(e)

Valued(list) == IsList(list) /\ \A e \in Range(list) : IsValue(e)

\* The pairs of indices by which SliceStable arranges each kind.
FilePairs(list, path) ==
    {pair \in (DOMAIN list) \X (DOMAIN list) :
        \/ FilesBefore(list[pair[1]], list[pair[2]], path)
        \/ ~ FilesBefore(list[pair[2]], list[pair[1]], path) /\ pair[1] < pair[2]}

ImportPairs(list, at) ==
    {pair \in (DOMAIN list) \X (DOMAIN list) :
        \/ ImportsBefore(list[pair[1]], list[pair[2]], at)
        \/ ~ ImportsBefore(list[pair[2]], list[pair[1]], at) /\ pair[1] < pair[2]}

NamedPairs(list, at) ==
    {pair \in (DOMAIN list) \X (DOMAIN list) :
        \/ NamedBefore(list[pair[1]], list[pair[2]], at)
        \/ ~ NamedBefore(list[pair[2]], list[pair[1]], at) /\ pair[1] < pair[2]}

FunctionPairs(list, at) ==
    {pair \in (DOMAIN list) \X (DOMAIN list) :
        \/ FunctionsBefore(list[pair[1]], list[pair[2]], at)
        \/ ~ FunctionsBefore(list[pair[2]], list[pair[1]], at) /\ pair[1] < pair[2]}

ValuePairs(list, at) ==
    {pair \in (DOMAIN list) \X (DOMAIN list) :
        \/ ValuesBefore(list[pair[1]], list[pair[2]], at)
        \/ ~ ValuesBefore(list[pair[2]], list[pair[1]], at) /\ pair[1] < pair[2]}

\* The same orders on a set of entries.
FileOrder(X, path) == {p \in X \X X : FilesBefore(p[1], p[2], path)}

ImportOrder(X, at) == {p \in X \X X : ImportsBefore(p[1], p[2], at)}

NamedOrder(X, at) == {p \in X \X X : NamedBefore(p[1], p[2], at)}

FunctionOrder(X, at) == {p \in X \X X : FunctionsBefore(p[1], p[2], at)}

ValueOrder(X, at) == {p \in X \X X : ValuesBefore(p[1], p[2], at)}

LEMMA OrderOfFiles ==
    ASSUME NEW list, IsList(list), Range(list) \subseteq Nat, NEW path
    PROVE  LET X == Range(list)
               B == FileOrder(X, path)
           IN  /\ StrictWeak(B, X) /\ FilePairs(list, path) = StablePairs(list, B)
               /\ \A x, y \in X : <<x, y>> \in B <=> FilesBefore(x, y, path)
               /\ \A x, y \in X : Tied(B, x, y) => x = y
<1> DEFINE X == Range(list)
           B == FileOrder(X, path)
<1>1. \A x, y \in X : <<x, y>> \in B <=> FilesBefore(x, y, path)
  BY DEF FileOrder
<1>2. \A x \in X : x \in Int
  OBVIOUS
<1>3. \A i \in DOMAIN list : list[i] \in X
  BY DEF Range
<1> HIDE DEF X
<1>4. StrictWeak(B, X)
  <2>1. \A x, y \in X : FilesBefore(x, y, path) => ~ FilesBefore(y, x, path)
    BY <1>2 DEF FilesBefore
  <2>2. ASSUME NEW x \in X, NEW y \in X, NEW z \in X,
               FilesBefore(x, z, path), ~ FilesBefore(x, y, path)
        PROVE  FilesBefore(y, z, path)
    BY <1>2, <2>2 DEF FilesBefore
  <2> HIDE DEF B
  <2> QED BY <1>1, <2>1, <2>2 DEF StrictWeak
<1> HIDE DEF B
<1>5. FilePairs(list, path) = StablePairs(list, B)
  BY <1>1, <1>3 DEF FilePairs, StablePairs
<1>6. ASSUME NEW x \in X, NEW y \in X, Tied(B, x, y) PROVE x = y
  <2>1. ~ FilesBefore(x, y, path) /\ ~ FilesBefore(y, x, path)
    BY <1>1, <1>6 DEF Tied
  <2> QED BY <1>2, <2>1 DEF FilesBefore
<1> QED BY <1>1, <1>4, <1>5, <1>6 DEF B, X

\* The files of a package, the current one first.
LEMMA SortFiles ==
    ASSUME NEW list, IsList(list), Range(list) \subseteq Nat, NEW path \in Range(list)
    PROVE  LET r == Arranged(list, FilePairs(list, path))
           IN  Len(r) = Len(list) /\ Range(r) = Range(list) /\ r[1] = path
<1> DEFINE X == Range(list)
           B == FileOrder(X, path)
           r == Arranged(list, FilePairs(list, path))
<1>1. /\ StrictWeak(B, X) /\ FilePairs(list, path) = StablePairs(list, B)
      /\ \A x, y \in X : <<x, y>> \in B <=> FilesBefore(x, y, path)
  BY OrderOfFiles
<1> HIDE DEF B, X
<1>2. Sorted(r, list, B)
  BY <1>1, SortFacts DEF X
<1>3. /\ IsList(r) /\ Len(r) = Len(list) /\ Range(r) = X
      /\ \A k, l \in 1 .. Len(r) : k < l => <<r[l], r[k]>> \notin B
  BY <1>2 DEF Sorted, X
<1> HIDE DEF r
<1>4. PICK l \in 1 .. Len(r) : r[l] = path
  BY <1>3, ListFacts DEF X
<1>5. Len(r) \in Nat /\ \A k \in 1 .. Len(r) : r[k] \in X
  BY <1>3, ListFacts
<1>6. 1 \in 1 .. Len(r) /\ (l = 1 \/ 1 < l)
  BY <1>4, <1>5
<1>7. CASE 1 < l
  <2>1. ~ FilesBefore(path, r[1], path)
    BY <1>1, <1>3, <1>4, <1>5, <1>6, <1>7
  <2> QED BY <1>3, <2>1 DEF FilesBefore, X, r
<1> QED BY <1>3, <1>4, <1>6, <1>7 DEF r, X

LEMMA Scores ==
    ASSUME NEW condition, NEW score \in Nat
    PROVE  If(condition, score) \in Nat /\ If(condition, score) <= score
BY DEF If

\* No entry of another file before one of the current file.
OwnFirst(r, file) ==
    \A k, l \in 1 .. Len(r) : k < l /\ r[l].file = file => r[k].file = file

\* The rest of an import's score is below what its file counts.
LEMMA ImportScores ==
    ASSUME NEW e, NEW at
    PROVE  /\ ImportScore(e, at) \in Nat
           /\ e.file = at.file => ImportScore(e, at) >= 1000
           /\ e.file # at.file => ImportScore(e, at) <= 700
<1> DEFINE near == If(e.path \in at.tokens, 300)
<1>1. near \in Nat /\ near <= 300
  BY Scores
<1> HIDE DEF near
<1>2. FileScore(e.file, at.file) = IF e.file = at.file THEN 1000 ELSE 0
  BY DEF FileScore, If
<1>3. ImportScore(e, at) = FileScore(e.file, at.file) + near
  BY DEF ImportScore, near
<1> QED BY <1>1, <1>2, <1>3

LEMMA TypeScores ==
    ASSUME NEW e, NEW at
    PROVE  /\ TypeScore(e, at) \in Nat
           /\ e.file = at.file => TypeScore(e, at) >= 1000
           /\ e.file # at.file => TypeScore(e, at) <= 700
<1> DEFINE seen == If(e.name \in at.types, 400)
           near == If(e.name \in at.tokens, 300)
<1>1. near \in Nat /\ near <= 300 /\ seen \in Nat /\ seen <= 400
  BY Scores
<1> HIDE DEF near, seen
<1>2. FileScore(e.file, at.file) = IF e.file = at.file THEN 1000 ELSE 0
  BY DEF FileScore, If
<1>3. TypeScore(e, at) = FileScore(e.file, at.file) + seen + near
  BY DEF TypeScore, near, seen
<1> QED BY <1>1, <1>2, <1>3

LEMMA OrderOfImport ==
    ASSUME NEW list, Imported(list), NEW at
    PROVE  LET X == Range(list)
               B == ImportOrder(X, at)
           IN  /\ StrictWeak(B, X) /\ ImportPairs(list, at) = StablePairs(list, B)
               /\ \A x, y \in X : <<x, y>> \in B <=> ImportsBefore(x, y, at)
               /\ \A x, y \in X : Tied(B, x, y) => x.file = y.file
<1> DEFINE X == Range(list)
           score == [x \in X |-> ImportScore(x, at)]
           key == [x \in X |-> x.file]
           last == [x \in X |-> x.path]
           C == {p \in X \X X :
                   IF score[p[1]] # score[p[2]] THEN score[p[1]] > score[p[2]]
                   ELSE IF key[p[1]] = key[p[2]] THEN last[p[1]] < last[p[2]]
                   ELSE key[p[1]] < key[p[2]]}
           B == ImportOrder(X, at)
<1>1. score \in [X -> Int]
  BY ImportScores
<1>2. key \in [X -> Int] /\ last \in [X -> Int]
  BY DEF Imported, IsImport
<1>3. StrictWeak(C, X)
  <2> HIDE DEF score, key, last, X
  <2> QED BY <1>1, <1>2, Lexical
<1>4. \A x, y \in X : <<x, y>> \in C <=> ImportsBefore(x, y, at)
  BY DEF ImportsBefore
<1>5. \A x, y \in X : <<x, y>> \in B <=> ImportsBefore(x, y, at)
  BY DEF ImportOrder
<1>6. \A i \in DOMAIN list : list[i] \in X
  BY DEF Range
<1>7. ASSUME NEW x \in X, NEW y \in X, Tied(B, x, y) PROVE x.file = y.file
  <2>1. ~ ImportsBefore(x, y, at) /\ ~ ImportsBefore(y, x, at)
    BY <1>5, <1>7 DEF Tied
  <2>2. /\ score[x] \in Int /\ score[y] \in Int /\ score[x] = ImportScore(x, at) /\ score[y] = ImportScore(y, at)
        /\ key[x] \in Int /\ key[y] \in Int /\ key[x] = x.file /\ key[y] = y.file
        /\ last[x] \in Int /\ last[y] \in Int /\ last[x] = x.path /\ last[y] = y.path
    BY <1>1, <1>2
  <2> HIDE DEF score, key, last
  <2> QED BY <2>1, <2>2 DEF ImportsBefore
<1> HIDE DEF B, C, X
<1>8. StrictWeak(B, X)
  BY <1>3, <1>4, <1>5 DEF StrictWeak
<1>9. ImportPairs(list, at) = StablePairs(list, B)
  BY <1>5, <1>6 DEF ImportPairs, StablePairs
<1> QED BY <1>5, <1>7, <1>8, <1>9 DEF B, X

LEMMA SortImports ==
    ASSUME NEW list, Imported(list), NEW at
    PROVE  LET r == Arranged(list, ImportPairs(list, at))
           IN  IsList(r) /\ Len(r) = Len(list) /\ Range(r) = Range(list) /\ OwnFirst(r, at.file)
<1> DEFINE X == Range(list)
           B == ImportOrder(X, at)
           r == Arranged(list, ImportPairs(list, at))
<1>1. /\ StrictWeak(B, X) /\ ImportPairs(list, at) = StablePairs(list, B)
      /\ \A x, y \in X : <<x, y>> \in B <=> ImportsBefore(x, y, at)
  BY OrderOfImport
<1> HIDE DEF B
<1>2. Sorted(r, list, B)
  BY <1>1, SortFacts DEF Imported
<1> HIDE DEF r
<1>3. IsList(r) /\ Len(r) = Len(list) /\ Range(r) = X
  BY <1>2 DEF Sorted
<1> HIDE DEF X
<1>4. ASSUME NEW k \in 1 .. Len(r), NEW l \in 1 .. Len(r), k < l, r[l].file = at.file
      PROVE  r[k].file = at.file
  <2>1. r[k] \in X /\ r[l] \in X
    BY <1>3, ListFacts
  <2>2. ~ ImportsBefore(r[l], r[k], at)
    BY <1>1, <1>2, <1>4, <2>1 DEF Sorted
  <2>3. ~ (ImportScore(r[l], at) > ImportScore(r[k], at))
    <3>1. ImportScore(r[l], at) \in Nat /\ ImportScore(r[k], at) \in Nat
      BY ImportScores
    <3> QED BY <2>2, <3>1 DEF ImportsBefore
  <2> QED BY <1>4, <2>3, ImportScores
<1> QED BY <1>3, <1>4 DEF OwnFirst, r, X

LEMMA OrderOfNamed ==
    ASSUME NEW list, Named(list), NEW at
    PROVE  LET X == Range(list)
               B == NamedOrder(X, at)
           IN  /\ StrictWeak(B, X) /\ NamedPairs(list, at) = StablePairs(list, B)
               /\ \A x, y \in X : <<x, y>> \in B <=> NamedBefore(x, y, at)
               /\ \A x, y \in X : Tied(B, x, y) => x.name = y.name
<1> DEFINE X == Range(list)
           score == [x \in X |-> TypeScore(x, at)]
           key == [x \in X |-> 0]
           last == [x \in X |-> x.name]
           C == {p \in X \X X :
                   IF score[p[1]] # score[p[2]] THEN score[p[1]] > score[p[2]]
                   ELSE IF key[p[1]] = key[p[2]] THEN last[p[1]] < last[p[2]]
                   ELSE key[p[1]] < key[p[2]]}
           B == NamedOrder(X, at)
<1>1. score \in [X -> Int]
  BY TypeScores
<1>2. key \in [X -> Int] /\ last \in [X -> Int]
  BY DEF Named, IsNamed
<1>3. StrictWeak(C, X)
  <2> HIDE DEF score, key, last, X
  <2> QED BY <1>1, <1>2, Lexical
<1>4. \A x, y \in X : <<x, y>> \in C <=> NamedBefore(x, y, at)
  BY DEF NamedBefore
<1>5. \A x, y \in X : <<x, y>> \in B <=> NamedBefore(x, y, at)
  BY DEF NamedOrder
<1>6. \A i \in DOMAIN list : list[i] \in X
  BY DEF Range
<1>7. ASSUME NEW x \in X, NEW y \in X, Tied(B, x, y) PROVE x.name = y.name
  <2>1. ~ NamedBefore(x, y, at) /\ ~ NamedBefore(y, x, at)
    BY <1>5, <1>7 DEF Tied
  <2>2. /\ score[x] \in Int /\ score[y] \in Int /\ score[x] = TypeScore(x, at) /\ score[y] = TypeScore(y, at)
        /\ key[x] \in Int /\ key[y] \in Int /\ key[x] = 0 /\ key[y] = 0
        /\ last[x] \in Int /\ last[y] \in Int /\ last[x] = x.name /\ last[y] = y.name
    BY <1>1, <1>2
  <2> HIDE DEF score, key, last
  <2> QED BY <2>1, <2>2 DEF NamedBefore
<1> HIDE DEF B, C, X
<1>8. StrictWeak(B, X)
  BY <1>3, <1>4, <1>5 DEF StrictWeak
<1>9. NamedPairs(list, at) = StablePairs(list, B)
  BY <1>5, <1>6 DEF NamedPairs, StablePairs
<1> QED BY <1>5, <1>7, <1>8, <1>9 DEF B, X

LEMMA SortNamed ==
    ASSUME NEW list, Named(list), NEW at
    PROVE  LET r == Arranged(list, NamedPairs(list, at))
           IN  IsList(r) /\ Len(r) = Len(list) /\ Range(r) = Range(list) /\ OwnFirst(r, at.file)
<1> DEFINE X == Range(list)
           B == NamedOrder(X, at)
           r == Arranged(list, NamedPairs(list, at))
<1>1. /\ StrictWeak(B, X) /\ NamedPairs(list, at) = StablePairs(list, B)
      /\ \A x, y \in X : <<x, y>> \in B <=> NamedBefore(x, y, at)
  BY OrderOfNamed
<1> HIDE DEF B
<1>2. Sorted(r, list, B)
  BY <1>1, SortFacts DEF Named
<1> HIDE DEF r
<1>3. IsList(r) /\ Len(r) = Len(list) /\ Range(r) = X
  BY <1>2 DEF Sorted
<1> HIDE DEF X
<1>4. ASSUME NEW k \in 1 .. Len(r), NEW l \in 1 .. Len(r), k < l, r[l].file = at.file
      PROVE  r[k].file = at.file
  <2>1. r[k] \in X /\ r[l] \in X
    BY <1>3, ListFacts
  <2>2. ~ NamedBefore(r[l], r[k], at)
    BY <1>1, <1>2, <1>4, <2>1 DEF Sorted
  <2>3. ~ (TypeScore(r[l], at) > TypeScore(r[k], at))
    <3>1. TypeScore(r[l], at) \in Nat /\ TypeScore(r[k], at) \in Nat
      BY TypeScores
    <3> QED BY <2>2, <3>1 DEF NamedBefore
  <2> QED BY <1>4, <2>3, TypeScores
<1> QED BY <1>3, <1>4 DEF OwnFirst, r, X

LEMMA FunctionScores ==
    ASSUME NEW e, IsFunc(e), NEW at
    PROVE  FunctionScore(e, at) \in Nat
<1> DEFINE many == Cardinality(e.mentions \cap at.types)
<1>1. FileScore(e.file, at.file) \in Nat
  BY Scores DEF FileScore
<1>2. If(e.receiver # None /\ e.receiver = at.receiver, 600) \in Nat
  BY Scores
<1>3. If(e.name \in at.functions \cup at.tokens, 300) \in Nat
  BY Scores
<1>4. If(e.receiver \in at.types, 250) \in Nat
  BY Scores
<1>5. many \in Nat
  <2>1. IsFiniteSet(e.mentions) /\ e.mentions \cap at.types \in SUBSET e.mentions
    BY DEF IsFunc
  <2>2. IsFiniteSet(e.mentions \cap at.types)
    BY <2>1, FS_Subset
  <2> QED BY <2>2, FS_CardinalityType
<1> HIDE DEF many
<1> QED BY <1>1, <1>2, <1>3, <1>4, <1>5 DEF FunctionScore, many

LEMMA OrderOfFunction ==
    ASSUME NEW list, Functional(list), NEW at
    PROVE  LET X == Range(list)
               B == FunctionOrder(X, at)
           IN  /\ StrictWeak(B, X) /\ FunctionPairs(list, at) = StablePairs(list, B)
               /\ \A x, y \in X : <<x, y>> \in B <=> FunctionsBefore(x, y, at)
               /\ \A x, y \in X : Tied(B, x, y) => x.signature = y.signature
<1> DEFINE X == Range(list)
           score == [x \in X |-> FunctionScore(x, at)]
           key == [x \in X |-> 0]
           last == [x \in X |-> x.signature]
           C == {p \in X \X X :
                   IF score[p[1]] # score[p[2]] THEN score[p[1]] > score[p[2]]
                   ELSE IF key[p[1]] = key[p[2]] THEN last[p[1]] < last[p[2]]
                   ELSE key[p[1]] < key[p[2]]}
           B == FunctionOrder(X, at)
<1>1. score \in [X -> Int]
  BY FunctionScores DEF Functional
<1>2. key \in [X -> Int] /\ last \in [X -> Int]
  BY DEF Functional, IsFunc
<1>3. StrictWeak(C, X)
  <2> HIDE DEF score, key, last, X
  <2> QED BY <1>1, <1>2, Lexical
<1>4. \A x, y \in X : <<x, y>> \in C <=> FunctionsBefore(x, y, at)
  BY DEF FunctionsBefore
<1>5. \A x, y \in X : <<x, y>> \in B <=> FunctionsBefore(x, y, at)
  BY DEF FunctionOrder
<1>6. \A i \in DOMAIN list : list[i] \in X
  BY DEF Range
<1>7. ASSUME NEW x \in X, NEW y \in X, Tied(B, x, y) PROVE x.signature = y.signature
  <2>1. ~ FunctionsBefore(x, y, at) /\ ~ FunctionsBefore(y, x, at)
    BY <1>5, <1>7 DEF Tied
  <2>2. /\ score[x] \in Int /\ score[y] \in Int /\ score[x] = FunctionScore(x, at) /\ score[y] = FunctionScore(y, at)
        /\ key[x] \in Int /\ key[y] \in Int /\ key[x] = 0 /\ key[y] = 0
        /\ last[x] \in Int /\ last[y] \in Int /\ last[x] = x.signature /\ last[y] = y.signature
    BY <1>1, <1>2
  <2> HIDE DEF score, key, last
  <2> QED BY <2>1, <2>2 DEF FunctionsBefore
<1> HIDE DEF B, C, X
<1>8. StrictWeak(B, X)
  BY <1>3, <1>4, <1>5 DEF StrictWeak
<1>9. FunctionPairs(list, at) = StablePairs(list, B)
  BY <1>5, <1>6 DEF FunctionPairs, StablePairs
<1> QED BY <1>5, <1>7, <1>8, <1>9 DEF B, X

LEMMA SortFunctions ==
    ASSUME NEW list, Functional(list), NEW at
    PROVE  LET r == Arranged(list, FunctionPairs(list, at))
           IN  IsList(r) /\ Len(r) = Len(list) /\ Range(r) = Range(list)
<1> DEFINE X == Range(list)
           B == FunctionOrder(X, at)
           r == Arranged(list, FunctionPairs(list, at))
<1>1. /\ StrictWeak(B, X) /\ FunctionPairs(list, at) = StablePairs(list, B)
      /\ \A x, y \in X : <<x, y>> \in B <=> FunctionsBefore(x, y, at)
  BY OrderOfFunction
<1> HIDE DEF B
<1>2. Sorted(r, list, B)
  BY <1>1, SortFacts DEF Functional
<1> QED BY <1>2 DEF Sorted

LEMMA ValueScores ==
    ASSUME NEW e, IsValue(e), NEW at
    PROVE  ValueScore(e, at) \in Nat
<1> DEFINE mentioned == e.type.idents \o e.value
           S == {i \in DOMAIN mentioned : mentioned[i] \in at.tokens}
<1>1. e.type.idents \in Seq(Nat) /\ e.value \in Seq(Nat)
  BY DEF IsValue, TypeExprs
<1>2. mentioned \in Seq(Nat)
  BY <1>1, ConcatProperties
<1> HIDE DEF mentioned
<1>3. Len(mentioned) \in Nat /\ DOMAIN mentioned = 1 .. Len(mentioned)
  BY <1>2, LenProperties
<1>4. S \in SUBSET (1 .. Len(mentioned))
  BY <1>3
<1> HIDE DEF S
<1>5. Cardinality(S) \in Nat
  BY <1>3, <1>4, IntervalSize, FS_Subset, FS_CardinalityType
<1>6. FileScore(e.file, at.file) \in Nat /\ If(e.name \in at.tokens, 300) \in Nat
  BY Scores DEF FileScore
<1>7. ValueScore(e, at) = FileScore(e.file, at.file) + If(e.name \in at.tokens, 300)
                          + 50 * Cardinality(S)
  BY DEF ValueScore, S, mentioned
<1> QED BY <1>5, <1>6, <1>7

LEMMA OrderOfValue ==
    ASSUME NEW list, Valued(list), NEW at
    PROVE  LET X == Range(list)
               B == ValueOrder(X, at)
           IN  /\ StrictWeak(B, X) /\ ValuePairs(list, at) = StablePairs(list, B)
               /\ \A x, y \in X : <<x, y>> \in B <=> ValuesBefore(x, y, at)
               /\ \A x, y \in X : Tied(B, x, y) => x.file = y.file
<1> DEFINE X == Range(list)
           score == [x \in X |-> ValueScore(x, at)]
           key == [x \in X |-> x.file]
           last == [x \in X |-> x.name]
           C == {p \in X \X X :
                   IF score[p[1]] # score[p[2]] THEN score[p[1]] > score[p[2]]
                   ELSE IF key[p[1]] = key[p[2]] THEN last[p[1]] < last[p[2]]
                   ELSE key[p[1]] < key[p[2]]}
           B == ValueOrder(X, at)
<1>1. score \in [X -> Int]
  BY ValueScores DEF Valued
<1>2. key \in [X -> Int] /\ last \in [X -> Int]
  BY DEF Valued, IsValue, IsNamed
<1>3. StrictWeak(C, X)
  <2> HIDE DEF score, key, last, X
  <2> QED BY <1>1, <1>2, Lexical
<1>4. \A x, y \in X : <<x, y>> \in C <=> ValuesBefore(x, y, at)
  BY DEF ValuesBefore
<1>5. \A x, y \in X : <<x, y>> \in B <=> ValuesBefore(x, y, at)
  BY DEF ValueOrder
<1>6. \A i \in DOMAIN list : list[i] \in X
  BY DEF Range
<1>7. ASSUME NEW x \in X, NEW y \in X, Tied(B, x, y) PROVE x.file = y.file
  <2>1. ~ ValuesBefore(x, y, at) /\ ~ ValuesBefore(y, x, at)
    BY <1>5, <1>7 DEF Tied
  <2>2. /\ score[x] \in Int /\ score[y] \in Int /\ score[x] = ValueScore(x, at) /\ score[y] = ValueScore(y, at)
        /\ key[x] \in Int /\ key[y] \in Int /\ key[x] = x.file /\ key[y] = y.file
        /\ last[x] \in Int /\ last[y] \in Int /\ last[x] = x.name /\ last[y] = y.name
    BY <1>1, <1>2
  <2> HIDE DEF score, key, last
  <2> QED BY <2>1, <2>2 DEF ValuesBefore
<1> HIDE DEF B, C, X
<1>8. StrictWeak(B, X)
  BY <1>3, <1>4, <1>5 DEF StrictWeak
<1>9. ValuePairs(list, at) = StablePairs(list, B)
  BY <1>5, <1>6 DEF ValuePairs, StablePairs
<1> QED BY <1>5, <1>7, <1>8, <1>9 DEF B, X

LEMMA SortValues ==
    ASSUME NEW list, Valued(list), NEW at
    PROVE  LET r == Arranged(list, ValuePairs(list, at))
           IN  IsList(r) /\ Len(r) = Len(list) /\ Range(r) = Range(list)
<1> DEFINE X == Range(list)
           B == ValueOrder(X, at)
           r == Arranged(list, ValuePairs(list, at))
<1>1. /\ StrictWeak(B, X) /\ ValuePairs(list, at) = StablePairs(list, B)
      /\ \A x, y \in X : <<x, y>> \in B <=> ValuesBefore(x, y, at)
  BY OrderOfValue
<1> HIDE DEF B
<1>2. Sorted(r, list, B)
  BY <1>1, SortFacts DEF Valued
<1> QED BY <1>2 DEF Sorted

-----------------------------------------------------------------------------
(* What is collected from one file. *)

LEMMA TypeOfNameFacts ==
    ASSUME NEW spec, spec.values \in Seq(ValueExprs), NEW stated \in TypeExprs, NEW i \in Nat
    PROVE  TypeOfName(spec, stated, i) \in TypeExprs
<1> DEFINE known == {j \in 1..i : /\ j <= Len(spec.values)
                                  /\ spec.names[j] # Blank
                                  /\ spec.values[j].type # Untyped}
<1>1. TypeOfName(spec, stated, i) =
         IF stated # Untyped \/ known = {} THEN stated ELSE spec.values[Min(known)].type
  BY DEF TypeOfName
<1>2. ASSUME known # {} PROVE spec.values[Min(known)].type \in TypeExprs
  <2>1. known \in SUBSET Nat
    OBVIOUS
  <2>2. Min(known) \in known
    <3> HIDE DEF known
    <3> QED BY <1>2, <2>1, MinOfSet
  <2> DEFINE m == Min(known)
  <2> HIDE DEF m
  <2>3. m \in 1 .. Len(spec.values)
    <3>1. m \in 1 .. i /\ m <= Len(spec.values)
      BY <2>2 DEF m
    <3> QED BY <3>1, LenProperties
  <2>4. spec.values[m] \in ValueExprs
    BY <2>3, LenProperties, ElementOfSeq
  <2> QED BY <2>4 DEF m, ValueExprs
<1> HIDE DEF known
<1> QED BY <1>1, <1>2

LEMMA ValueOfNameFacts ==
    ASSUME NEW values \in Seq(ValueExprs), NEW i \in Nat \ {0}
    PROVE  ValueOfName(values, i) \in Seq(Nat)
<1>1. Len(values) \in Nat /\ \A k \in 1 .. Len(values) : values[k] \in ValueExprs
  BY LenProperties, ElementOfSeq
<1>2. \A k \in 1 .. Len(values) : values[k].idents \in Seq(Nat)
  BY <1>1 DEF ValueExprs
<1>3. CASE i <= Len(values)
  BY <1>1, <1>2, <1>3 DEF ValueOfName
<1>4. CASE ~ (i <= Len(values)) /\ Len(values) = 1
  <2>1. 1 \in 1 .. Len(values)
    BY <1>4
  <2>2. ValueOfName(values, i) = values[1].idents
    BY <1>4 DEF ValueOfName
  <2> QED BY <1>2, <2>1, <2>2
<1>5. CASE ~ (i <= Len(values)) /\ Len(values) # 1
  <2>1. ValueOfName(values, i) = <<>>
    BY <1>5 DEF ValueOfName
  <2> QED BY <2>1, EmptySeq
<1> QED BY <1>3, <1>4, <1>5

\* What is kept between the specs of a declaration.
\* Every entry carries the path of the file.
Filed(list, path) == \A e \in Range(list) : e.file = path

Accumulated(acc, path) ==
    /\ acc.lastType \in TypeExprs /\ acc.lastValues \in Seq(ValueExprs)
    /\ Valued(acc.out) /\ Filed(acc.out, path)

LEMMA CollectSpecFacts ==
    ASSUME NEW path \in Nat, NEW tok \in {"const", "var"}, NEW acc, Accumulated(acc, path),
           NEW spec, IsSpec(tok, spec)
    PROVE  Accumulated(CollectSpec(path, tok, acc, spec), path)
<1> DEFINE stated == IF spec.type # Untyped \/ tok = "var" THEN spec.type ELSE acc.lastType
           values == IF spec.values # <<>> \/ tok = "var" THEN spec.values ELSE acc.lastValues
           all == [i \in DOMAIN spec.names |->
                      [name |-> spec.names[i], type |-> TypeOfName(spec, stated, i),
                       value |-> ValueOfName(values, i), kind |-> tok, file |-> path]]
           named == FlattenSeq([i \in DOMAIN all |->
                        IF all[i].name # Blank THEN <<all[i]>> ELSE <<>>])
           S == {v \in Range(all) : v.name # Blank}
<1>1. spec.names \in Seq(Nat) /\ spec.type \in TypeExprs /\ spec.values \in Seq(ValueExprs)
  BY DEF IsSpec
<1>2. stated \in TypeExprs /\ values \in Seq(ValueExprs)
  BY <1>1 DEF Accumulated
<1> HIDE DEF stated, values
<1>3. IsList(spec.names) /\ DOMAIN spec.names = 1 .. Len(spec.names) /\ Len(spec.names) \in Nat
  BY <1>1, ListOver, LenProperties
<1>4. IsList(all) /\ DOMAIN all = 1 .. Len(spec.names)
      /\ Range(all) = {all[i] : i \in 1 .. Len(spec.names)}
  <2>1. all = [i \in DOMAIN spec.names |-> all[i]]
    OBVIOUS
  <2>2. DOMAIN all = DOMAIN spec.names
    OBVIOUS
  <2> HIDE DEF all
  <2> QED BY <1>3, <2>1, <2>2, MapFacts
<1>5. ASSUME NEW i \in 1 .. Len(spec.names) PROVE IsValue(all[i]) /\ all[i].file = path
  <2>1. spec.names[i] \in Nat
    BY <1>1, <1>3, ElementOfSeq
  <2>2. i \in Nat \ {0}
    OBVIOUS
  <2>3. TypeOfName(spec, stated, i) \in TypeExprs
    BY <1>1, <1>2, <2>2, TypeOfNameFacts
  <2>4. ValueOfName(values, i) \in Seq(Nat)
    BY <1>2, <2>2, ValueOfNameFacts
  <2>5. all[i] = [name |-> spec.names[i], type |-> TypeOfName(spec, stated, i),
                  value |-> ValueOfName(values, i), kind |-> tok, file |-> path]
    BY <1>3
  <2> HIDE DEF all
  <2> QED BY <2>1, <2>3, <2>4, <2>5 DEF IsValue, IsNamed
<1>6. CollectSpec(path, tok, acc, spec) =
        [lastType   |-> IF spec.type # Untyped THEN spec.type ELSE acc.lastType,
         lastValues |-> IF spec.values # <<>> THEN spec.values ELSE acc.lastValues,
         out        |-> acc.out \o named]
  BY DEF CollectSpec, Those, stated, values
<1> HIDE DEF all
<1>7. named = Filtered(all, S)
  <2>1. \A i \in DOMAIN all : all[i].name # Blank <=> all[i] \in S
    BY DEF Range
  <2>2. [i \in DOMAIN all |-> IF all[i].name # Blank THEN <<all[i]>> ELSE <<>>]
        = [i \in DOMAIN all |-> IF all[i] \in S THEN <<all[i]>> ELSE <<>>]
    <3> HIDE DEF S
    <3> QED BY <2>1
  <2> QED BY <2>2 DEF Filtered
<1> HIDE DEF named, S
<1>8. IsList(named) /\ Range(named) = Range(all) \cap S
  BY <1>4, <1>7, FilterFacts
<1>9. Valued(named) /\ Filed(named, path)
  BY <1>4, <1>5, <1>8 DEF Valued, Filed
<1>10. Valued(acc.out \o named) /\ Filed(acc.out \o named, path)
  <2>1. Valued(acc.out) /\ Filed(acc.out, path)
    BY DEF Accumulated
  <2>2. /\ IsList(acc.out \o named)
        /\ Range(acc.out \o named) = Range(acc.out) \cup Range(named)
    BY <1>9, <2>1, ConcatList DEF Valued
  <2> QED BY <1>9, <2>1, <2>2 DEF Valued, Filed
<1> QED BY <1>1, <1>6, <1>10 DEF Accumulated

LEMMA CollectValueFacts ==
    ASSUME NEW path \in Nat, NEW decl, IsDecl(decl), decl.tok \in {"const", "var"}
    PROVE  Valued(CollectValueDecl(path, decl)) /\ Filed(CollectValueDecl(path, decl), path)
<1> DEFINE n == Len(decl.specs)
           first == [lastType |-> Untyped, lastValues |-> <<>>, out |-> <<>>]
           next(acc, m) == CollectSpec(path, decl.tok, acc, decl.specs[m])
           Upto(m, g) == g = [k \in 0 .. m |-> IF k = 0 THEN first ELSE next(g[k - 1], k)]
           S == {m \in 0 .. n : \E g : Upto(m, g)}
<1>1. IsList(decl.specs) /\ \A spec \in Range(decl.specs) : IsSpec(decl.tok, spec)
  BY DEF IsDecl
<1>2. n \in Nat /\ \A m \in 1 .. n : IsSpec(decl.tok, decl.specs[m])
  BY <1>1, ListFacts
<1> HIDE DEF n, first, next
<1>3. 0 \in S
  <2>1. Upto(0, [k \in 0 .. 0 |-> first])
    OBVIOUS
  <2>2. 0 \in 0 .. n
    BY <1>2
  <2> HIDE DEF Upto
  <2> QED BY <2>1, <2>2
<1>4. ASSUME NEW m \in 1 .. n, m - 1 \in S PROVE m \in S
  <2>1. PICK g : Upto(m - 1, g)
    BY <1>4
  <2>2. m \in Nat /\ m \in 0 .. n
    BY <1>2
  <2> DEFINE h == [k \in 0 .. m |-> IF k < m THEN g[k] ELSE next(g[k - 1], k)]
  <2>3. ASSUME NEW k \in 0 .. m PROVE h[k] = IF k = 0 THEN first ELSE next(h[k - 1], k)
    <3>1. k # 0 => k - 1 \in 0 .. m /\ k - 1 < m
      BY <2>2
    <3>2. k # 0 => h[k - 1] = g[k - 1]
      BY <3>1
    <3>3. CASE k < m
      <4>1. k \in 0 .. m - 1 /\ h[k] = g[k]
        BY <2>2, <3>3
      <4>2. g[k] = IF k = 0 THEN first ELSE next(g[k - 1], k)
        BY <2>1, <4>1
      <4> HIDE DEF h, Upto
      <4> QED BY <3>2, <4>1, <4>2
    <3>4. CASE ~ (k < m)
      <4>1. h[k] = next(g[k - 1], k) /\ k # 0
        BY <3>4
      <4> HIDE DEF h, Upto
      <4> QED BY <3>2, <4>1
    <3> QED BY <3>3, <3>4
  <2>4. Upto(m, h)
    BY <2>3
  <2> HIDE DEF Upto, h
  <2> QED BY <2>2, <2>4
<1>5. n \in S
  <2>1. n \in 0 .. n
    BY <1>2
  <2> HIDE DEF S
  <2> QED BY <1>2, <1>3, <1>4, <2>1, Induction
<1> DEFINE f == CHOOSE g : g = [k \in 0 .. Len(decl.specs) |-> IF k = 0 THEN [lastType |-> Untyped, lastValues |-> <<>>, out |-> <<>>]
                        ELSE CollectSpec(path, decl.tok, g[k - 1], decl.specs[k])]
<1>6. \E g : g = [k \in 0 .. Len(decl.specs) |-> IF k = 0 THEN [lastType |-> Untyped, lastValues |-> <<>>, out |-> <<>>]
                        ELSE CollectSpec(path, decl.tok, g[k - 1], decl.specs[k])]
  BY <1>5 DEF n, first, next
<1>7. f = [k \in 0 .. Len(decl.specs) |-> IF k = 0 THEN [lastType |-> Untyped, lastValues |-> <<>>, out |-> <<>>]
                        ELSE CollectSpec(path, decl.tok, f[k - 1], decl.specs[k])]
  BY <1>6, Zenon
<1>8. CollectValueDecl(path, decl) = f[Len(decl.specs)].out
  BY Zenon DEF CollectValueDecl
<1> HIDE DEF f
<1>9. \A k \in 0 .. n : f[k] = IF k = 0 THEN first ELSE next(f[k - 1], k)
  BY <1>7 DEF n, first, next
<1> DEFINE T == {m \in 0 .. n : Accumulated(f[m], path)}
<1>10. 0 \in T
  <2>1. 0 \in 0 .. n
    BY <1>2
  <2>2. f[0] = first
    BY <1>9, <2>1
  <2>3. first.lastType = Untyped /\ first.lastValues = <<>> /\ first.out = <<>>
    BY DEF first
  <2>4. Untyped \in TypeExprs
    BY EmptySeq DEF Untyped, TypeExprs
  <2>5. Range(<<>>) = {} /\ IsList(<<>>) /\ <<>> \in Seq(ValueExprs)
    BY EmptySeq DEF Range, IsList
  <2>6. Accumulated(first, path)
    BY <2>3, <2>4, <2>5 DEF Accumulated, Valued, Filed
  <2> QED BY <2>1, <2>2, <2>6
<1>11. ASSUME NEW m \in 1 .. n, m - 1 \in T PROVE m \in T
  <2>1. m \in 0 .. n /\ m # 0
    BY <1>2
  <2>2. f[m] = next(f[m - 1], m)
    BY <1>9, <2>1
  <2>3. Accumulated(f[m - 1], path)
    BY <1>11
  <2>4. Accumulated(next(f[m - 1], m), path)
    BY <1>2, <2>3, CollectSpecFacts DEF next
  <2> QED BY <2>1, <2>2, <2>4
<1>12. Accumulated(f[n], path)
  <2>1. n \in 0 .. n
    BY <1>2
  <2>2. n \in T
    <3> HIDE DEF T
    <3> QED BY <1>2, <1>10, <1>11, <2>1, Induction
  <2> QED BY <2>2
<1> QED BY <1>8, <1>12 DEF Accumulated, n

\* The specs of the declarations of some kinds.
LEMMA SpecsFacts ==
    ASSUME NEW content, IsFile(content)
    PROVE  /\ IsList(Specs(content, {"type"}))
           /\ \A spec \in Range(Specs(content, {"type"})) : spec.name \in Nat
<1> DEFINE n == Len(content.decls)
           ss == [i \in DOMAIN content.decls |->
                     IF content.decls[i].tok \in {"type"} THEN content.decls[i].specs ELSE <<>>]
<1>1. n \in Nat /\ DOMAIN content.decls = 1 .. n
      /\ \A i \in 1 .. n : IsDecl(content.decls[i])
  BY ListFacts DEF IsFile
<1> HIDE DEF n
<1>2. ASSUME NEW i \in 1 .. n
      PROVE  IsList(ss[i]) /\ \A spec \in Range(ss[i]) : spec.name \in Nat
  <2>1. CASE content.decls[i].tok = "type"
    <3>1. ss[i] = content.decls[i].specs
      BY <1>1, <2>1
    <3>2. /\ IsList(content.decls[i].specs)
          /\ \A spec \in Range(content.decls[i].specs) : IsSpec("type", spec)
      BY <1>1, <2>1 DEF IsDecl
    <3> QED BY <3>1, <3>2 DEF IsSpec
  <2>2. CASE content.decls[i].tok # "type"
    <3>1. ss[i] = <<>>
      BY <1>1, <2>2
    <3>2. Range(<<>>) = {} /\ IsList(<<>>)
      BY EmptySeq DEF Range, IsList
    <3> QED BY <3>1, <3>2
  <2> QED BY <2>1, <2>2
<1>3. ss = [i \in 1 .. n |-> ss[i]]
  BY <1>1
<1>4. Specs(content, {"type"}) = FlattenSeq(ss)
  BY DEF Specs
<1> HIDE DEF ss
<1>5. Lists(ss, n)
  BY <1>1, <1>2, <1>3 DEF Lists
<1>6. PICK base : Flat(FlattenSeq(ss), ss, n, base)
  BY <1>5, FlattenFacts
<1>7. IsList(FlattenSeq(ss))
  BY <1>6 DEF Flat
<1>8. Range(FlattenSeq(ss)) = UNION {Range(ss[i]) : i \in 1 .. n}
  BY <1>5, <1>6, FlatRange
<1> QED BY <1>2, <1>4, <1>7, <1>8

LEMMA TypesFacts ==
    ASSUME NEW path \in Nat, NEW content, IsFile(content)
    PROVE  Named(TypesOf(path, content)) /\ Named(InterfacesOf(path, content))
<1> DEFINE specs == Specs(content, {"type"})
           S == {s \in Range(specs) : s.kind # "interface"}
           T == {s \in Range(specs) : s.kind = "interface"}
           f == [i \in DOMAIN Filtered(specs, S) |->
                    [name |-> Filtered(specs, S)[i].name, kind |-> Filtered(specs, S)[i].kind,
                     file |-> path]]
           g == [i \in DOMAIN Filtered(specs, T) |->
                    [name |-> Filtered(specs, T)[i].name, file |-> path]]
<1>1. IsList(specs) /\ \A s \in Range(specs) : s.name \in Nat
  BY SpecsFacts
<1>2. TypesOf(path, content) = f
  <2>1. \A i \in DOMAIN specs : specs[i].kind # "interface" <=> specs[i] \in S
    BY DEF Range
  <2>2. [i \in DOMAIN specs |-> IF specs[i].kind # "interface" THEN <<specs[i]>> ELSE <<>>]
        = [i \in DOMAIN specs |-> IF specs[i] \in S THEN <<specs[i]>> ELSE <<>>]
    <3> HIDE DEF S, specs
    <3> QED BY <2>1
  <2>3. FlattenSeq([i \in DOMAIN specs |->
            IF specs[i].kind # "interface" THEN <<specs[i]>> ELSE <<>>]) = Filtered(specs, S)
    BY <2>2 DEF Filtered
  <2> HIDE DEF S
  <2> QED BY <2>3 DEF TypesOf, Those
<1>3. InterfacesOf(path, content) = g
  <2>1. \A i \in DOMAIN specs : specs[i].kind = "interface" <=> specs[i] \in T
    BY DEF Range
  <2>2. [i \in DOMAIN specs |-> IF specs[i].kind = "interface" THEN <<specs[i]>> ELSE <<>>]
        = [i \in DOMAIN specs |-> IF specs[i] \in T THEN <<specs[i]>> ELSE <<>>]
    <3> HIDE DEF T, specs
    <3> QED BY <2>1
  <2>3. FlattenSeq([i \in DOMAIN specs |->
            IF specs[i].kind = "interface" THEN <<specs[i]>> ELSE <<>>]) = Filtered(specs, T)
    BY <2>2 DEF Filtered
  <2> HIDE DEF T
  <2> QED BY <2>3 DEF InterfacesOf, Those
<1> HIDE DEF specs
<1>4. /\ IsList(Filtered(specs, S)) /\ Range(Filtered(specs, S)) \subseteq Range(specs)
      /\ IsList(Filtered(specs, T)) /\ Range(Filtered(specs, T)) \subseteq Range(specs)
  BY <1>1, FilterFacts
<1>5. Named(f)
  <2> DEFINE list == Filtered(specs, S)
  <2> HIDE DEF S
  <2>1. f = [i \in DOMAIN list |-> f[i]] /\ DOMAIN f = DOMAIN list
    OBVIOUS
  <2>2. \A i \in 1 .. Len(list) : f[i].name = list[i].name /\ f[i].file = path
    BY <1>4, ListFacts
  <2>3. \A i \in 1 .. Len(list) : list[i].name \in Nat
    BY <1>1, <1>4, ListFacts
  <2> HIDE DEF f, list
  <2>4. IsList(f) /\ Range(f) = {f[i] : i \in 1 .. Len(list)}
    BY <1>4, <2>1, MapFacts DEF list
  <2> QED BY <2>2, <2>3, <2>4 DEF Named, IsNamed
<1>6. Named(g)
  <2> DEFINE list == Filtered(specs, T)
  <2> HIDE DEF T
  <2>1. g = [i \in DOMAIN list |-> g[i]] /\ DOMAIN g = DOMAIN list
    OBVIOUS
  <2>2. \A i \in 1 .. Len(list) : g[i].name = list[i].name /\ g[i].file = path
    BY <1>4, ListFacts
  <2>3. \A i \in 1 .. Len(list) : list[i].name \in Nat
    BY <1>1, <1>4, ListFacts
  <2> HIDE DEF g, list
  <2>4. IsList(g) /\ Range(g) = {g[i] : i \in 1 .. Len(list)}
    BY <1>4, <2>1, MapFacts DEF list
  <2> QED BY <2>2, <2>3, <2>4 DEF Named, IsNamed
<1> QED BY <1>2, <1>3, <1>5, <1>6

\* The functions of a file.
FunctionsOf(path, content) ==
    LET functions == Filtered(content.decls, {d \in Range(content.decls) : d.tok = "func"})
    IN [i \in DOMAIN functions |-> FunctionFromDecl(path, functions[i])]

LEMMA FunctionsFacts ==
    ASSUME NEW path \in Nat, NEW content, IsFile(content)
    PROVE  /\ CollectFile(path, content).functions = FunctionsOf(path, content)
           /\ Functional(FunctionsOf(path, content))
<1> DEFINE decls == content.decls
           S == {d \in Range(decls) : d.tok = "func"}
           list == Filtered(decls, S)
           f == [i \in DOMAIN list |-> FunctionFromDecl(path, list[i])]
<1>1. IsList(decls) /\ \A d \in Range(decls) : IsDecl(d)
  BY DEF IsFile
<1>2. CollectFile(path, content).functions = f
  <2>1. \A i \in DOMAIN decls : decls[i].tok = "func" <=> decls[i] \in S
    BY DEF Range
  <2>2. [i \in DOMAIN decls |-> IF decls[i].tok = "func" THEN <<decls[i]>> ELSE <<>>]
        = [i \in DOMAIN decls |-> IF decls[i] \in S THEN <<decls[i]>> ELSE <<>>]
    <3> HIDE DEF S, decls
    <3> QED BY <2>1
  <2>3. FlattenSeq([i \in DOMAIN decls |->
            IF decls[i].tok = "func" THEN <<decls[i]>> ELSE <<>>]) = list
    BY <2>2 DEF Filtered
  <2> HIDE DEF S, list
  <2>4. CollectFile(path, content).functions =
           [i \in DOMAIN FlattenSeq([i \in DOMAIN decls |->
                IF decls[i].tok = "func" THEN <<decls[i]>> ELSE <<>>]) |->
            FunctionFromDecl(path, FlattenSeq([k \in DOMAIN decls |->
                IF decls[k].tok = "func" THEN <<decls[k]>> ELSE <<>>])[i])]
    BY DEF CollectFile, Those
  <2> QED BY <2>3, <2>4
<1> HIDE DEF decls
<1>3. IsList(list) /\ Range(list) = Range(decls) \cap S
  BY <1>1, FilterFacts
<1>4. ASSUME NEW i \in 1 .. Len(list) PROVE IsFunc(f[i])
  <2>1. i \in DOMAIN list /\ list[i] \in S
    BY <1>3, ListFacts
  <2>2. IsDecl(list[i]) /\ list[i].tok = "func"
    BY <1>1, <2>1
  <2>3. f[i] = FunctionFromDecl(path, list[i])
    BY <2>1
  <2> HIDE DEF f, list
  <2> QED BY <2>2, <2>3 DEF IsFunc, IsNamed, IsDecl, FunctionFromDecl
<1>5. f = [i \in DOMAIN list |-> f[i]] /\ DOMAIN f = DOMAIN list
  OBVIOUS
<1> HIDE DEF f, list
<1>6. IsList(f) /\ Range(f) = {f[i] : i \in 1 .. Len(list)}
  BY <1>3, <1>5, MapFacts
<1>7. Functional(f)
  BY <1>4, <1>6 DEF Functional
<1> QED BY <1>2, <1>7 DEF FunctionsOf, f, list, decls

LEMMA ImportsFacts ==
    ASSUME NEW path \in Nat, NEW content, IsFile(content)
    PROVE  LET imports == CollectFile(path, content).imports
           IN  /\ Imported(imports) /\ Filed(imports, path) /\ Len(imports) = Len(content.imports)
               /\ \A imp \in Range(content.imports) : [path |-> imp, file |-> path] \in Range(imports)
<1> DEFINE list == content.imports
           f == [i \in DOMAIN list |-> [path |-> list[i], file |-> path]]
<1>1. CollectFile(path, content).imports = f
  BY DEF CollectFile
<1>2. list \in Seq(Nat) /\ IsList(list)
  BY ListOver DEF IsFile
<1>3. \A i \in 1 .. Len(list) : i \in DOMAIN list /\ list[i] \in Nat
  BY <1>2, ListFacts, ElementOfSeq
<1> HIDE DEF list
<1>4. \A i \in 1 .. Len(list) : f[i] = [path |-> list[i], file |-> path]
  BY <1>3
<1>5. f = [i \in DOMAIN list |-> f[i]] /\ DOMAIN f = DOMAIN list
  OBVIOUS
<1> HIDE DEF f
<1>6. IsList(f) /\ Len(f) = Len(list) /\ Range(f) = {f[i] : i \in 1 .. Len(list)}
  BY <1>2, <1>5, MapFacts
<1>7. Imported(f) /\ Filed(f, path)
  <2>1. ASSUME NEW e \in Range(f) PROVE IsImport(e) /\ e.file = path
    <3>1. PICK i \in 1 .. Len(list) : e = [path |-> list[i], file |-> path]
      BY <1>4, <1>6
    <3> QED BY <1>3, <3>1 DEF IsImport
  <2> QED BY <1>6, <2>1 DEF Imported, Filed
<1>8. ASSUME NEW imp \in Range(list) PROVE [path |-> imp, file |-> path] \in Range(f)
  <2>1. PICK i \in 1 .. Len(list) : imp = list[i]
    BY <1>2, ListFacts
  <2> QED BY <1>4, <1>6, <2>1
<1> QED BY <1>1, <1>6, <1>7, <1>8 DEF list

LEMMA ValuesFacts ==
    ASSUME NEW path \in Nat, NEW content, IsFile(content)
    PROVE  Valued(CollectFile(path, content).values) /\ Filed(CollectFile(path, content).values, path)
<1> DEFINE decls == content.decls
           S == {d \in Range(decls) : d.tok \in {"const", "var"}}
           list == Filtered(decls, S)
           ss == [i \in DOMAIN list |-> CollectValueDecl(path, list[i])]
           n == Len(list)
<1>1. IsList(decls) /\ \A d \in Range(decls) : IsDecl(d)
  BY DEF IsFile
<1>2. CollectFile(path, content).values = FlattenSeq(ss)
  <2>1. \A i \in DOMAIN decls : decls[i].tok \in {"const", "var"} <=> decls[i] \in S
    BY DEF Range
  <2>2. [i \in DOMAIN decls |-> IF decls[i].tok \in {"const", "var"} THEN <<decls[i]>> ELSE <<>>]
        = [i \in DOMAIN decls |-> IF decls[i] \in S THEN <<decls[i]>> ELSE <<>>]
    <3> HIDE DEF S, decls
    <3> QED BY <2>1
  <2>3. FlattenSeq([i \in DOMAIN decls |->
            IF decls[i].tok \in {"const", "var"} THEN <<decls[i]>> ELSE <<>>]) = list
    BY <2>2 DEF Filtered
  <2> HIDE DEF S, list
  <2>4. CollectFile(path, content).values =
           FlattenSeq([i \in DOMAIN FlattenSeq([i \in DOMAIN decls |->
                IF decls[i].tok \in {"const", "var"} THEN <<decls[i]>> ELSE <<>>]) |->
            CollectValueDecl(path, FlattenSeq([k \in DOMAIN decls |->
                IF decls[k].tok \in {"const", "var"} THEN <<decls[k]>> ELSE <<>>])[i])])
    BY DEF CollectFile, Those
  <2> QED BY <2>3, <2>4
<1> HIDE DEF decls
<1>3. IsList(list) /\ Range(list) = Range(decls) \cap S
  BY <1>1, FilterFacts
<1>4. n \in Nat /\ DOMAIN list = 1 .. n
  BY <1>3, ListFacts
<1>5. ASSUME NEW i \in 1 .. n PROVE Valued(ss[i]) /\ Filed(ss[i], path)
  <2>1. i \in DOMAIN list /\ list[i] \in S
    BY <1>3, ListFacts
  <2>2. IsDecl(list[i]) /\ list[i].tok \in {"const", "var"}
    BY <1>1, <2>1
  <2>3. ss[i] = CollectValueDecl(path, list[i])
    BY <2>1
  <2> HIDE DEF ss, list
  <2> QED BY <2>2, <2>3, CollectValueFacts
<1>6. ss = [i \in 1 .. n |-> ss[i]]
  BY <1>4
<1> HIDE DEF ss, n
<1>7. Lists(ss, n)
  BY <1>4, <1>5, <1>6 DEF Lists, Valued
<1>8. PICK base : Flat(FlattenSeq(ss), ss, n, base)
  BY <1>7, FlattenFacts
<1>9. IsList(FlattenSeq(ss))
  BY <1>8 DEF Flat
<1>10. Range(FlattenSeq(ss)) = UNION {Range(ss[i]) : i \in 1 .. n}
  BY <1>7, <1>8, FlatRange
<1>11. Valued(FlattenSeq(ss)) /\ Filed(FlattenSeq(ss), path)
  <2>1. \A e \in Range(FlattenSeq(ss)) : \E i \in 1 .. n : e \in Range(ss[i])
    BY <1>10
  <2> QED BY <1>5, <1>9, <2>1 DEF Valued, Filed
<1> QED BY <1>2, <1>11

Fields == {"functions", "imports", "types", "values", "interfaces"}

LEMMA FileFacts ==
    ASSUME NEW path \in Nat, NEW content, IsFile(content)
    PROVE  LET c == CollectFile(path, content)
           IN  /\ Imported(c.imports) /\ Functional(c.functions) /\ Valued(c.values)
               /\ Named(c.types) /\ Named(c.interfaces)
               /\ Filed(c.imports, path) /\ Filed(c.values, path)
               /\ \A field \in Fields : IsList(c[field])
<1> DEFINE c == CollectFile(path, content)
<1>1. c.types = TypesOf(path, content) /\ c.interfaces = InterfacesOf(path, content)
  BY DEF CollectFile
<1> HIDE DEF c
<1>2. Imported(c.imports) /\ Filed(c.imports, path)
  BY ImportsFacts DEF c
<1>3. Functional(c.functions)
  BY FunctionsFacts DEF c
<1>4. Valued(c.values) /\ Filed(c.values, path)
  BY ValuesFacts DEF c
<1>5. Named(c.types) /\ Named(c.interfaces)
  BY <1>1, TypesFacts
<1> QED BY <1>2, <1>3, <1>4, <1>5 DEF Imported, Functional, Valued, Named, Fields, c

-----------------------------------------------------------------------------
(* The answer. *)

\* A text with code at both ends is not trimmed.
LEMMA TrimKeeps ==
    ASSUME NEW X, NEW text \in Seq(X), text # <<>>, NEW cut,
           text[1] \notin cut, text[Len(text)] \notin cut
    PROVE  Trim(text, cut) = text
<1> DEFINE left == {i \in DOMAIN text : text[i] \notin cut}
           n == Len(text)
<1>1. n \in Nat \ {0} /\ DOMAIN text = 1 .. n
  BY LenProperties, EmptySeq
<1>2. 1 \in left /\ n \in left /\ left \in SUBSET Int /\ left # {}
  BY <1>1
<1>3. Min(left) = 1
  <2> DEFINE one == 1
  <2>1. one \in left /\ \A i \in left : one <= i
    BY <1>1, <1>2
  <2> HIDE DEF one, left
  <2>2. Min(left) = one
    BY <1>2, <2>1, MinIs
  <2> QED BY <2>2 DEF one
<1>4. Max(left) = n
  <2>1. \A i \in left : n >= i
    BY <1>1
  <2> HIDE DEF n, left
  <2> QED BY <1>2, <2>1, MaxIs
<1>5. Trim(text, cut) = SubSeq(text, 1, n)
  <2>1. Trim(text, cut) = IF left = {} THEN <<>> ELSE SubSeq(text, Min(left), Max(left))
    BY DEF Trim
  <2> HIDE DEF left
  <2> QED BY <1>2, <1>3, <1>4, <2>1
<1> QED BY <1>5, SubSeqFull

\* Nothing is left of a text that the suffix begins with.
LEMMA OverlapOfAll ==
    ASSUME NEW X, NEW suffix \in Seq(X), NEW n \in 0 .. Len(suffix)
    PROVE  RemoveSuffixOverlap(SubSeq(suffix, 1, n), suffix) = <<>>
<1> DEFINE text == SubSeq(suffix, 1, n)
           overlaps == {k \in 0 .. Min({Len(text), Len(suffix)}) :
                           From(text, Len(text) - k) = SubSeq(suffix, 1, k)}
<1>1. Len(suffix) \in Nat /\ n \in Nat
  BY LenProperties
<1>2. text \in Seq(X) /\ Len(text) = n
  <2> DEFINE one == 1
  <2>1. one \in Nat \ {0} /\ n <= Len(suffix)
    BY <1>1
  <2> HIDE DEF one
  <2>2. /\ SubSeq(suffix, one, n) \in Seq(X)
        /\ Len(SubSeq(suffix, one, n)) = IF one <= n THEN n - one + 1 ELSE 0
    BY <1>1, <2>1, Part
  <2> QED BY <1>1, <2>2 DEF one
<1>3. Min({Len(text), Len(suffix)}) = n
  <2> HIDE DEF text
  <2> QED BY <1>1, <1>2, MinOfTwo
<1>4. n \in overlaps
  <2>1. From(text, Len(text) - n) = SubSeq(text, 1, Len(text))
    BY <1>1, <1>2 DEF From
  <2>2. From(text, Len(text) - n) = text
    BY <1>2, <2>1, SubSeqFull
  <2> HIDE DEF text
  <2>3. n \in 0 .. Min({Len(text), Len(suffix)})
    BY <1>1, <1>3
  <2> QED BY <2>2, <2>3 DEF text
<1>5. \A k \in overlaps : n >= k
  <2> HIDE DEF text
  <2> QED BY <1>1, <1>3
<1>6. Max(overlaps) = n
  <2>1. overlaps \in SUBSET Int
    OBVIOUS
  <2> HIDE DEF overlaps
  <2> QED BY <1>4, <1>5, <2>1, MaxIs
<1>7. RemoveSuffixOverlap(text, suffix) = SubSeq(text, 1, Len(text) - Max(overlaps))
  BY DEF RemoveSuffixOverlap
<1> HIDE DEF text, overlaps
<1>8. RemoveSuffixOverlap(text, suffix) = SubSeq(text, 1, 0)
  BY <1>1, <1>2, <1>6, <1>7
<1>9. SubSeq(text, 1, 0) = <<>>
  BY SubSeqEmpty
<1> QED BY <1>8, <1>9 DEF text

LEMMA TrimEmpty ==
    ASSUME NEW cut
    PROVE  Trim(<<>>, cut) = <<>>
BY DEF Trim

\* The empty answer stays empty.
LEMMA OverlapOfNothing ==
    ASSUME NEW X, NEW suffix \in Seq(X)
    PROVE  RemoveSuffixOverlap(<<>>, suffix) = <<>>
<1> DEFINE none == 0
<1>1. none \in 0 .. Len(suffix)
  BY LenProperties
<1>2. SubSeq(suffix, 1, none) = <<>>
  BY SubSeqEmpty
<1> HIDE DEF none
<1>3. RemoveSuffixOverlap(SubSeq(suffix, 1, none), suffix) = <<>>
  BY <1>1, OverlapOfAll
<1> QED BY <1>2, <1>3

\* What begins the suffix, is code at both ends and no fence, comes to nothing.
LEMMA EchoIsEmpty ==
    ASSUME NEW X, NEW suffix \in Seq(X), NEW n \in 1 .. Len(suffix),
           {SubSeq(suffix, 1, n)[1], SubSeq(suffix, 1, n)[n]} \cap (Blanks \cup {Tick}) = {},
           ~ IsPrefix(Fence, SubSeq(suffix, 1, n))
    PROVE  Items(SubSeq(suffix, 1, n), suffix) = <<>>
<1> DEFINE echo == SubSeq(suffix, 1, n)
<1>1. Len(suffix) \in Nat /\ n \in Nat /\ n \in 0 .. Len(suffix)
  BY LenProperties
<1>2. echo \in Seq(X) /\ Len(echo) = n /\ echo # <<>>
  <2> DEFINE one == 1
  <2>1. one \in Nat \ {0} /\ n <= Len(suffix)
    BY <1>1
  <2> HIDE DEF one
  <2>2. /\ SubSeq(suffix, one, n) \in Seq(X)
        /\ Len(SubSeq(suffix, one, n)) = IF one <= n THEN n - one + 1 ELSE 0
    BY <1>1, <2>1, Part
  <2>3. echo \in Seq(X) /\ Len(echo) = n
    BY <1>1, <2>2 DEF one
  <2> HIDE DEF echo
  <2> QED BY <1>1, <2>3, EmptySeq
<1>3. /\ {echo[1], echo[n]} \cap (Blanks \cup {Tick}) = {}
      /\ ~ IsPrefix(Fence, echo)
  OBVIOUS
<1>4. RemoveSuffixOverlap(echo, suffix) = <<>>
  BY <1>1, OverlapOfAll
<1> HIDE DEF echo
<1>5. Trim(echo, Blanks \cup {Tick}) = echo /\ Trim(echo, Blanks) = echo
  BY <1>2, <1>3, TrimKeeps
<1>6. SanitizeCompletion(echo) \in {<<>>, echo}
  BY <1>3, <1>5 DEF SanitizeCompletion
<1>7. RemoveSuffixOverlap(SanitizeCompletion(echo), suffix) = <<>>
  BY <1>4, <1>6, OverlapOfNothing
<1>8. PostProcessCompletion(echo, suffix) = <<>>
  BY <1>7, TrimEmpty DEF PostProcessCompletion
<1> QED BY <1>8 DEF Items, echo

-----------------------------------------------------------------------------
(* The prefix. *)

\* skipSpace stops at the first token that is not blank.
LEMMA SkipSpaceFacts ==
    ASSUME NEW X, NEW text \in Seq(X), NEW pos \in 0 .. Len(text)
    PROVE  LET r == SkipSpace(text, pos)
           IN  /\ r \in Nat /\ pos <= r /\ r <= Len(text)
               /\ r = Len(text) \/ text[r + 1] \notin Blanks
               /\ \A k \in pos + 1 .. r : text[k] \in Blanks
<1> DEFINE S == {i \in pos .. Len(text) : i = Len(text) \/ text[i + 1] \notin Blanks}
           r == Min(S)
<1>1. Len(text) \in Nat /\ pos \in Nat
  BY LenProperties
<1>2. S \in SUBSET Nat /\ Len(text) \in S
  BY <1>1
<1>3. r \in S /\ \A y \in S : r <= y
  <2> HIDE DEF S
  <2> QED BY <1>2, MinOfSet
<1>4. SkipSpace(text, pos) = r
  BY DEF SkipSpace
<1> HIDE DEF r
<1>5. r \in Nat /\ pos <= r /\ r <= Len(text) /\ (r = Len(text) \/ text[r + 1] \notin Blanks)
  BY <1>1, <1>3
<1>6. ASSUME NEW k \in pos + 1 .. r PROVE text[k] \in Blanks
  <2>1. k - 1 \in pos .. Len(text) /\ ~ (r <= k - 1) /\ (k - 1) + 1 = k
    BY <1>1, <1>5
  <2>2. k - 1 \notin S
    BY <1>3, <2>1
  <2> QED BY <2>1, <2>2
<1> QED BY <1>4, <1>5, <1>6

\* Through passes no further than the first token it looks for, and stops there.
LEMMA ThroughFacts ==
    ASSUME NEW X, NEW text \in Seq(X), NEW pos \in 0 .. Len(text), NEW t
    PROVE  LET r == Through(text, pos, t)
           IN  /\ r \in Nat /\ pos <= r /\ r <= Len(text)
               /\ r = Len(text) \/ (pos + 1 <= r /\ text[r] = t)
               /\ \A k \in pos + 1 .. Len(text) : text[k] = t => r <= k
<1> DEFINE S == {i \in pos + 1 .. Len(text) : text[i] = t} \cup {Len(text)}
           r == Min(S)
<1>1. Len(text) \in Nat /\ pos \in Nat
  BY LenProperties
<1>2. S \in SUBSET Nat /\ Len(text) \in S
  BY <1>1
<1>3. r \in S /\ \A y \in S : r <= y
  <2> HIDE DEF S
  <2> QED BY <1>2, MinOfSet
<1>4. Through(text, pos, t) = r
  BY DEF Through
<1> HIDE DEF r
<1>5. /\ r \in Nat /\ pos <= r /\ r <= Len(text)
      /\ r = Len(text) \/ (pos + 1 <= r /\ text[r] = t)
  BY <1>1, <1>3
<1> QED BY <1>3, <1>4, <1>5

\* w is what stands in a source from an offset on.
StandsAt(w, content, start) ==
    /\ content.text \in Seq(Int) /\ HeaderIsWhole(content)
    /\ start \in Nat /\ w \in Seq(Int)
    /\ start + Len(w) <= Len(content.text)
    /\ \A k \in 1 .. Len(w) : w[k] = content.text[start + k]

LEMMA StandsFacts ==
    ASSUME NEW content, NEW start, NEW w, StandsAt(w, content, start)
    PROVE  /\ start \in Nat /\ w \in Seq(Int) /\ Len(w) \in Nat
           /\ Len(content.text) \in Nat /\ content.header \in Nat
           /\ \A i \in DOMAIN content.text :
                 i = content.header + 1 => content.text[i] \notin Blanks \cup {Import}
           /\ DOMAIN content.text = 1 .. Len(content.text)
           /\ start + Len(w) <= Len(content.text)
           /\ content.header <= Len(content.text)
           /\ \A k \in 1 .. Len(w) : w[k] = content.text[start + k]
           /\ \A k \in 1 .. Len(w) : start + k \in DOMAIN content.text
<1>1. /\ content.text \in Seq(Int) /\ start \in Nat /\ w \in Seq(Int)
      /\ start + Len(w) <= Len(content.text)
      /\ \A k \in 1 .. Len(w) : w[k] = content.text[start + k]
      /\ content.header \in 0 .. Len(content.text)
      /\ \A i \in DOMAIN content.text :
            i = content.header + 1 => content.text[i] \notin Blanks \cup {Import}
  BY DEF StandsAt, HeaderIsWhole
<1>2. /\ Len(w) \in Nat /\ Len(content.text) \in Nat
      /\ DOMAIN content.text = 1 .. Len(content.text)
  BY <1>1, LenProperties
<1> QED BY SMTT(30), <1>1, <1>2

\* From within the header, blanks end within it.
LEMMA SkipInHeader ==
    ASSUME NEW content, NEW start, NEW w, StandsAt(w, content, start),
           NEW pos \in 0 .. Len(w), start + pos <= content.header
    PROVE  start + SkipSpace(w, pos) <= content.header
<1> DEFINE r == SkipSpace(w, pos)
           text == content.text
           h == content.header
<1>1. /\ start \in Nat /\ w \in Seq(Int) /\ Len(w) \in Nat
      /\ Len(text) \in Nat /\ h \in Nat /\ DOMAIN text = 1 .. Len(text)
      /\ start + Len(w) <= Len(text)
      /\ \A k \in 1 .. Len(w) : w[k] = text[start + k]
  BY StandsFacts
<1>2. /\ r \in Nat /\ pos <= r /\ r <= Len(w)
      /\ \A k \in pos + 1 .. r : w[k] \in Blanks
  BY <1>1, SkipSpaceFacts
<1>3. \A i \in DOMAIN text : i = h + 1 => text[i] \notin Blanks
  BY StandsFacts
<1> HIDE DEF r, text, h
<1> SUFFICES ASSUME ~ (start + r <= h) PROVE FALSE
  BY DEF r, h
<1>4. pos \in Nat /\ start + pos <= h
  BY DEF h
<1> DEFINE k == h + 1 - start
<1>5. k \in pos + 1 .. r /\ k \in 1 .. Len(w) /\ start + k = h + 1 /\ h + 1 \in 1 .. Len(text)
  BY <1>1, <1>2, <1>4
<1> HIDE DEF k
<1>6. w[k] \in Blanks /\ w[k] = text[h + 1]
  BY <1>1, <1>2, <1>5
<1> QED BY <1>1, <1>3, <1>5, <1>6

\* What closes within the header is passed within it.
LEMMA ThroughInHeader ==
    ASSUME NEW content, NEW start, NEW w, StandsAt(w, content, start),
           NEW pos \in 0 .. Len(w), NEW t,
           \/ content.header = Len(content.text)
           \/ \E j \in start + pos + 1 .. content.header : content.text[j] = t
    PROVE  start + Through(w, pos, t) <= content.header
<1> DEFINE r == Through(w, pos, t)
           text == content.text
           h == content.header
<1>1. /\ start \in Nat /\ w \in Seq(Int) /\ Len(w) \in Nat
      /\ Len(text) \in Nat /\ h \in Nat
      /\ start + Len(w) <= Len(text)
      /\ \A k \in 1 .. Len(w) : w[k] = text[start + k]
  BY StandsFacts
<1>2. /\ r \in Nat /\ pos <= r /\ r <= Len(w)
      /\ \A k \in pos + 1 .. Len(w) : w[k] = t => r <= k
  BY <1>1, ThroughFacts
<1>3. h = Len(text) \/ \E j \in start + pos + 1 .. h : text[j] = t
  OBVIOUS
<1> HIDE DEF r, text, h
<1>4. CASE h = Len(text)
  BY <1>1, <1>2, <1>4 DEF r, h
<1>5. ASSUME NEW j \in start + pos + 1 .. h, text[j] = t PROVE start + r <= h
  <2>1. pos \in Nat /\ j \in Nat
    BY <1>1
  <2>2. CASE j <= start + Len(w)
    <3> DEFINE k == j - start
    <3>1. k \in pos + 1 .. Len(w) /\ k \in 1 .. Len(w) /\ start + k = j
      BY <1>1, <2>1, <2>2
    <3> HIDE DEF k
    <3>2. w[k] = t
      BY <1>1, <1>5, <3>1
    <3>3. r <= k /\ k \in Nat
      BY <1>2, <3>1, <3>2
    <3> QED BY <1>1, <1>2, <3>1, <3>3
  <2>3. CASE ~ (j <= start + Len(w))
    BY <1>1, <1>2, <2>1, <2>3
  <2> QED BY <2>2, <2>3
<1> QED BY <1>3, <1>4, <1>5 DEF r, h

\* j is the first token behind i that is not blank.
Begins(text, i, j) ==
    /\ i < j /\ text[j] \notin Blanks
    /\ \A k \in i + 1 .. j - 1 : text[k] \in Blanks

\* Token t follows i within the header, if anything follows the header.
Closes(content, i, t) ==
    \/ content.header = Len(content.text)
    \/ \E j \in i + 1 .. content.header : content.text[j] = t

\* n ends the line of the clause.
EndsClause(content, n) ==
    /\ n \in (content.clause + 1) + 1 .. content.header /\ content.text[n] = Newline
    /\ \A k \in content.clause + 1 .. n - 1 : content.text[k] # Newline

\* What the header says of the clause and of the import that comes first behind it.
LEMMA HeaderFacts ==
    ASSUME NEW content, HeaderIsWhole(content), content.clause \in Nat
    PROVE  LET text == content.text
           IN  /\ content.clause + 1 \in 1 .. content.header
               /\ text[content.clause + 1] = Package
               /\ Closes(content, content.clause + 1, Newline)
               /\ \A n, i, j : /\ EndsClause(content, n) /\ i \in DOMAIN text /\ j \in DOMAIN text
                               /\ text[i] = Import /\ Begins(text, n, i) /\ Begins(text, i, j)
                               => Closes(content, j, IF text[j] = LParen THEN RParen ELSE Newline)
<1> DEFINE text   == content.text
           header == content.header
           clause == content.clause + 1
<1>1. /\ clause \in 1 .. header /\ text[clause] = Package
      /\ header = Len(text) \/ \E j \in clause + 1 .. header : text[j] = Newline
      /\ \A n \in clause + 1 .. header : \A i, j \in DOMAIN text :
           /\ text[n] = Newline /\ \A k \in clause .. n - 1 : text[k] # Newline
           /\ text[i] = Import
           /\ n < i /\ text[i] \notin Blanks /\ \A k \in n + 1 .. i - 1 : text[k] \in Blanks
           /\ i < j /\ text[j] \notin Blanks /\ \A k \in i + 1 .. j - 1 : text[k] \in Blanks
           => \/ header = Len(text)
              \/ \E k \in j + 1 .. header : text[k] = IF text[j] = LParen THEN RParen ELSE Newline
  BY DEF HeaderIsWhole
<1>2. ASSUME NEW n, NEW i, NEW j,
             EndsClause(content, n), i \in DOMAIN text, j \in DOMAIN text,
             text[i] = Import, Begins(text, n, i), Begins(text, i, j)
      PROVE  Closes(content, j, IF text[j] = LParen THEN RParen ELSE Newline)
  <2>1. /\ n \in clause + 1 .. header /\ text[n] = Newline
        /\ \A k \in clause .. n - 1 : text[k] # Newline
    BY <1>2 DEF EndsClause
  <2>2. /\ n < i /\ text[i] \notin Blanks /\ \A k \in n + 1 .. i - 1 : text[k] \in Blanks
        /\ i < j /\ text[j] \notin Blanks /\ \A k \in i + 1 .. j - 1 : text[k] \in Blanks
    BY <1>2 DEF Begins
  <2> HIDE DEF text, header, clause
  <2>3. \/ header = Len(text)
        \/ \E k \in j + 1 .. header : text[k] = IF text[j] = LParen THEN RParen ELSE Newline
    BY <1>1, <1>2, <2>1, <2>2
  <2> QED BY <2>3 DEF Closes, header, text
<1>3. Closes(content, clause, Newline)
  BY <1>1 DEF Closes
<1> QED BY <1>1, <1>2, <1>3

\* Where an import ends.
ImportEnd(w, at) ==
    LET spec == SkipSpace(w, at + 1)
    IN IF spec < Len(w) /\ w[spec + 1] = LParen
       THEN Through(w, spec, RParen) ELSE Through(w, spec, Newline)

LEMMA ImportEndsWithin ==
    ASSUME NEW w \in Seq(Int), NEW at \in 0 .. Len(w), at < Len(w)
    PROVE  ImportEnd(w, at) \in 0 .. Len(w)
<1> DEFINE spec == SkipSpace(w, at + 1)
<1>1. Len(w) \in Nat
  BY LenProperties
<1>2. at + 1 \in 0 .. Len(w)
  BY <1>1
<1>3. spec \in 0 .. Len(w)
  BY <1>1, <1>2, SkipSpaceFacts
<1> HIDE DEF spec
<1>4. Through(w, spec, RParen) \in 0 .. Len(w) /\ Through(w, spec, Newline) \in 0 .. Len(w)
  BY <1>1, <1>3, ThroughFacts
<1> QED BY <1>4 DEF ImportEnd, spec

\* An import of the header, from its word on, is passed within the header.
LEMMA ImportInHeader ==
    ASSUME NEW content, NEW start, NEW w, StandsAt(w, content, start),
           NEW at \in 0 .. Len(w), at < Len(w), start + at + 1 <= content.header,
           \A j \in DOMAIN content.text :
              Begins(content.text, start + at + 1, j) =>
                 Closes(content, j, IF content.text[j] = LParen THEN RParen ELSE Newline)
    PROVE  start + ImportEnd(w, at) <= content.header
<1> DEFINE spec == SkipSpace(w, at + 1)
           t == IF spec < Len(w) /\ w[spec + 1] = LParen THEN RParen ELSE Newline
           text == content.text
           h == content.header
           i == start + at + 1
           j == start + spec + 1
<1>1. /\ start \in Nat /\ w \in Seq(Int) /\ Len(w) \in Nat
      /\ Len(text) \in Nat /\ h \in Nat /\ DOMAIN text = 1 .. Len(text)
      /\ start + Len(w) <= Len(text)
      /\ \A k \in 1 .. Len(w) : w[k] = text[start + k]
      /\ \A k \in 1 .. Len(w) : start + k \in DOMAIN text
  BY StandsFacts
<1>2. at + 1 \in 1 .. Len(w) /\ at + 1 \in 0 .. Len(w) /\ start + (at + 1) = i
  BY <1>1
<1>3. /\ spec \in Nat /\ at + 1 <= spec /\ spec <= Len(w)
      /\ spec = Len(w) \/ w[spec + 1] \notin Blanks
      /\ \A k \in (at + 1) + 1 .. spec : w[k] \in Blanks
  BY <1>1, <1>2, SkipSpaceFacts
<1>4. i <= h
  OBVIOUS
<1>5. start + spec <= h
  BY <1>2, <1>4, SkipInHeader
<1>6. spec \in 0 .. Len(w)
  BY <1>1, <1>3
<1>7. Through(w, spec, t) \in 0 .. Len(w)
  BY <1>1, <1>6, ThroughFacts
<1>8. start + Through(w, spec, t) <= h
  <2>1. CASE spec = Len(w)
    <3>1. spec <= Through(w, spec, t)
      BY <1>1, <1>6, ThroughFacts
    <3>2. Through(w, spec, t) = spec
      BY <1>1, <1>7, <2>1, <3>1
    <3> QED BY <1>5, <3>2
  <2>2. CASE spec # Len(w)
    <3>1. spec + 1 \in 1 .. Len(w) /\ start + (spec + 1) = j /\ j = start + spec + 1 /\ spec < Len(w)
      BY SMTT(30), <1>1, <1>3, <2>2
    <3>2. w[spec + 1] = text[j] /\ j \in DOMAIN text /\ text[j] \notin Blanks
      BY <1>1, <1>3, <2>2, <3>1
    <3>3. i < j
      BY <1>1, <1>2, <1>3
    <3>4. ASSUME NEW k \in i + 1 .. j - 1 PROVE text[k] \in Blanks
      <4>1. k - start \in (at + 1) + 1 .. spec
        BY <1>1, <1>2, <1>3
      <4>2. k - start \in 1 .. Len(w) /\ start + (k - start) = k
        BY <1>1, <1>2, <1>3
      <4> QED BY <1>1, <1>3, <4>1, <4>2
    <3>5. t = IF text[j] = LParen THEN RParen ELSE Newline
      BY <3>1, <3>2
    <3>6. Begins(text, i, j)
      <4> HIDE DEF i, j, text
      <4> QED BY <3>2, <3>3, <3>4 DEF Begins
    <3>7. Closes(content, j, t)
      <4>1. Closes(content, j, IF text[j] = LParen THEN RParen ELSE Newline)
        <5> HIDE DEF j
        <5> QED BY <3>2, <3>6
      <4> HIDE DEF t, j, text
      <4> QED BY <3>5, <4>1
    <3>8. \/ content.header = Len(content.text)
          \/ \E k \in start + spec + 1 .. content.header : content.text[k] = t
      <4>1. CASE \E k \in j + 1 .. content.header : content.text[k] = t
        <5>1. PICK k \in j + 1 .. content.header : content.text[k] = t
          BY <4>1
        <5>2. k \in start + spec + 1 .. h
          BY <1>1, <1>3
        <5> QED BY <5>1, <5>2
      <4> HIDE DEF t, j
      <4> QED BY <3>7, <4>1 DEF Closes
    <3> HIDE DEF t, spec
    <3> QED BY <1>6, <3>8, ThroughInHeader
  <2> QED BY <2>1, <2>2
<1>9. ImportEnd(w, at) = Through(w, spec, t)
  <2>1. CASE spec < Len(w) /\ w[spec + 1] = LParen
    BY <2>1 DEF ImportEnd
  <2>2. CASE ~ (spec < Len(w) /\ w[spec + 1] = LParen)
    BY <2>2 DEF ImportEnd
  <2> QED BY <2>1, <2>2
<1> HIDE DEF t, spec
<1> QED BY <1>8, <1>9

\* Where a window begins with the file's clause, the line of the clause and
\* what is blank behind it are passed within the header.
LEMMA ClauseInHeader ==
    ASSUME NEW content, NEW start, NEW w, StandsAt(w, content, start),
           NEW first \in 0 .. Len(w), first < Len(w), start + first = content.clause
    PROVE  /\ start + Through(w, first, Newline) <= content.header
           /\ start + SkipSpace(w, Through(w, first, Newline)) <= content.header
<1> DEFINE line == Through(w, first, Newline)
<1>1. start \in Nat /\ w \in Seq(Int) /\ Len(w) \in Nat
  BY StandsFacts
<1>2. content.clause \in Nat
  BY <1>1
<1>3. Closes(content, content.clause + 1, Newline)
  BY <1>2, HeaderFacts DEF StandsAt
<1>4. \/ content.header = Len(content.text)
      \/ \E k \in start + first + 1 .. content.header : content.text[k] = Newline
  <2>1. CASE content.header = Len(content.text)
    BY <2>1
  <2>2. CASE \E k \in (content.clause + 1) + 1 .. content.header : content.text[k] = Newline
    <3>1. PICK k \in (content.clause + 1) + 1 .. content.header : content.text[k] = Newline
      BY <2>2
    <3>2. content.header \in Nat
      BY StandsFacts
    <3>3. k \in start + first + 1 .. content.header
      BY <1>1, <1>2, <3>2
    <3> QED BY <3>1, <3>3
  <2> QED BY <1>3, <2>1, <2>2 DEF Closes
<1>5. start + line <= content.header
  BY <1>4, ThroughInHeader
<1>6. line \in 0 .. Len(w)
  BY <1>1, ThroughFacts
<1> HIDE DEF line
<1>7. start + SkipSpace(w, line) <= content.header
  BY <1>5, <1>6, SkipInHeader
<1> QED BY <1>5, <1>7 DEF line

\* The import that comes first behind the clause is one of the header.
LEMMA FirstImport ==
    ASSUME NEW content, NEW start, NEW w, StandsAt(w, content, start),
           NEW first \in 0 .. Len(w), first < Len(w), start + first = content.clause,
           NEW at, at = SkipSpace(w, Through(w, first, Newline)),
           at < Len(w), w[at + 1] = Import
    PROVE  /\ start + at + 1 <= content.header
           /\ \A j \in DOMAIN content.text :
                Begins(content.text, start + at + 1, j) =>
                   Closes(content, j, IF content.text[j] = LParen THEN RParen ELSE Newline)
<1> DEFINE line == Through(w, first, Newline)
           text == content.text
           h    == content.header
           i    == start + at + 1
           n    == start + line
<1>1. /\ start \in Nat /\ w \in Seq(Int) /\ Len(w) \in Nat
      /\ Len(text) \in Nat /\ h \in Nat /\ DOMAIN text = 1 .. Len(text)
      /\ start + Len(w) <= Len(text)
      /\ \A k \in 1 .. Len(w) : w[k] = text[start + k]
      /\ \A k \in 1 .. Len(w) : start + k \in DOMAIN text
      /\ \A k \in DOMAIN text : k = h + 1 => text[k] \notin Blanks \cup {Import}
  BY StandsFacts
<1>2. n <= h /\ start + at <= h
  BY ClauseInHeader
<1>3. /\ line \in Nat /\ first <= line /\ line <= Len(w)
      /\ line = Len(w) \/ (first + 1 <= line /\ w[line] = Newline)
      /\ \A k \in first + 1 .. Len(w) : w[k] = Newline => line <= k
  BY <1>1, ThroughFacts
<1> HIDE DEF line
<1>4. line \in 0 .. Len(w)
  BY <1>1, <1>3
<1>5. /\ at \in Nat /\ line <= at
      /\ \A k \in line + 1 .. at : w[k] \in Blanks
      /\ w[at + 1] \notin Blanks
  <2>1. at = SkipSpace(w, line)
    BY DEF line
  <2> DEFINE r == SkipSpace(w, line)
  <2>0. /\ r \in Nat /\ line <= r /\ r <= Len(w)
        /\ r = Len(w) \/ w[r + 1] \notin Blanks
        /\ \A k \in line + 1 .. r : w[k] \in Blanks
    BY <1>1, <1>4, SkipSpaceFacts
  <2> HIDE DEF r
  <2>2. /\ at \in Nat /\ line <= at /\ at <= Len(w)
        /\ at = Len(w) \/ w[at + 1] \notin Blanks
        /\ \A k \in line + 1 .. at : w[k] \in Blanks
    BY <2>1, <2>0 DEF r
  <2>3. at # Len(w)
    BY <1>1, <2>2
  <2> QED BY <2>2, <2>3
<1>6. line < Len(w) /\ first + 1 <= line /\ w[line] = Newline
  BY <1>1, <1>3, <1>5
<1>7. at + 1 \in 1 .. Len(w) /\ start + (at + 1) = i /\ i \in Nat
  <2> DEFINE m == Len(w)
  <2>0. start \in Nat /\ m \in Nat /\ at \in Nat /\ at < m
    BY <1>1, <1>5
  <2> HIDE DEF m
  <2>1. at + 1 \in 1 .. m /\ start + (at + 1) = i /\ i \in Nat
    BY <2>0
  <2> QED BY <2>1 DEF m
<1>8. text[i] = Import /\ i \in DOMAIN text
  BY <1>1, <1>7
<1>9. i <= h
  <2>1. i # h + 1
    <3> HIDE DEF i, text, h
    <3> QED BY <1>1, <1>8
  <2>2. i <= h + 1
    BY <1>1, <1>2, <1>5
  <2> HIDE DEF i, h
  <2> QED BY <1>1, <1>7, <2>1, <2>2
<1>10. content.clause \in Nat /\ content.clause = start + first
  BY <1>1
<1>11. EndsClause(content, n)
  <2>1. n \in (content.clause + 1) + 1 .. h
    <3>1. first + 1 # line
      <4>1. text[content.clause + 1] = Package
        BY <1>10, HeaderFacts DEF StandsAt
      <4>2. first + 1 \in 1 .. Len(w) /\ start + (first + 1) = content.clause + 1
        BY <1>1, <1>10
      <4>3. w[first + 1] = Package
        BY <1>1, <4>1, <4>2
      <4> QED BY <1>6, <4>3 DEF Package, Newline
    <3> HIDE DEF h
    <3> QED BY <1>1, <1>2, <1>3, <1>6, <1>10, <3>1
  <2>2. text[n] = Newline
    <3>1. line \in 1 .. Len(w)
      BY <1>1, <1>3, <1>6
    <3> QED BY <1>1, <1>6, <3>1
  <2>3. ASSUME NEW k \in content.clause + 1 .. n - 1 PROVE text[k] # Newline
    <3> DEFINE m == k - start
    <3>1. m \in first + 1 .. Len(w) /\ m \in 1 .. Len(w) /\ start + m = k /\ ~ (line <= m)
      BY <1>1, <1>3, <1>10
    <3> HIDE DEF m
    <3>2. w[m] # Newline
      BY <1>3, <3>1
    <3> QED BY <1>1, <3>1, <3>2
  <2> HIDE DEF n
  <2> QED BY <2>1, <2>2, <2>3 DEF EndsClause
<1>12. Begins(text, n, i)
  <2>1. n < i
    BY <1>1, <1>3, <1>5
  <2>2. text[i] \notin Blanks
    BY <1>1, <1>5, <1>7
  <2>3. ASSUME NEW k \in n + 1 .. i - 1 PROVE text[k] \in Blanks
    <3> DEFINE m == k - start
    <3>1. m \in line + 1 .. at /\ m \in 1 .. Len(w) /\ start + m = k
      <4>1. start \in Nat /\ Len(w) \in Nat /\ at \in Nat /\ line \in Nat /\ at < Len(w)
        BY <1>1, <1>3, <1>5
      <4> DEFINE all == Len(w)
      <4> HIDE DEF all
      <4>2. m \in line + 1 .. at /\ m \in 1 .. all /\ start + m = k
        BY <4>1 DEF all
      <4> QED BY <4>2 DEF all
    <3> HIDE DEF m
    <3> QED BY <1>1, <1>5, <3>1
  <2> HIDE DEF n, i, text
  <2> QED BY <2>1, <2>2, <2>3 DEF Begins
<1>13. ASSUME NEW j \in DOMAIN text, Begins(text, i, j)
       PROVE  Closes(content, j, IF text[j] = LParen THEN RParen ELSE Newline)
  <2> HIDE DEF n, i
  <2> QED BY <1>8, <1>10, <1>11, <1>12, <1>13, HeaderFacts DEF StandsAt
<1> QED BY <1>9, <1>13

\* trimPackageImportPreamble cuts the text at its front, and in a window that
\* begins with the file's clause it cuts tokens of the header and no others.
LEMMA PreambleInHeader ==
    ASSUME NEW content, NEW start, NEW w, StandsAt(w, content, start)
    PROVE  \E cut \in 0 .. Len(w) :
              /\ TrimPackageImportPreamble(w) = From(w, cut)
              /\ cut > 0 /\ start + SkipSpace(w, 0) = content.clause =>
                    start + cut <= content.header
<1> DEFINE first  == SkipSpace(w, 0)
           line   == Through(w, first, Newline)
           at     == SkipSpace(w, line)
           end    == ImportEnd(w, at)
           past   == end + If(end < Len(w) /\ w[end + 1] = Newline, 1)
           text   == content.text
           h      == content.header
<1>0. TrimPackageImportPreamble(w) =
         IF first = Len(w) \/ w[first + 1] # Package THEN w
         ELSE IF at = Len(w) \/ w[at + 1] # Import THEN From(w, at)
         ELSE From(w, past)
  BY DEF TrimPackageImportPreamble, ImportEnd
<1>1. /\ start \in Nat /\ w \in Seq(Int) /\ Len(w) \in Nat
      /\ Len(text) \in Nat /\ h \in Nat /\ DOMAIN text = 1 .. Len(text)
      /\ start + Len(w) <= Len(text)
      /\ \A k \in 1 .. Len(w) : w[k] = text[start + k]
      /\ \A k \in 1 .. Len(w) : start + k \in DOMAIN text
      /\ \A k \in DOMAIN text : k = h + 1 => text[k] \notin Blanks \cup {Import}
  BY StandsFacts
<1>2. first \in 0 .. Len(w)
  <2>1. 0 \in 0 .. Len(w)
    BY <1>1
  <2> DEFINE zero == 0
  <2> HIDE DEF zero
  <2>2. zero \in 0 .. Len(w)
    BY <2>1 DEF zero
  <2>3. SkipSpace(w, zero) \in Nat /\ SkipSpace(w, zero) <= Len(w)
    BY <1>1, <2>2, SkipSpaceFacts
  <2> QED BY <1>1, <2>3 DEF zero
<1> HIDE DEF first
<1> SUFFICES \E cut \in 0 .. Len(w) :
                /\ TrimPackageImportPreamble(w) = From(w, cut)
                /\ cut > 0 /\ start + first = content.clause => start + cut <= h
  BY DEF first
<1>3. CASE first = Len(w) \/ w[first + 1] # Package
  <2>1. From(w, 0) = w
    BY <1>1, SubSeqFull DEF From
  <2>2. 0 \in 0 .. Len(w) /\ ~ (0 > 0)
    BY <1>1
  <2>3. TrimPackageImportPreamble(w) = w
    BY <1>0, <1>3
  <2> QED BY <2>1, <2>2, <2>3
<1>4. CASE ~ (first = Len(w) \/ w[first + 1] # Package)
  <2>1. first < Len(w)
    BY <1>1, <1>2, <1>4
  <2>2. line \in 0 .. Len(w)
    BY <1>1, <1>2, ThroughFacts
  <2>3. start + first = content.clause => start + at <= h
    BY <1>2, <2>1, ClauseInHeader
  <2>4. at \in 0 .. Len(w)
    <3> HIDE DEF line
    <3> QED BY <1>1, <2>2, SkipSpaceFacts
  <2>5. CASE at = Len(w) \/ w[at + 1] # Import
    <3>1. TrimPackageImportPreamble(w) = From(w, at)
      BY <1>0, <1>4, <2>5
    <3> HIDE DEF at
    <3> QED BY <2>3, <2>4, <3>1
  <2>6. CASE ~ (at = Len(w) \/ w[at + 1] # Import)
    <3>1. TrimPackageImportPreamble(w) = From(w, past)
      BY <1>0, <1>4, <2>6
    <3>2. at < Len(w) /\ w[at + 1] = Import
      <4> HIDE DEF at
      <4> QED BY <1>1, <2>4, <2>6
    <3>3. end \in 0 .. Len(w)
      <4> HIDE DEF at
      <4> QED BY <1>1, <2>4, <3>2, ImportEndsWithin
    <3>4. ASSUME start + first = content.clause PROVE start + end <= h
      <4>1. /\ start + at + 1 <= content.header
            /\ \A j \in DOMAIN content.text :
                 Begins(content.text, start + at + 1, j) =>
                    Closes(content, j, IF content.text[j] = LParen THEN RParen ELSE Newline)
        BY <1>2, <2>1, <3>2, <3>4, FirstImport
      <4> HIDE DEF at
      <4> QED BY <2>4, <3>2, <4>1, ImportInHeader
    <3> HIDE DEF end
    <3>5. CASE end < Len(w) /\ w[end + 1] = Newline
      <4>1. past = end + 1
        BY <3>5 DEF If
      <4>2. end + 1 \in 1 .. Len(w) /\ start + (end + 1) \in DOMAIN text
        BY <1>1, <3>3, <3>5
      <4>3. w[end + 1] = text[start + (end + 1)] /\ text[start + (end + 1)] \in Blanks
        BY <1>1, <3>5, <4>2 DEF Blanks
      <4>4. start + (end + 1) # h + 1
        <5> DEFINE j == start + (end + 1)
        <5>1. j \in DOMAIN text /\ text[j] \in Blanks
          BY <4>2, <4>3
        <5> HIDE DEF j
        <5>2. j # h + 1
          BY <1>1, <5>1
        <5> QED BY <5>2 DEF j
      <4> HIDE DEF past, h
      <4>5. end \in Nat /\ end + 1 <= Len(w)
        BY <1>1, <3>3, <3>5
      <4>6. start + first = content.clause => start + (end + 1) <= h
        BY <1>1, <3>3, <3>4, <4>4, <4>5
      <4>7. past \in 0 .. Len(w) /\ (start + first = content.clause => start + past <= h)
        BY <1>1, <4>1, <4>5, <4>6
      <4> QED BY <3>1, <4>7
    <3>6. CASE ~ (end < Len(w) /\ w[end + 1] = Newline)
      <4>1. past = end
        BY <1>1, <3>3, <3>6 DEF If
      <4> HIDE DEF past
      <4> QED BY <3>1, <3>3, <3>4, <4>1
    <3> QED BY <3>5, <3>6
  <2> QED BY <2>5, <2>6
<1> QED BY <1>3, <1>4

\* A window around an offset: from start to end.
Windowed(window, X, text, at, start, end) ==
    /\ at <= end
    /\ window.prefix = SubSeq(text, start + 1, at)
    /\ window.prefix \in Seq(X) /\ Len(window.prefix) = at - start
    /\ \A k \in 1 .. at - start : window.prefix[k] = text[start + k]
    /\ window.suffix \in Seq(X) /\ Len(window.suffix) = end - at
    /\ window.prefix \o window.suffix = SubSeq(text, start + 1, end)

\* AroundCursor: two parts of the text that meet at the cursor.
LEMMA WindowFacts ==
    ASSUME NEW X, NEW text \in Seq(X), NEW at \in 0 .. Len(text), NEW limit \in Int
    PROVE  /\ AroundCursor(text, at, limit).suffix \in Seq(X)
           /\ \E start \in 0 .. at, end \in 0 .. Len(text) :
                 Windowed(AroundCursor(text, at, limit), X, text, at, start, end)
<1> DEFINE n == Len(text)
           bytes == IF limit <= 0 THEN DefaultWindowBytes ELSE limit
           start == Max({0, at - bytes})
           end == Min({n, at + bytes})
           prefix == SubSeq(text, start + 1, at)
           suffix == SubSeq(text, at + 1, end)
<1>1. n \in Nat /\ at \in Nat /\ at <= n
  BY LenProperties
<1>2. Min({Max({0, at}), n}) = at
  <2> DEFINE zero == 0
  <2>1. zero \in Int /\ at \in Int /\ n \in Int
    BY <1>1
  <2> HIDE DEF zero, n
  <2>2. Max({zero, at}) = IF zero >= at THEN zero ELSE at
    BY <2>1, MaxOfTwo
  <2>3. Max({zero, at}) = at
    BY <1>1, <2>2 DEF zero
  <2>4. Min({at, n}) = at
    BY <1>1, <2>1, MinOfTwo
  <2> QED BY <2>3, <2>4 DEF zero
<1>3. AroundCursor(text, at, limit) = [prefix |-> prefix, suffix |-> suffix]
  BY <1>2 DEF AroundCursor
<1> bytes \in Nat
  BY DEF DefaultWindowBytes
<1> HIDE DEF bytes
<1>4. start = IF 0 >= at - bytes THEN 0 ELSE at - bytes
  <2> DEFINE zero == 0
             low == at - bytes
  <2>1. zero \in Int /\ low \in Int
    BY <1>1
  <2> HIDE DEF zero, low
  <2>2. Max({zero, low}) = IF zero >= low THEN zero ELSE low
    BY <2>1, MaxOfTwo
  <2> QED BY <2>2 DEF zero, low
<1>5. end = IF n <= at + bytes THEN n ELSE at + bytes
  BY <1>1, MinOfTwo
<1> HIDE DEF n, start, end
<1>6. start \in 0 .. at /\ start \in Nat /\ end \in 0 .. n /\ end \in Nat /\ at <= end /\ end <= n
  BY <1>1, <1>4, <1>5
<1>7. /\ prefix \in Seq(X) /\ Len(prefix) = at - start
      /\ \A k \in 1 .. at - start : prefix[k] = text[start + k]
  <2> DEFINE from == start + 1
  <2>1. from \in Nat \ {0} /\ at <= Len(text)
    BY <1>1, <1>6 DEF n
  <2> HIDE DEF from
  <2>2. /\ SubSeq(text, from, at) \in Seq(X)
        /\ Len(SubSeq(text, from, at)) = IF from <= at THEN at - from + 1 ELSE 0
        /\ \A k \in 1 .. at - from + 1 : SubSeq(text, from, at)[k] = text[from + k - 1]
    BY <1>1, <2>1, Part
  <2>3. Len(prefix) = at - start /\ prefix \in Seq(X)
    BY <1>1, <1>6, <2>2 DEF from
  <2>4. ASSUME NEW k \in 1 .. at - start PROVE prefix[k] = text[start + k]
    <3>1. k \in 1 .. at - from + 1 /\ from + k - 1 = start + k
      BY <1>1, <1>6 DEF from
    <3> QED BY <2>2, <3>1 DEF from
  <2> QED BY <2>3, <2>4
<1>8. suffix \in Seq(X) /\ Len(suffix) = end - at
  <2> DEFINE from == at + 1
  <2>1. from \in Nat \ {0} /\ end <= Len(text)
    BY <1>1, <1>6 DEF n
  <2> HIDE DEF from
  <2>2. /\ SubSeq(text, from, end) \in Seq(X)
        /\ Len(SubSeq(text, from, end)) = IF from <= end THEN end - from + 1 ELSE 0
    BY <1>6, <2>1, Part
  <2> QED BY <1>1, <1>6, <2>2 DEF from
<1>9. prefix \o suffix = SubSeq(text, start + 1, end)
  <2> DEFINE from == start + 1
  <2>1. from \in 1 .. Len(text) + 1 /\ at \in from - 1 .. Len(text) /\ end \in at .. Len(text)
    BY <1>1, <1>6 DEF n
  <2> HIDE DEF from
  <2>2. SubSeq(text, from, at) \o SubSeq(text, at + 1, end) = SubSeq(text, from, end)
    BY <2>1, ConcatAdjacentSubSeq
  <2> QED BY <2>2 DEF from
<1> HIDE DEF prefix, suffix
<1>10. /\ AroundCursor(text, at, limit).prefix = prefix
       /\ AroundCursor(text, at, limit).suffix = suffix
  BY <1>3
<1>11. Windowed(AroundCursor(text, at, limit), X, text, at, start, end)
  BY <1>6, <1>7, <1>8, <1>9, <1>10 DEF Windowed, prefix
<1> QED BY <1>6, <1>8, <1>10, <1>11 DEF n

-----------------------------------------------------------------------------
(* The invariant: files are sources, a context was collected from what is  *)
(* there now, in some order, and a prompt built from that context.         *)

Sources ==
    /\ IsFiniteSet(DOMAIN disk) /\ DOMAIN disk \subseteq Nat
    /\ \A p \in DOMAIN disk : IsSource(disk[p])
    /\ IsSource(buffer)
    /\ cursor \in 0 .. Len(buffer.text)

Collected ==
    context # NoContext \/ prompt # Nil =>
        \E order \in Orders : context = Collect(disk, Current, buffer, cursor, order)

Prompted == prompt # Nil => prompt = Build(context, buffer.text, cursor)

IInv == Sources /\ Collected /\ Prompted

LEMMA SourceText ==
    ASSUME NEW content, IsSource(content)
    PROVE  /\ content.text \in Seq(Int) /\ Len(content.text) \in Nat
           /\ DOMAIN content.text = 1 .. Len(content.text)
<1>1. content.text \in Seq(Int)
  BY DEF IsSource, IsFile
<1> QED BY <1>1, LenProperties

LEMMA InitInv == Init => IInv
<1> SUFFICES ASSUME Init PROVE IInv
  OBVIOUS
<1>1. PICK start \in Starts : disk = start.disk /\ buffer = start.buffer
  BY DEF Init
<1>2. /\ IsFiniteSet(DOMAIN disk) /\ DOMAIN disk \subseteq Nat
      /\ \A p \in DOMAIN disk : IsSource(disk[p])
      /\ IsSource(buffer)
  BY <1>1, ContextAssumption
<1>3. cursor \in 0 .. Len(buffer.text)
  BY <1>2, SourceText DEF Init
<1>4. context = NoContext /\ prompt = Nil
  BY DEF Init
<1> QED BY <1>2, <1>3, <1>4 DEF IInv, Sources, Collected, Prompted

LEMMA StepInv == IInv /\ [Next]_vars => IInv'
<1> SUFFICES ASSUME IInv, [Next]_vars PROVE IInv'
  OBVIOUS
<1>1. /\ IsFiniteSet(DOMAIN disk) /\ DOMAIN disk \subseteq Nat
      /\ \A p \in DOMAIN disk : IsSource(disk[p])
      /\ IsSource(buffer)
      /\ cursor \in 0 .. Len(buffer.text)
  BY DEF IInv, Sources
<1>2. ASSUME NEW content \in Versions, Edit(content) PROVE IInv'
  <2>1. /\ buffer' = content /\ cursor' = Len(content.text) /\ disk' = disk
        /\ context' = NoContext /\ prompt' = Nil
    BY <1>2 DEF Edit
  <2>2. IsSource(content)
    BY ContextAssumption
  <2>3. cursor' \in 0 .. Len(buffer'.text)
    BY <2>1, <2>2, SourceText
  <2> QED BY <1>1, <2>1, <2>2, <2>3 DEF IInv, Sources, Collected, Prompted
<1>3. ASSUME NEW offset \in DOMAIN buffer.text, MoveCursor(offset) PROVE IInv'
  <2>1. /\ buffer' = buffer /\ cursor' = offset /\ disk' = disk
        /\ context' = NoContext /\ prompt' = Nil
    BY <1>3 DEF MoveCursor
  <2>2. cursor' \in 0 .. Len(buffer'.text)
    BY <1>1, <2>1, SourceText
  <2> QED BY <1>1, <2>1, <2>2 DEF IInv, Sources, Collected, Prompted
<1>4. ASSUME Save PROVE IInv'
  <2>1. /\ buffer' = buffer /\ cursor' = cursor
        /\ context' = NoContext /\ prompt' = Nil
        /\ disk' = [p \in DOMAIN disk \cup {Current} |-> IF p = Current THEN buffer ELSE disk[p]]
    BY <1>4 DEF Save
  <2>2. DOMAIN disk' = DOMAIN disk \cup {Current}
    BY <2>1
  <2>3. IsFiniteSet(DOMAIN disk') /\ DOMAIN disk' \subseteq Nat
    BY <1>1, <2>2, FS_AddElement, ContextAssumption
  <2>4. \A p \in DOMAIN disk' : IsSource(disk'[p])
    BY <1>1, <2>1, <2>2
  <2> QED BY <1>1, <2>1, <2>3, <2>4 DEF IInv, Sources, Collected, Prompted
<1>5. ASSUME NEW order \in Orders, Prepare(order) PROVE IInv'
  <2>1. /\ buffer' = buffer /\ cursor' = cursor /\ disk' = disk
        /\ context' = Collect(disk, Current, buffer, cursor, order)
        /\ prompt' = Build(context', buffer.text, cursor)
    BY <1>5 DEF Prepare
  <2>2. Orders' = Orders
    BY <2>1 DEF Orders
  <2>3. Collected'
    BY <2>1, <2>2 DEF Collected
  <2> QED BY <1>1, <2>1, <2>3 DEF IInv, Sources, Prompted
<1>6. ASSUME NEW answer, Complete(answer) PROVE IInv'
  <2>1. /\ buffer' = buffer /\ cursor' = cursor /\ disk' = disk
        /\ context' = context /\ prompt' = prompt
    BY <1>6 DEF Complete
  <2>2. Orders' = Orders
    BY <2>1 DEF Orders
  <2> QED BY <1>1, <2>1, <2>2 DEF IInv, Sources, Collected, Prompted
<1>7. CASE UNCHANGED vars
  <2>1. /\ buffer' = buffer /\ cursor' = cursor /\ disk' = disk
        /\ context' = context /\ prompt' = prompt
    BY <1>7 DEF vars
  <2>2. Orders' = Orders
    BY <2>1 DEF Orders
  <2> QED BY <1>1, <2>1, <2>2 DEF IInv, Sources, Collected, Prompted
<1> QED BY <1>2, <1>3, <1>4, <1>5, <1>6, <1>7 DEF Next

LEMMA Invariance == Spec => []IInv
BY InitInv, StepInv, PTL DEF Spec

-----------------------------------------------------------------------------
(* The context that is collected. *)

LEMMA FilesFacts ==
    ASSUME Sources, NEW order \in Orders
    PROVE  LET files == FilesRead(Current, order)
               all   == InPackage(disk, buffer.pkg) \cup {Current}
           IN  /\ IsList(files) /\ Range(files) = all /\ all \subseteq Nat
               /\ Len(files) = Cardinality(all)
               /\ \A i, j \in 1 .. Len(files) : files[i] = files[j] => i = j
<1> DEFINE P == InPackage(disk, buffer.pkg)
           n == Cardinality(P)
<1>1. P \in SUBSET DOMAIN disk
  BY DEF InPackage
<1>2. IsFiniteSet(P) /\ P \subseteq Nat /\ Current \in Nat
  BY <1>1, FS_Subset, ContextAssumption DEF Sources
<1>3. order \in SetToSeqs(P)
  BY DEF Orders
<1> HIDE DEF P
<1>4. /\ n \in Nat /\ order \in Seq(P) /\ Len(order) = n /\ DOMAIN order = 1 .. n
      /\ {order[k] : k \in 1 .. n} = P
      /\ \A i, j \in 1 .. n : order[i] = order[j] => i = j
  BY <1>2, <1>3, SeqsOfSet
<1> HIDE DEF n
<1>5. Range(order) = P /\ IsList(order)
  BY <1>4, ListOver DEF Range
<1>6. CASE Current \in P
  <2>1. FilesRead(Current, order) = order
    BY <1>5, <1>6 DEF FilesRead
  <2>2. P \cup {Current} = P
    BY <1>6
  <2> QED BY <1>2, <1>4, <1>5, <2>1, <2>2 DEF P, n
<1>7. CASE Current \notin P
  <2> DEFINE files == Append(order, Current)
             all == P \cup {Current}
  <2>1. FilesRead(Current, order) = files
    BY <1>5, <1>7 DEF FilesRead
  <2>2. /\ files \in Seq(all) /\ Len(files) = n + 1
        /\ \A i \in 1 .. n : files[i] = order[i]
        /\ files[n + 1] = Current
    <3>1. order \in Seq(all) /\ Current \in all
      BY <1>4, SeqMonotonic
    <3> HIDE DEF all
    <3> QED BY <1>4, <3>1, AppendProperties
  <2> HIDE DEF files
  <2>3. \A i \in 1 .. n + 1 : i = n + 1 \/ i \in 1 .. n
    BY <1>4
  <2>4. n + 1 \in 1 .. n + 1 /\ \A i \in 1 .. n : i \in 1 .. n + 1
    BY <1>4
  <2>5. IsList(files) /\ Range(files) \subseteq all
    BY <2>2, ListOver
  <2>6. all \subseteq Range(files)
    <3>1. \A i \in 1 .. n + 1 : files[i] \in Range(files)
      BY <2>2, <2>5, ListFacts
    <3>2. \A x \in P : \E k \in 1 .. n : x = order[k]
      BY <1>4
    <3> QED BY <2>2, <2>4, <3>1, <3>2
  <2>7. ASSUME NEW i \in 1 .. Len(files), NEW j \in 1 .. Len(files), files[i] = files[j]
        PROVE  i = j
    <3>1. \A k \in 1 .. n : files[k] \in P /\ files[k] # Current
      BY <1>4, <1>7, <2>2
    <3>2. (i = n + 1 \/ i \in 1 .. n) /\ (j = n + 1 \/ j \in 1 .. n)
      BY <2>2, <2>3
    <3> QED BY <1>4, <2>2, <2>7, <3>1, <3>2
  <2>8. Cardinality(all) = n + 1
    BY <1>2, <1>7, FS_AddElement DEF n
  <2> QED BY <1>2, <2>1, <2>2, <2>5, <2>6, <2>7, <2>8 DEF P
<1> QED BY <1>6, <1>7

\* Gather takes every entry of every file once.
Gathers(files, collected, field) ==
    /\ IsList(files)
    /\ \A i, j \in 1 .. Len(files) : files[i] = files[j] => i = j
    /\ \A p \in Range(files) : IsList(collected[p][field])

Holding(r, files, collected, field) ==
    /\ IsList(r)
    /\ Range(r) = UNION {Range(collected[p][field]) : p \in Range(files)}
    /\ Len(r) = Cardinality(UNION {{p} \X (DOMAIN collected[p][field]) : p \in Range(files)})

LEMMA GatherFacts ==
    ASSUME NEW files, NEW collected, NEW field, Gathers(files, collected, field)
    PROVE  Holding(Gather(files, collected, field), files, collected, field)
<1> DEFINE n == Len(files)
           ss == [i \in DOMAIN files |-> collected[files[i]][field]]
           r == Gather(files, collected, field)
<1>1. n \in Nat /\ DOMAIN files = 1 .. n /\ Range(files) = {files[i] : i \in 1 .. n}
  BY ListFacts DEF Range, Gathers
<1> HIDE DEF n
<1>2. r = FlattenSeq(ss)
  BY DEF Gather
<1>3. ss = [i \in 1 .. n |-> ss[i]] /\ \A i \in 1 .. n : ss[i] = collected[files[i]][field]
  BY <1>1
<1> HIDE DEF ss
<1>4. \A i \in 1 .. n : files[i] \in Range(files)
  BY <1>1
<1>5. Lists(ss, n)
  BY <1>1, <1>3, <1>4 DEF Lists, Gathers
<1>6. PICK base : Flat(r, ss, n, base)
  BY <1>2, <1>5, FlattenFacts
<1> HIDE DEF r
<1>7. IsList(r)
  BY <1>6 DEF Flat
<1>8. Range(r) = UNION {Range(ss[i]) : i \in 1 .. n}
  BY <1>5, <1>6, FlatRange
<1>9. UNION {Range(ss[i]) : i \in 1 .. n} = UNION {Range(collected[p][field]) : p \in Range(files)}
  BY <1>1, <1>3
<1>10. Cardinality(UNION {{files[i]} \X (DOMAIN ss[i]) : i \in 1 .. n}) = Len(r)
  <2>1. \A i, j \in 1 .. n : files[i] = files[j] => i = j
    BY DEF n, Gathers
  <2> QED BY <1>5, <1>6, <2>1, FlatSize
<1>11. UNION {{files[i]} \X (DOMAIN ss[i]) : i \in 1 .. n}
       = UNION {{p} \X (DOMAIN collected[p][field]) : p \in Range(files)}
  BY <1>1, <1>3
<1>12. Holding(r, files, collected, field)
  BY <1>7, <1>8, <1>9, <1>10, <1>11 DEF Holding
<1> QED BY <1>12 DEF r

(***************************************************************************)
(* The places in the files' lists that Gather takes, in its order: that of *)
(* each file is kept.                                                      *)
(***************************************************************************)
Places(files, collected, field) ==
    UNION {{p} \X (DOMAIN collected[p][field]) : p \in Range(files)}

Entry(S, collected, field) == [s \in S |-> collected[s[1]][field][s[2]]]

InFileOrder(S) == {pair \in S \X S : pair[1][1] = pair[2][1] => pair[1][2] < pair[2][2]}

Gathered(g, r, S, collected, field) ==
    /\ Enumerates(g, Len(r), S)
    /\ Values(r, g, Entry(S, collected, field))
    /\ Along(g, Len(r), InFileOrder(S))

LEMMA GatherSlots ==
    ASSUME NEW files, NEW collected, NEW field, Gathers(files, collected, field)
    PROVE  \E g : Gathered(g, Gather(files, collected, field), Places(files, collected, field),
                           collected, field)
<1> DEFINE n == Len(files)
           ss == [i \in DOMAIN files |-> collected[files[i]][field]]
           r == Gather(files, collected, field)
           S == Places(files, collected, field)
<1>1. n \in Nat /\ DOMAIN files = 1 .. n /\ Range(files) = {files[i] : i \in 1 .. n}
  BY ListFacts DEF Range, Gathers
<1> HIDE DEF n
<1>2. r = FlattenSeq(ss)
  BY DEF Gather
<1>3. ss = [i \in 1 .. n |-> ss[i]] /\ \A i \in 1 .. n : ss[i] = collected[files[i]][field]
  BY <1>1
<1> HIDE DEF ss
<1>4. \A i \in 1 .. n : files[i] \in Range(files)
  BY <1>1
<1>5. Lists(ss, n)
  BY <1>1, <1>3, <1>4 DEF Lists, Gathers
<1>6. PICK base : Flat(r, ss, n, base)
  BY <1>2, <1>5, FlattenFacts
<1>7. IsList(r)
  BY <1>6 DEF Flat
<1> HIDE DEF r
<1>8. \A i, j \in 1 .. n : files[i] = files[j] => i = j
  BY DEF n, Gathers
<1>9. PICK g : Slotted(g, r, ss, n, base, files)
  BY <1>5, <1>6, <1>8, FlatSlots
<1>10. Slots(files, ss, n) = S
  BY <1>1, <1>3 DEF Slots, Places
<1> HIDE DEF S
<1>11. Enumerates(g, Len(r), S)
  BY <1>9, <1>10 DEF Slotted
<1>12. \A m \in 1 .. Len(r) : \E i \in 1 .. n :
         /\ g[m][1] = files[i] /\ g[m][2] \in 1 .. Len(ss[i])
         /\ r[m] = ss[i][g[m][2]] /\ m = base[i] + g[m][2]
  BY <1>9 DEF Slotted
<1>13. \A m \in 1 .. Len(r) : g[m] \in S
  BY <1>11 DEF Enumerates
<1>14. Values(r, g, Entry(S, collected, field))
  <2>1. ASSUME NEW m \in 1 .. Len(r) PROVE r[m] = Entry(S, collected, field)[g[m]]
    <3>1. PICK i \in 1 .. n : g[m][1] = files[i] /\ r[m] = ss[i][g[m][2]]
      BY <1>12
    <3>2. Entry(S, collected, field)[g[m]] = collected[g[m][1]][field][g[m][2]]
      BY <1>13 DEF Entry
    <3> QED BY <1>3, <3>1, <3>2
  <2> QED BY <2>1 DEF Values
<1>15. Along(g, Len(r), InFileOrder(S))
  <2>1. ASSUME NEW k \in 1 .. Len(r), NEW l \in 1 .. Len(r), k < l, g[k][1] = g[l][1]
        PROVE  g[k][2] < g[l][2]
    <3>1. PICK i \in 1 .. n : /\ g[k][1] = files[i] /\ g[k][2] \in 1 .. Len(ss[i])
                              /\ k = base[i] + g[k][2]
      BY <1>12
    <3>2. PICK j \in 1 .. n : /\ g[l][1] = files[j] /\ g[l][2] \in 1 .. Len(ss[j])
                              /\ l = base[j] + g[l][2]
      BY <1>12
    <3>3. i = j
      BY <1>8, <2>1, <3>1, <3>2
    <3>4. base[i] \in Nat
      BY <1>6 DEF Flat
    <3> HIDE DEF n
    <3> QED BY <2>1, <3>1, <3>2, <3>3, <3>4
  <2>2. ASSUME NEW k \in 1 .. Len(r), NEW l \in 1 .. Len(r), k < l
        PROVE  <<g[k], g[l]>> \in InFileOrder(S)
    <3>1. g[k] \in S /\ g[l] \in S
      BY <1>13
    <3>2. g[k][1] = g[l][1] => g[k][2] < g[l][2]
      BY <2>1, <2>2
    <3> QED BY <3>1, <3>2 DEF InFileOrder
  <2> QED BY <2>2 DEF Along
<1>16. Gathered(g, r, S, collected, field)
  BY <1>11, <1>14, <1>15 DEF Gathered
<1> QED BY <1>16 DEF r, S

Maps(val, S, X) == \A s \in S : val[s] \in X

(***************************************************************************)
(* Two stable sorts of the same values: at each place the two values tie,  *)
(* and where values that tie are of one file they are the same.            *)
(***************************************************************************)
LEMMA SortedTies ==
    ASSUME NEW n, NEW S, NEW val, NEW X, Maps(val, S, X),
           NEW B, StrictWeak(B, X), NEW N,
           NEW q, NEW g, SortedOnce(q, g, n, S, val, B, N),
           NEW r, NEW h, SortedOnce(r, h, n, S, val, B, N)
    PROVE  \A k \in 1 .. n : Tied(B, q[k], r[k])
<1> DEFINE C == {pair \in S \X S : <<val[pair[1]], val[pair[2]]>> \in B}
<1>1. \A s, t \in S : <<s, t>> \in C <=> <<val[s], val[t]>> \in B
  OBVIOUS
<1> HIDE DEF C
<1>2. StrictWeak(C, S)
  <2>1. \A s \in S : val[s] \in X
    BY DEF Maps
  <2> QED BY <1>1, <2>1 DEF StrictWeak
<1>3. Enumerates(g, n, S) /\ Enumerates(h, n, S)
  BY DEF SortedOnce
<1>4. (\A k \in 1 .. n : g[k] \in S /\ h[k] \in S)
  BY <1>3 DEF Enumerates
<1>5. Follows(g, n, C)
  <2>1. ASSUME NEW i \in 1 .. n, NEW j \in 1 .. n, i < j PROVE <<g[j], g[i]>> \notin C
    <3>1. <<q[j], q[i]>> \notin B /\ q[i] = val[g[i]] /\ q[j] = val[g[j]]
      BY <2>1 DEF SortedOnce
    <3> QED BY <1>1, <1>4, <3>1
  <2> QED BY <2>1 DEF Follows
<1>6. Follows(h, n, C)
  <2>1. ASSUME NEW i \in 1 .. n, NEW j \in 1 .. n, i < j PROVE <<h[j], h[i]>> \notin C
    <3>1. <<r[j], r[i]>> \notin B /\ r[i] = val[h[i]] /\ r[j] = val[h[j]]
      BY <2>1 DEF SortedOnce
    <3> QED BY <1>1, <1>4, <3>1
  <2> QED BY <2>1 DEF Follows
<1>7. ASSUME NEW k \in 1 .. n PROVE Tied(B, q[k], r[k])
  <2>1. <<g[k], h[k]>> \notin C
    BY <1>2, <1>3, <1>5, <1>6, SameOrder
  <2>2. <<h[k], g[k]>> \notin C
    BY <1>2, <1>3, <1>5, <1>6, SameOrder
  <2>3. q[k] = val[g[k]] /\ r[k] = val[h[k]]
    BY DEF SortedOnce
  <2> QED BY <1>1, <1>4, <2>1, <2>2, <2>3 DEF Tied
<1> QED BY <1>7

\* A place is a file and an index.
ArePlaces(S) == \A s \in S : s = <<s[1], s[2]>> /\ s[2] \in Nat

TiesAreOfOneFile(B, S, val) == \A s, t \in S : Tied(B, val[s], val[t]) => s[1] = t[1]

LEMMA SortedSame ==
    ASSUME NEW n, NEW S, ArePlaces(S), NEW val, NEW X, Maps(val, S, X),
           NEW B, StrictWeak(B, X),
           TiesAreOfOneFile(B, S, val),
           NEW q, NEW g, SortedOnce(q, g, n, S, val, B, InFileOrder(S)),
           NEW r, NEW h, SortedOnce(r, h, n, S, val, B, InFileOrder(S))
    PROVE  \A k \in 1 .. n : q[k] = r[k]
<1> DEFINE Less(s, t) == \/ <<val[s], val[t]>> \in B
                         \/ Tied(B, val[s], val[t]) /\ s[2] < t[2]
           C == {pair \in S \X S : Less(pair[1], pair[2])}
<1>1. \A s, t \in S : <<s, t>> \in C <=> Less(s, t)
  OBVIOUS
<1> HIDE DEF C
<1>2. \A s, t \in S : Less(s, t) => ~ Less(t, s)
  <2> SUFFICES ASSUME NEW s \in S, NEW t \in S, Less(s, t), Less(t, s) PROVE FALSE
    OBVIOUS
  <2>1. s[2] \in Nat /\ t[2] \in Nat
    BY DEF ArePlaces
  <2>2. val[s] \in X /\ val[t] \in X
    BY DEF Maps
  <2>3. CASE <<val[s], val[t]>> \in B
    BY <2>2, <2>3 DEF Tied, StrictWeak
  <2>4. CASE Tied(B, val[s], val[t]) /\ s[2] < t[2]
    <3>1. t[2] < s[2]
      BY <2>4 DEF Tied
    <3> QED BY <2>1, <2>4, <3>1
  <2> QED BY <2>3, <2>4
<1>3. ASSUME NEW s \in S, NEW t \in S, NEW u \in S, Less(s, u), ~ Less(s, t) PROVE Less(t, u)
  <2>1. s[2] \in Nat /\ t[2] \in Nat /\ u[2] \in Nat
    BY DEF ArePlaces
  <2>2. val[s] \in X /\ val[t] \in X /\ val[u] \in X
    BY DEF Maps
  <2>3. CASE <<val[s], val[u]>> \in B
    BY <1>3, <2>2, <2>3 DEF StrictWeak
  <2>4. CASE Tied(B, val[s], val[u]) /\ s[2] < u[2]
    <3>1. CASE <<val[t], val[s]>> \in B
      BY <2>2, <2>4, <3>1 DEF StrictWeak, Tied
    <3>2. CASE Tied(B, val[s], val[t]) /\ ~ (s[2] < t[2])
      <4>1. t[2] < u[2]
        BY <2>1, <2>4, <3>2
      <4>2. Tied(B, val[t], val[u])
        BY <2>2, <2>4, <3>2 DEF StrictWeak, Tied
      <4> QED BY <4>1, <4>2
    <3> QED BY <1>3, <3>1, <3>2 DEF Tied
  <2> QED BY <1>3, <2>3, <2>4
<1>4. StrictWeak(C, S)
  <2> HIDE DEF Less
  <2> QED BY <1>1, <1>2, <1>3 DEF StrictWeak
<1>5. ASSUME NEW w, NEW f, SortedOnce(w, f, n, S, val, B, InFileOrder(S))
      PROVE  /\ Enumerates(f, n, S) /\ Follows(f, n, C)
             /\ \A k \in 1 .. n : f[k] \in S /\ w[k] = val[f[k]]
  <2>1. Enumerates(f, n, S) /\ \A k \in 1 .. n : w[k] = val[f[k]]
    BY <1>5 DEF SortedOnce
  <2>2. \A k \in 1 .. n : f[k] \in S
    BY <2>1 DEF Enumerates
  <2>3. ASSUME NEW k \in 1 .. n, NEW l \in 1 .. n, k < l PROVE ~ Less(f[l], f[k])
    <3>1. <<w[l], w[k]>> \notin B /\ (<<w[k], w[l]>> \in B \/ <<f[k], f[l]>> \in InFileOrder(S))
      BY <1>5, <2>3 DEF SortedOnce
    <3>2. CASE <<w[k], w[l]>> \in B
      BY <2>1, <3>1, <3>2 DEF Tied
    <3>3. CASE <<w[k], w[l]>> \notin B
      <4>1. f[k][1] = f[l][1]
        BY <2>1, <2>2, <3>1, <3>3 DEF Tied, TiesAreOfOneFile
      <4>2. f[k][2] < f[l][2]
        BY <3>1, <3>3, <4>1 DEF InFileOrder
      <4>3. f[k][2] \in Nat /\ f[l][2] \in Nat
        BY <2>2 DEF ArePlaces
      <4>4. ~ (f[l][2] < f[k][2])
        BY <4>2, <4>3
      <4> QED BY <2>1, <3>1, <4>4
    <3> QED BY <3>2, <3>3
  <2> HIDE DEF Less
  <2>4. Follows(f, n, C)
    BY <1>1, <2>2, <2>3 DEF Follows
  <2> QED BY <2>1, <2>2, <2>4
<1>6. ASSUME NEW k \in 1 .. n PROVE q[k] = r[k]
  <2>1. /\ Enumerates(g, n, S) /\ Follows(g, n, C) /\ g[k] \in S /\ q[k] = val[g[k]]
        /\ Enumerates(h, n, S) /\ Follows(h, n, C) /\ h[k] \in S /\ r[k] = val[h[k]]
    BY <1>5
  <2>2. <<g[k], h[k]>> \notin C
    BY <1>4, <2>1, SameOrder
  <2>3. <<h[k], g[k]>> \notin C
    BY <1>4, <2>1, SameOrder
  <2>4. ~ Less(g[k], h[k]) /\ ~ Less(h[k], g[k])
    BY <1>1, <2>1, <2>2, <2>3
  <2>5. Tied(B, val[g[k]], val[h[k]])
    BY <2>4 DEF Tied
  <2>6. g[k][1] = h[k][1]
    BY <2>1, <2>5 DEF TiesAreOfOneFile
  <2>7. g[k][2] \in Nat /\ h[k][2] \in Nat /\ g[k] = <<g[k][1], g[k][2]>> /\ h[k] = <<h[k][1], h[k][2]>>
    BY <2>1 DEF ArePlaces
  <2>8. g[k][2] = h[k][2]
    BY <2>4, <2>5, <2>7 DEF Tied
  <2> QED BY <2>1, <2>6, <2>7, <2>8
<1> QED BY <1>6

LEMMA PlaceFacts ==
    ASSUME NEW files, NEW collected, NEW field, Gathers(files, collected, field),
           NEW g, NEW r, IsList(r), Gathered(g, r, Places(files, collected, field), collected, field)
    PROVE  LET S   == Places(files, collected, field)
               val == Entry(S, collected, field)
           IN  /\ Maps(val, S, Range(r)) /\ ArePlaces(S)
               /\ \A s \in S : s[1] \in Range(files) /\ val[s] \in Range(collected[s[1]][field])
<1> DEFINE S == Places(files, collected, field)
           val == Entry(S, collected, field)
<1>1. Maps(val, S, Range(r))
  <2>1. ASSUME NEW s \in S PROVE val[s] \in Range(r)
    <3>1. PICK m \in 1 .. Len(r) : g[m] = s
      BY DEF Gathered, Enumerates
    <3>2. r[m] = val[s]
      BY <3>1 DEF Gathered, Values
    <3> QED BY <3>2, ListFacts
  <2> HIDE DEF S, val
  <2> QED BY <2>1 DEF Maps
<1>2. ASSUME NEW s \in S
      PROVE  /\ s = <<s[1], s[2]>> /\ s[2] \in Nat /\ s[1] \in Range(files)
             /\ val[s] \in Range(collected[s[1]][field])
  <2>1. PICK p \in Range(files) : s \in {p} \X (DOMAIN collected[p][field])
    BY DEF Places
  <2>2. s = <<s[1], s[2]>> /\ s[1] = p /\ s[2] \in DOMAIN collected[p][field]
    BY <2>1
  <2>3. IsList(collected[p][field])
    BY DEF Gathers
  <2>4. s[2] \in 1 .. Len(collected[p][field]) /\ Len(collected[p][field]) \in Nat
    BY <2>2, <2>3, ListFacts
  <2>5. val[s] = collected[p][field][s[2]]
    BY <2>2 DEF Entry
  <2>6. val[s] \in Range(collected[p][field])
    BY <2>3, <2>4, <2>5, ListFacts
  <2> HIDE DEF S, val
  <2> QED BY <2>2, <2>4, <2>6
<1> HIDE DEF S, val
<1>3. ArePlaces(S)
  BY <1>2 DEF ArePlaces
<1> QED BY <1>1, <1>2, <1>3 DEF S, val

\* What is gathered, in two orders of the files.
TwoGather(files, others, collected, field) ==
    /\ Gathers(files, collected, field) /\ Gathers(others, collected, field)
    /\ Range(others) = Range(files)

LEMMA TwoGathers ==
    ASSUME NEW files, NEW others, NEW collected, NEW field,
           TwoGather(files, others, collected, field)
    PROVE  LET q == Gather(files, collected, field)
               r == Gather(others, collected, field)
               S == Places(files, collected, field)
           IN  /\ IsList(q) /\ IsList(r) /\ Len(r) = Len(q) /\ Range(r) = Range(q)
               /\ Places(others, collected, field) = S
               /\ \E g : Gathered(g, q, S, collected, field)
               /\ \E h : Gathered(h, r, S, collected, field)
<1> DEFINE q == Gather(files, collected, field)
           r == Gather(others, collected, field)
           S == Places(files, collected, field)
<1>1. Gathers(files, collected, field) /\ Gathers(others, collected, field) /\ Range(others) = Range(files)
  BY DEF TwoGather
<1>2. Places(others, collected, field) = S
  BY <1>1 DEF Places
<1>3. /\ IsList(q) /\ Range(q) = UNION {Range(collected[p][field]) : p \in Range(files)}
      /\ Len(q) = Cardinality(S)
  <2>1. /\ IsList(q) /\ Range(q) = UNION {Range(collected[p][field]) : p \in Range(files)}
        /\ Len(q) = Cardinality(UNION {{p} \X (DOMAIN collected[p][field]) : p \in Range(files)})
    <3>1. Holding(q, files, collected, field)
      BY <1>1, GatherFacts
    <3> QED BY <3>1 DEF Holding
  <2> HIDE DEF q
  <2> QED BY <2>1 DEF Places
<1>4. /\ IsList(r) /\ Range(r) = UNION {Range(collected[p][field]) : p \in Range(others)}
      /\ Len(r) = Cardinality(Places(others, collected, field))
  <2>1. /\ IsList(r) /\ Range(r) = UNION {Range(collected[p][field]) : p \in Range(others)}
        /\ Len(r) = Cardinality(UNION {{p} \X (DOMAIN collected[p][field]) : p \in Range(others)})
    <3>1. Holding(r, others, collected, field)
      BY <1>1, GatherFacts
    <3> QED BY <3>1 DEF Holding
  <2> HIDE DEF r
  <2> QED BY <2>1 DEF Places
<1>5. \E g : Gathered(g, q, S, collected, field)
  BY <1>1, GatherSlots
<1>6. \E h : Gathered(h, r, Places(others, collected, field), collected, field)
  BY <1>1, GatherSlots
<1> HIDE DEF q, r, S
<1>7. Range(r) = Range(q) /\ Len(r) = Len(q)
  BY <1>1, <1>2, <1>3, <1>4
<1> QED BY <1>2, <1>3, <1>4, <1>5, <1>6, <1>7 DEF q, r, S

LEMMA TwoSorts ==
    ASSUME NEW files, NEW others, NEW collected, NEW field,
           TwoGather(files, others, collected, field),
           NEW B, StrictWeak(B, Range(Gather(files, collected, field)))
    PROVE  LET q == Gather(files, collected, field)
               r == Gather(others, collected, field)
               S == Places(files, collected, field)
               val == Entry(S, collected, field)
               sq == Arranged(q, StablePairs(q, B))
               sr == Arranged(r, StablePairs(r, B))
           IN  /\ IsList(sq) /\ IsList(sr) /\ Len(sq) = Len(q) /\ Len(sr) = Len(q)
               /\ Range(sq) = Range(q) /\ Range(sr) = Range(q)
               /\ \E g : SortedOnce(sq, g, Len(q), S, val, B, InFileOrder(S))
               /\ \E h : SortedOnce(sr, h, Len(q), S, val, B, InFileOrder(S))
<1> DEFINE q == Gather(files, collected, field)
           r == Gather(others, collected, field)
           S == Places(files, collected, field)
           val == Entry(S, collected, field)
           N == InFileOrder(S)
           sq == Arranged(q, StablePairs(q, B))
           sr == Arranged(r, StablePairs(r, B))
<1>1. /\ IsList(q) /\ IsList(r) /\ Len(r) = Len(q) /\ Range(r) = Range(q)
      /\ \E g : Gathered(g, q, S, collected, field)
      /\ \E h : Gathered(h, r, S, collected, field)
  BY TwoGathers
<1>2. StrictWeak(B, Range(q)) /\ StrictWeak(B, Range(r))
  BY <1>1
<1> HIDE DEF q, r, S
<1>3. Sorted(sq, q, B) /\ Sorted(sr, r, B)
  BY <1>1, <1>2, SortFacts
<1>4. \E g : SortedOnce(sq, g, Len(q), S, val, B, N)
  <2>1. PICK g : Gathered(g, q, S, collected, field)
    BY <1>1
  <2>2. Enumerates(g, Len(q), S) /\ Values(q, g, val) /\ Along(g, Len(q), N)
    BY <2>1 DEF Gathered
  <2> HIDE DEF val, N
  <2> QED BY <1>1, <1>2, <2>2, SortOnce
<1>5. \E h : SortedOnce(sr, h, Len(r), S, val, B, N)
  <2>1. PICK h : Gathered(h, r, S, collected, field)
    BY <1>1
  <2>2. Enumerates(h, Len(r), S) /\ Values(r, h, val) /\ Along(h, Len(r), N)
    BY <2>1 DEF Gathered
  <2> HIDE DEF val, N
  <2> QED BY <1>1, <1>2, <2>2, SortOnce
<1> HIDE DEF val, N, sq, sr
<1>6. /\ IsList(sq) /\ IsList(sr) /\ Len(sq) = Len(q) /\ Len(sr) = Len(q)
      /\ Range(sq) = Range(q) /\ Range(sr) = Range(q)
  BY <1>1, <1>3 DEF Sorted
<1>7. \E h : SortedOnce(sr, h, Len(q), S, val, B, N)
  BY <1>1, <1>5
<1> QED BY <1>4, <1>6, <1>7 DEF q, r, S, val, N, sq, sr

\* Sorted lists of the same entries, place by place.
LEMMA SortsTie ==
    ASSUME NEW files, NEW others, NEW collected, NEW field,
           TwoGather(files, others, collected, field),
           NEW B, StrictWeak(B, Range(Gather(files, collected, field)))
    PROVE  LET q == Gather(files, collected, field)
               r == Gather(others, collected, field)
               sq == Arranged(q, StablePairs(q, B))
               sr == Arranged(r, StablePairs(r, B))
           IN  \A k \in 1 .. Len(q) : Tied(B, sq[k], sr[k])
<1> DEFINE q == Gather(files, collected, field)
           r == Gather(others, collected, field)
           S == Places(files, collected, field)
           val == Entry(S, collected, field)
           N == InFileOrder(S)
           sq == Arranged(q, StablePairs(q, B))
           sr == Arranged(r, StablePairs(r, B))
<1>1. PICK g : SortedOnce(sq, g, Len(q), S, val, B, N)
  BY TwoSorts
<1>2. PICK h : SortedOnce(sr, h, Len(q), S, val, B, N)
  BY TwoSorts
<1>3. Maps(val, S, Range(q))
  <2>1. IsList(q) /\ \E f : Gathered(f, q, S, collected, field)
    BY TwoGathers
  <2> HIDE DEF q
  <2> QED BY <2>1, PlaceFacts DEF TwoGather
<1>4. StrictWeak(B, Range(q))
  OBVIOUS
<1> HIDE DEF q, S, val, N, sq, sr
<1>5. \A k \in 1 .. Len(q) : Tied(B, sq[k], sr[k])
  BY <1>1, <1>2, <1>3, <1>4, SortedTies
<1> QED BY <1>5 DEF q, r, sq, sr

\* Entries that tie only in one file, so the sorted lists are equal.
FiledAs(files, collected, field) == \A p \in Range(files) : Filed(collected[p][field], p)

TiesInFile(B, X) == \A x, y \in X : Tied(B, x, y) => x.file = y.file

LEMMA SortsSame ==
    ASSUME NEW files, NEW others, NEW collected, NEW field,
           TwoGather(files, others, collected, field),
           NEW B, StrictWeak(B, Range(Gather(files, collected, field))),
           TiesInFile(B, Range(Gather(files, collected, field))),
           FiledAs(files, collected, field)
    PROVE  LET q == Gather(files, collected, field)
               r == Gather(others, collected, field)
           IN  Arranged(q, StablePairs(q, B)) = Arranged(r, StablePairs(r, B))
<1> DEFINE q == Gather(files, collected, field)
           r == Gather(others, collected, field)
           S == Places(files, collected, field)
           val == Entry(S, collected, field)
           N == InFileOrder(S)
           sq == Arranged(q, StablePairs(q, B))
           sr == Arranged(r, StablePairs(r, B))
<1>1. PICK g : SortedOnce(sq, g, Len(q), S, val, B, N)
  BY TwoSorts
<1>2. PICK h : SortedOnce(sr, h, Len(q), S, val, B, N)
  BY TwoSorts
<1>3. IsList(sq) /\ IsList(sr) /\ Len(sq) = Len(q) /\ Len(sr) = Len(q)
  BY TwoSorts
<1>4. /\ Maps(val, S, Range(q)) /\ ArePlaces(S)
      /\ \A s \in S : s[1] \in Range(files) /\ val[s] \in Range(collected[s[1]][field])
  <2>1. IsList(q) /\ \E f : Gathered(f, q, S, collected, field)
    BY TwoGathers
  <2> HIDE DEF q
  <2> QED BY <2>1, PlaceFacts DEF TwoGather
<1>5. StrictWeak(B, Range(q)) /\ TiesInFile(B, Range(q))
  OBVIOUS
<1> HIDE DEF q, r, S, val, sq, sr
<1>6. TiesAreOfOneFile(B, S, val)
  <2>1. \A s \in S : val[s] \in Range(q) /\ val[s].file = s[1]
    BY <1>4 DEF Maps, FiledAs, Filed
  <2> QED BY <1>5, <2>1 DEF TiesInFile, TiesAreOfOneFile
<1>7. \A k \in 1 .. Len(q) : sq[k] = sr[k]
  BY <1>1, <1>2, <1>4, <1>5, <1>6, SortedSame
<1>8. sq = [k \in 1 .. Len(q) |-> sq[k]] /\ sr = [k \in 1 .. Len(q) |-> sr[k]]
  BY <1>3, ListAsFunction
<1>9. sq = sr
  BY <1>7, <1>8
<1> QED BY <1>9 DEF q, r, sq, sr

LEMMA SameImports ==
    ASSUME NEW files, NEW others, NEW collected, TwoGather(files, others, collected, "imports"),
           Imported(Gather(files, collected, "imports")),
           Imported(Gather(others, collected, "imports")),
           FiledAs(files, collected, "imports"), NEW at
    PROVE  LET q == Gather(files, collected, "imports")
               r == Gather(others, collected, "imports")
           IN  Arranged(q, ImportPairs(q, at)) = Arranged(r, ImportPairs(r, at))
<1> DEFINE q == Gather(files, collected, "imports")
           r == Gather(others, collected, "imports")
           B == ImportOrder(Range(q), at)
<1>1. Range(r) = Range(q)
  BY TwoGathers
<1>2. /\ StrictWeak(B, Range(q)) /\ ImportPairs(q, at) = StablePairs(q, B)
      /\ \A x, y \in Range(q) : Tied(B, x, y) => x.file = y.file
  BY OrderOfImport
<1>3. ImportPairs(r, at) = StablePairs(r, ImportOrder(Range(r), at))
  BY OrderOfImport
<1>4. ImportOrder(Range(r), at) = B
  BY <1>1
<1> HIDE DEF B
<1>5. TiesInFile(B, Range(q))
  BY <1>2 DEF TiesInFile
<1>6. Arranged(q, StablePairs(q, B)) = Arranged(r, StablePairs(r, B))
  BY <1>2, <1>5, SortsSame
<1> QED BY <1>2, <1>3, <1>4, <1>6

LEMMA SameValues ==
    ASSUME NEW files, NEW others, NEW collected, TwoGather(files, others, collected, "values"),
           Valued(Gather(files, collected, "values")),
           Valued(Gather(others, collected, "values")),
           FiledAs(files, collected, "values"), NEW at
    PROVE  LET q == Gather(files, collected, "values")
               r == Gather(others, collected, "values")
           IN  Arranged(q, ValuePairs(q, at)) = Arranged(r, ValuePairs(r, at))
<1> DEFINE q == Gather(files, collected, "values")
           r == Gather(others, collected, "values")
           B == ValueOrder(Range(q), at)
<1>1. Range(r) = Range(q)
  BY TwoGathers
<1>2. /\ StrictWeak(B, Range(q)) /\ ValuePairs(q, at) = StablePairs(q, B)
      /\ \A x, y \in Range(q) : Tied(B, x, y) => x.file = y.file
  BY OrderOfValue
<1>3. ValuePairs(r, at) = StablePairs(r, ValueOrder(Range(r), at))
  BY OrderOfValue
<1>4. ValueOrder(Range(r), at) = B
  BY <1>1
<1> HIDE DEF B
<1>5. TiesInFile(B, Range(q))
  BY <1>2 DEF TiesInFile
<1>6. Arranged(q, StablePairs(q, B)) = Arranged(r, StablePairs(r, B))
  BY <1>2, <1>5, SortsSame
<1> QED BY <1>2, <1>3, <1>4, <1>6

LEMMA TiedFunctions ==
    ASSUME NEW files, NEW others, NEW collected, TwoGather(files, others, collected, "functions"),
           Functional(Gather(files, collected, "functions")),
           Functional(Gather(others, collected, "functions")), NEW at
    PROVE  LET q == Gather(files, collected, "functions")
               r == Gather(others, collected, "functions")
               sq == Arranged(q, FunctionPairs(q, at))
               sr == Arranged(r, FunctionPairs(r, at))
           IN  /\ IsList(sq) /\ IsList(sr) /\ Len(sr) = Len(sq)
               /\ Range(sq) = Range(q) /\ Range(sr) = Range(q)
               /\ \A k \in 1 .. Len(sq) : sq[k].signature = sr[k].signature
<1> DEFINE q == Gather(files, collected, "functions")
           r == Gather(others, collected, "functions")
           B == FunctionOrder(Range(q), at)
           sq == Arranged(q, StablePairs(q, B))
           sr == Arranged(r, StablePairs(r, B))
<1>1. Range(r) = Range(q)
  BY TwoGathers
<1>2. /\ StrictWeak(B, Range(q)) /\ FunctionPairs(q, at) = StablePairs(q, B)
      /\ \A x, y \in Range(q) : Tied(B, x, y) => x.signature = y.signature
  BY OrderOfFunction
<1>3. FunctionPairs(r, at) = StablePairs(r, FunctionOrder(Range(r), at))
  BY OrderOfFunction
<1>4. FunctionOrder(Range(r), at) = B
  BY <1>1
<1> HIDE DEF B
<1>5. /\ IsList(sq) /\ IsList(sr) /\ Len(sq) = Len(q) /\ Len(sr) = Len(q)
      /\ Range(sq) = Range(q) /\ Range(sr) = Range(q)
  BY <1>2, TwoSorts
<1>6. \A k \in 1 .. Len(q) : Tied(B, sq[k], sr[k])
  BY <1>2, SortsTie
<1> HIDE DEF sq, sr, q, r
<1>7. \A k \in 1 .. Len(q) : sq[k] \in Range(q) /\ sr[k] \in Range(q)
  BY <1>5, ListFacts
<1>8. \A k \in 1 .. Len(sq) : sq[k].signature = sr[k].signature
  BY <1>2, <1>5, <1>6, <1>7
<1>9. sq = Arranged(q, FunctionPairs(q, at)) /\ sr = Arranged(r, FunctionPairs(r, at))
  BY <1>2, <1>3, <1>4 DEF sq, sr
<1> QED BY <1>5, <1>8, <1>9 DEF q, r

LEMMA TiedNamed ==
    ASSUME NEW field, NEW files, NEW others, NEW collected,
           TwoGather(files, others, collected, field),
           Named(Gather(files, collected, field)),
           Named(Gather(others, collected, field)), NEW at
    PROVE  LET q == Gather(files, collected, field)
               r == Gather(others, collected, field)
               sq == Arranged(q, NamedPairs(q, at))
               sr == Arranged(r, NamedPairs(r, at))
           IN  /\ IsList(sq) /\ IsList(sr) /\ Len(sr) = Len(sq)
               /\ Range(sq) = Range(q) /\ Range(sr) = Range(q)
               /\ \A k \in 1 .. Len(sq) : sq[k].name = sr[k].name
<1> DEFINE q == Gather(files, collected, field)
           r == Gather(others, collected, field)
           B == NamedOrder(Range(q), at)
           sq == Arranged(q, StablePairs(q, B))
           sr == Arranged(r, StablePairs(r, B))
<1>1. Range(r) = Range(q)
  BY TwoGathers
<1>2. /\ StrictWeak(B, Range(q)) /\ NamedPairs(q, at) = StablePairs(q, B)
      /\ \A x, y \in Range(q) : Tied(B, x, y) => x.name = y.name
  BY OrderOfNamed
<1>3. NamedPairs(r, at) = StablePairs(r, NamedOrder(Range(r), at))
  BY OrderOfNamed
<1>4. NamedOrder(Range(r), at) = B
  BY <1>1
<1> HIDE DEF B
<1>5. /\ IsList(sq) /\ IsList(sr) /\ Len(sq) = Len(q) /\ Len(sr) = Len(q)
      /\ Range(sq) = Range(q) /\ Range(sr) = Range(q)
  BY <1>2, TwoSorts
<1>6. \A k \in 1 .. Len(q) : Tied(B, sq[k], sr[k])
  BY <1>2, SortsTie
<1> HIDE DEF sq, sr, q, r
<1>7. \A k \in 1 .. Len(q) : sq[k] \in Range(q) /\ sr[k] \in Range(q)
  BY <1>5, ListFacts
<1>8. \A k \in 1 .. Len(sq) : sq[k].name = sr[k].name
  BY <1>2, <1>5, <1>6, <1>7
<1>9. sq = Arranged(q, NamedPairs(q, at)) /\ sr = Arranged(r, NamedPairs(r, at))
  BY <1>2, <1>3, <1>4 DEF sq, sr
<1> QED BY <1>5, <1>8, <1>9 DEF q, r

\* A list that names each element of a set once.
Once(list, X) ==
    /\ IsList(list) /\ Range(list) = X /\ X \subseteq Nat
    /\ \A i, j \in 1 .. Len(list) : list[i] = list[j] => i = j

LEMMA SameFiles ==
    ASSUME NEW X, NEW files, NEW others, Once(files, X), Once(others, X), NEW path
    PROVE  Arranged(files, FilePairs(files, path)) = Arranged(others, FilePairs(others, path))
<1> DEFINE B == FileOrder(X, path)
           N == X \X X
           val == [x \in X |-> x]
           q == Arranged(files, StablePairs(files, B))
           r == Arranged(others, StablePairs(others, B))
<1>1. ASSUME NEW list, Once(list, X)
      PROVE  /\ StrictWeak(B, X) /\ FilePairs(list, path) = StablePairs(list, B)
             /\ \A x, y \in X : Tied(B, x, y) => x = y
             /\ IsList(list) /\ Enumerates(list, Len(list), X)
             /\ LET s == Arranged(list, StablePairs(list, B))
                IN  /\ IsList(s) /\ Len(s) = Len(list) /\ Range(s) = X
                    /\ \E h : SortedOnce(s, h, Len(list), X, val, B, N)
  <2>1. IsList(list) /\ Range(list) = X /\ X \subseteq Nat
    BY <1>1 DEF Once
  <2>2. /\ StrictWeak(B, X) /\ FilePairs(list, path) = StablePairs(list, B)
        /\ \A x, y \in X : Tied(B, x, y) => x = y
    BY <2>1, OrderOfFiles
  <2> HIDE DEF B
  <2> DEFINE n == Len(list)
  <2>3. /\ n \in Nat /\ DOMAIN list = 1 .. n
        /\ \A i \in 1 .. n : list[i] \in X
        /\ \A x \in X : \E i \in 1 .. n : x = list[i]
    BY <2>1, ListFacts
  <2>4. list = [k \in 1 .. n |-> list[k]]
    BY <2>1, ListAsFunction
  <2>5. \A i, j \in 1 .. n : list[i] = list[j] => i = j
    BY <1>1 DEF Once
  <2> HIDE DEF n
  <2>6. list \in [1 .. n -> X]
    BY <2>3, <2>4
  <2>7. Enumerates(list, n, X)
    BY <2>3, <2>5, <2>6 DEF Enumerates
  <2>8. Values(list, list, val) /\ Along(list, n, N)
    BY <2>3 DEF Values, Along, n
  <2> HIDE DEF val, N
  <2>9. \E h : SortedOnce(Arranged(list, StablePairs(list, B)), h, Len(list), X, val, B, N)
    BY <2>1, <2>2, <2>7, <2>8, SortOnce DEF n
  <2>10. Sorted(Arranged(list, StablePairs(list, B)), list, B)
    BY <2>1, <2>2, SortFacts
  <2> QED BY <2>1, <2>2, <2>7, <2>9, <2>10 DEF n, Sorted
<1>2. Len(others) = Len(files)
  <2>1. Cardinality(X) = Len(files)
    BY <1>1, EnumeratesSize
  <2>2. Cardinality(X) = Len(others)
    BY <1>1, EnumeratesSize
  <2> QED BY <2>1, <2>2
<1>3. /\ StrictWeak(B, X)
      /\ \A x, y \in X : Tied(B, x, y) => x = y
      /\ FilePairs(files, path) = StablePairs(files, B)
      /\ FilePairs(others, path) = StablePairs(others, B)
      /\ IsList(q) /\ IsList(r) /\ Len(q) = Len(files) /\ Len(r) = Len(others)
      /\ Range(q) = X /\ Range(r) = X
  BY <1>1
<1>4. PICK g : SortedOnce(q, g, Len(files), X, val, B, N)
  BY <1>1
<1>5. PICK h : SortedOnce(r, h, Len(others), X, val, B, N)
  BY <1>1
<1>6. Maps(val, X, X)
  BY DEF Maps
<1> HIDE DEF B, N, val, q, r
<1>7. \A k \in 1 .. Len(files) : Tied(B, q[k], r[k])
  BY <1>2, <1>3, <1>4, <1>5, <1>6, SortedTies
<1>8. \A k \in 1 .. Len(files) : q[k] \in X /\ r[k] \in X
  BY <1>2, <1>3, ListFacts
<1>9. q = [k \in 1 .. Len(files) |-> q[k]] /\ r = [k \in 1 .. Len(files) |-> r[k]]
  BY <1>2, <1>3, ListAsFunction
<1>10. q = r
  BY <1>3, <1>7, <1>8, <1>9
<1> QED BY <1>3, <1>10 DEF q, r

\* What the scores know of the cursor.
CursorAt ==
    LET current == CurrentFunction(buffer, cursor)
        visible == IF current = Nil THEN <<>>
                   ELSE VisibleIdentifiersAtOffset(current, Clamped(buffer, cursor))
    IN [file      |-> Current,
        receiver  |-> IF current = Nil THEN None ELSE current.receiver,
        types     |-> VisibleTypes(visible),
        functions |-> VisibleFunctions(visible),
        tokens    |-> CursorTokens(buffer, cursor)]

\* What of a context is of the buffer alone.
OfBuffer(c) ==
    LET current == CurrentFunction(buffer, cursor)
    IN /\ c.pkg = buffer.pkg
       /\ c.current = IF current = Nil THEN Nil ELSE FunctionFromDecl(Current, current)
       /\ c.declaration = CurrentDeclaration(Current, buffer, cursor)
       /\ c.visible = IF current = Nil THEN <<>>
                      ELSE VisibleIdentifiersAtOffset(current, Clamped(buffer, cursor))
       /\ c.siblings = SiblingMethods(c.functions, current)

\* A context is the sorted lists of what the files hold.
LEMMA CollectParts ==
    ASSUME NEW order, ~ CollectFails(disk, Current, buffer)
    PROVE  LET c         == Collect(disk, Current, buffer, cursor, order)
               files     == FilesRead(Current, order)
               collected == [p \in Range(files) |-> Read(p)]
               at        == CursorAt
           IN  /\ OfBuffer(c)
               /\ c.files = Arranged(files, FilePairs(files, Current))
               /\ c.functions = Arranged(Gather(files, collected, "functions"),
                                    FunctionPairs(Gather(files, collected, "functions"), at))
               /\ c.imports = Arranged(Gather(files, collected, "imports"),
                                    ImportPairs(Gather(files, collected, "imports"), at))
               /\ c.types = Arranged(Gather(files, collected, "types"),
                                    NamedPairs(Gather(files, collected, "types"), at))
               /\ c.values = Arranged(Gather(files, collected, "values"),
                                    ValuePairs(Gather(files, collected, "values"), at))
               /\ c.interfaces = Arranged(Gather(files, collected, "interfaces"),
                                    NamedPairs(Gather(files, collected, "interfaces"), at))
<1> DEFINE c == Collect(disk, Current, buffer, cursor, order)
           files == FilesRead(Current, order)
           collected == [p \in Range(files) |->
                           CollectFile(p, IF p = Current THEN buffer ELSE disk[p])]
           at == CursorAt
<1>1. collected = [p \in Range(files) |-> Read(p)]
  BY DEF Read
<1>2. OfBuffer(c)
  BY DEF Collect, OfBuffer
<1>3. c.files = Arranged(files, FilePairs(files, Current))
  BY DEF Collect, SliceStable, FilePairs
<1>4. c.functions = Arranged(Gather(files, collected, "functions"),
                        FunctionPairs(Gather(files, collected, "functions"), at))
  BY DEF Collect, SliceStable, FunctionPairs, CursorAt
<1>5. c.imports = Arranged(Gather(files, collected, "imports"),
                      ImportPairs(Gather(files, collected, "imports"), at))
  BY DEF Collect, SliceStable, ImportPairs, CursorAt
<1>6. c.types = Arranged(Gather(files, collected, "types"),
                    NamedPairs(Gather(files, collected, "types"), at))
  BY DEF Collect, SliceStable, NamedPairs, CursorAt
<1>7. c.values = Arranged(Gather(files, collected, "values"),
                     ValuePairs(Gather(files, collected, "values"), at))
  BY DEF Collect, SliceStable, ValuePairs, CursorAt
<1>8. c.interfaces = Arranged(Gather(files, collected, "interfaces"),
                         NamedPairs(Gather(files, collected, "interfaces"), at))
  BY DEF Collect, SliceStable, NamedPairs, CursorAt
<1> HIDE DEF at, c, files, collected
<1> QED BY <1>1, <1>2, <1>3, <1>4, <1>5, <1>6, <1>7, <1>8 DEF c, files, at

\* What is read in one order of the files.
LEMMA ReadFacts ==
    ASSUME Sources, NEW order \in Orders
    PROVE  LET all        == InPackage(disk, buffer.pkg) \cup {Current}
               files      == FilesRead(Current, order)
               collected  == [p \in Range(files) |-> Read(p)]
               got(field) == Gather(files, collected, field)
           IN  /\ Once(files, all) /\ Len(files) = Cardinality(all)
               /\ \A field \in Fields :
                    /\ Gathers(files, collected, field) /\ IsList(got(field))
                    /\ Range(got(field)) = UNION {Range(Read(p)[field]) : p \in all}
                    /\ Len(got(field)) =
                          Cardinality(UNION {{p} \X (DOMAIN Read(p)[field]) : p \in all})
               /\ Imported(got("imports")) /\ Functional(got("functions"))
               /\ Valued(got("values")) /\ Named(got("types")) /\ Named(got("interfaces"))
               /\ FiledAs(files, collected, "imports") /\ FiledAs(files, collected, "values")
<1> DEFINE all == InPackage(disk, buffer.pkg) \cup {Current}
           files == FilesRead(Current, order)
           collected == [p \in Range(files) |-> Read(p)]
           got(field) == Gather(files, collected, field)
<1>1. /\ IsList(files) /\ Range(files) = all /\ all \subseteq Nat
      /\ Len(files) = Cardinality(all)
      /\ \A i, j \in 1 .. Len(files) : files[i] = files[j] => i = j
  BY FilesFacts
<1> HIDE DEF files
<1>2. ASSUME NEW p \in all PROVE p \in Nat /\ IsFile(IF p = Current THEN buffer ELSE disk[p])
  <2>1. p \in Nat
    BY <1>1, <1>2
  <2>2. IsFile(buffer)
    BY DEF Sources, IsSource
  <2>3. p # Current => p \in DOMAIN disk
    BY <1>2 DEF InPackage
  <2>4. p # Current => IsFile(disk[p])
    BY <2>3 DEF Sources, IsSource
  <2> QED BY <2>1, <2>2, <2>4
<1> HIDE DEF all
<1>3. ASSUME NEW p \in all
      PROVE  /\ Imported(Read(p).imports) /\ Functional(Read(p).functions)
             /\ Valued(Read(p).values) /\ Named(Read(p).types) /\ Named(Read(p).interfaces)
             /\ Filed(Read(p).imports, p) /\ Filed(Read(p).values, p)
             /\ \A field \in Fields : IsList(Read(p)[field])
  <2> DEFINE content == IF p = Current THEN buffer ELSE disk[p]
  <2>1. Read(p) = CollectFile(p, content)
    BY DEF Read
  <2>2. p \in Nat /\ IsFile(content)
    BY <1>2
  <2> HIDE DEF content
  <2> QED BY <2>1, <2>2, FileFacts
<1>4. \A p \in Range(files) : collected[p] = Read(p)
  OBVIOUS
<1> HIDE DEF collected
<1>5. ASSUME NEW field \in Fields
      PROVE  /\ Gathers(files, collected, field) /\ IsList(got(field))
             /\ Range(got(field)) = UNION {Range(Read(p)[field]) : p \in all}
             /\ Len(got(field)) = Cardinality(UNION {{p} \X (DOMAIN Read(p)[field]) : p \in all})
  <2>1. Gathers(files, collected, field)
    BY <1>1, <1>3, <1>4 DEF Gathers
  <2>2. /\ IsList(got(field))
        /\ Range(got(field)) = UNION {Range(collected[p][field]) : p \in Range(files)}
        /\ Len(got(field)) =
             Cardinality(UNION {{p} \X (DOMAIN collected[p][field]) : p \in Range(files)})
    <3>1. Holding(got(field), files, collected, field)
      BY <2>1, GatherFacts
    <3> HIDE DEF got
    <3> QED BY <3>1 DEF Holding
  <2>3. UNION {Range(collected[p][field]) : p \in Range(files)}
        = UNION {Range(Read(p)[field]) : p \in all}
    BY <1>1, <1>4
  <2>4. UNION {{p} \X (DOMAIN collected[p][field]) : p \in Range(files)}
        = UNION {{p} \X (DOMAIN Read(p)[field]) : p \in all}
    BY <1>1, <1>4
  <2> HIDE DEF got
  <2> QED BY <2>1, <2>2, <2>3, <2>4
<1> HIDE DEF got
<1>6. /\ "functions" \in Fields /\ "imports" \in Fields /\ "types" \in Fields
      /\ "values" \in Fields /\ "interfaces" \in Fields
  BY DEF Fields
<1>7. /\ Imported(got("imports")) /\ Functional(got("functions")) /\ Valued(got("values"))
      /\ Named(got("types")) /\ Named(got("interfaces"))
  <2>1. Imported(got("imports"))
    <3>1. IsList(got("imports")) /\ Range(got("imports")) = UNION {Range(Read(p).imports) : p \in all}
      BY <1>5, <1>6
    <3>2. \A e \in Range(got("imports")) : \E p \in all : e \in Range(Read(p).imports)
      BY <3>1
    <3> QED BY <1>3, <3>1, <3>2 DEF Imported
  <2>2. Functional(got("functions"))
    <3>1. IsList(got("functions")) /\ Range(got("functions")) = UNION {Range(Read(p).functions) : p \in all}
      BY <1>5, <1>6
    <3>2. \A e \in Range(got("functions")) : \E p \in all : e \in Range(Read(p).functions)
      BY <3>1
    <3> QED BY <1>3, <3>1, <3>2 DEF Functional
  <2>3. Valued(got("values"))
    <3>1. IsList(got("values")) /\ Range(got("values")) = UNION {Range(Read(p).values) : p \in all}
      BY <1>5, <1>6
    <3>2. \A e \in Range(got("values")) : \E p \in all : e \in Range(Read(p).values)
      BY <3>1
    <3> QED BY <1>3, <3>1, <3>2 DEF Valued
  <2>4. Named(got("types"))
    <3>1. IsList(got("types")) /\ Range(got("types")) = UNION {Range(Read(p).types) : p \in all}
      BY <1>5, <1>6
    <3>2. \A e \in Range(got("types")) : \E p \in all : e \in Range(Read(p).types)
      BY <3>1
    <3> QED BY <1>3, <3>1, <3>2 DEF Named
  <2>5. Named(got("interfaces"))
    <3>1. IsList(got("interfaces")) /\ Range(got("interfaces")) = UNION {Range(Read(p).interfaces) : p \in all}
      BY <1>5, <1>6
    <3>2. \A e \in Range(got("interfaces")) : \E p \in all : e \in Range(Read(p).interfaces)
      BY <3>1
    <3> QED BY <1>3, <3>1, <3>2 DEF Named
  <2> QED BY <2>1, <2>2, <2>3, <2>4, <2>5
<1>8. FiledAs(files, collected, "imports") /\ FiledAs(files, collected, "values")
  BY <1>1, <1>3, <1>4 DEF FiledAs
<1>9. Once(files, all)
  BY <1>1 DEF Once
<1> QED BY <1>1, <1>5, <1>7, <1>8, <1>9 DEF all, files, collected, got

\* The package context, whatever the order in which the files were read.
LEMMA ContextFacts ==
    ASSUME IInv, context # NoContext
    PROVE  LET all == InPackage(disk, buffer.pkg) \cup {Current}
           IN  /\ Range(context.files) = all /\ Len(context.files) = Cardinality(all)
               /\ context.files[1] = Current
               /\ \A field \in Fields :
                    /\ IsList(context[field])
                    /\ Range(context[field]) = UNION {Range(Read(p)[field]) : p \in all}
                    /\ Len(context[field]) =
                          Cardinality(UNION {{p} \X (DOMAIN Read(p)[field]) : p \in all})
               /\ \A field \in {"imports", "types", "interfaces"} : OwnFirst(context[field], Current)
<1> DEFINE all == InPackage(disk, buffer.pkg) \cup {Current}
<1>1. PICK order \in Orders : context = Collect(disk, Current, buffer, cursor, order)
  BY DEF IInv, Collected
<1> DEFINE files == FilesRead(Current, order)
           collected == [p \in Range(files) |-> Read(p)]
           got(field) == Gather(files, collected, field)
<1>2. /\ Once(files, all) /\ Len(files) = Cardinality(all)
      /\ \A field \in Fields :
           /\ IsList(got(field))
           /\ Range(got(field)) = UNION {Range(Read(p)[field]) : p \in all}
           /\ Len(got(field)) = Cardinality(UNION {{p} \X (DOMAIN Read(p)[field]) : p \in all})
      /\ Imported(got("imports")) /\ Functional(got("functions")) /\ Valued(got("values"))
      /\ Named(got("types")) /\ Named(got("interfaces"))
  BY <1>1, ReadFacts DEF IInv
<1> DEFINE at == CursorAt
<1>3. /\ at.file = Current
      /\ context.files = Arranged(files, FilePairs(files, Current))
      /\ context.functions = Arranged(got("functions"), FunctionPairs(got("functions"), at))
      /\ context.imports = Arranged(got("imports"), ImportPairs(got("imports"), at))
      /\ context.types = Arranged(got("types"), NamedPairs(got("types"), at))
      /\ context.values = Arranged(got("values"), ValuePairs(got("values"), at))
      /\ context.interfaces = Arranged(got("interfaces"), NamedPairs(got("interfaces"), at))
  <2>1. ~ CollectFails(disk, Current, buffer)
    BY <1>1 DEF Collect
  <2>2. at.file = Current
    BY DEF CursorAt
  <2> HIDE DEF at
  <2> QED BY <1>1, <2>1, <2>2, CollectParts DEF at
<1> HIDE DEF at
<1> HIDE DEF files, collected, got
<1>4. Range(context.files) = all /\ Len(context.files) = Cardinality(all) /\ context.files[1] = Current
  <2>1. IsList(files) /\ Range(files) \subseteq Nat /\ Current \in Range(files)
    BY <1>2 DEF all, Once
  <2> DEFINE r == Arranged(files, FilePairs(files, Current))
  <2>2. Len(r) = Len(files) /\ Range(r) = Range(files) /\ r[1] = Current
    BY <2>1, SortFiles
  <2>3. context.files = r
    BY <1>3
  <2> HIDE DEF r
  <2> QED BY <1>2, <2>2, <2>3 DEF Once
<1> DEFINE Same(field) == /\ IsList(context[field]) /\ Len(context[field]) = Len(got(field))
                          /\ Range(context[field]) = Range(got(field))
<1>5. Same("imports") /\ OwnFirst(context.imports, Current)
  BY <1>2, <1>3, SortImports
<1>6. Same("types") /\ OwnFirst(context.types, Current)
  BY <1>2, <1>3, SortNamed
<1>7. Same("interfaces") /\ OwnFirst(context.interfaces, Current)
  BY <1>2, <1>3, SortNamed
<1>8. Same("functions")
  BY <1>2, <1>3, SortFunctions
<1>9. Same("values")
  BY <1>2, <1>3, SortValues
<1> HIDE DEF Same
<1>10. \A field \in Fields : Same(field)
  BY <1>5, <1>6, <1>7, <1>8, <1>9 DEF Fields
<1>11. \A field \in Fields :
         /\ IsList(context[field])
         /\ Range(context[field]) = UNION {Range(Read(p)[field]) : p \in all}
         /\ Len(context[field]) = Cardinality(UNION {{p} \X (DOMAIN Read(p)[field]) : p \in all})
  BY <1>2, <1>10 DEF Same
<1>12. \A field \in {"imports", "types", "interfaces"} : OwnFirst(context[field], Current)
  BY <1>5, <1>6, <1>7
<1> QED BY <1>4, <1>11, <1>12 DEF all

LEMMA SourceIsBuffer == IInv => BufferIsSource
BY ContextFacts DEF BufferIsSource, Fields

LEMMA OwnFileFirst == IInv => OwnFileSurvivesBudget
<1> SUFFICES ASSUME IInv, context # NoContext, NEW field \in {"imports", "types", "interfaces"},
                    NEW i \in DOMAIN context[field], NEW j \in DOMAIN context[field],
                    i < j, context[field][j].file = Current
             PROVE  context[field][i].file = Current
  BY DEF OwnFileSurvivesBudget
<1>1. IsList(context[field]) /\ OwnFirst(context[field], Current)
  BY ContextFacts DEF Fields
<1>2. DOMAIN context[field] = 1 .. Len(context[field])
  BY <1>1, ListFacts
<1> QED BY <1>1, <1>2 DEF OwnFirst

(***************************************************************************)
(* The context is that of the buffer (collect): the current file is read   *)
(* once, from the editor, and comes first, and every declaration of every  *)
(* file of the package is gathered once, in whatever order the map is      *)
(* ranged over.                                                            *)
(***************************************************************************)
THEOREM ContextOfBuffer == Spec => []BufferIsSource
BY Invariance, SourceIsBuffer, PTL

(***************************************************************************)
(* A full section drops no import, type or interface of the current file   *)
(* while it shows one of another file (importScore, typeScore).            *)
(***************************************************************************)
THEOREM OwnFileKept == Spec => []OwnFileSurvivesBudget
BY Invariance, OwnFileFirst, PTL

-----------------------------------------------------------------------------
(* What is visible at the cursor. *)

\* The function at the cursor is one of the buffer's.
LEMMA CurrentFacts ==
    ASSUME NEW content, IsFile(content), NEW offset, CurrentFunction(content, offset) # Nil
    PROVE  /\ CurrentFunction(content, offset) \in Range(content.decls)
           /\ CurrentFunction(content, offset).tok = "func"
           /\ CurrentFunction(content, offset).body # Nil
<1> DEFINE decls == content.decls
           at == Clamped(content, offset)
           S == {d \in Range(decls) : d.tok = "func" /\ d.body # Nil /\ Holds(d, at)}
           ss == [i \in DOMAIN decls |->
                    IF decls[i].tok = "func" /\ decls[i].body # Nil /\ Holds(decls[i], at)
                    THEN <<decls[i]>> ELSE <<>>]
           list == Filtered(decls, S)
<1>1. IsList(decls)
  BY DEF IsFile
<1>2. FlattenSeq(ss) = list
  <2>1. \A i \in DOMAIN decls :
          decls[i].tok = "func" /\ decls[i].body # Nil /\ Holds(decls[i], at) <=> decls[i] \in S
    <3> HIDE DEF at
    <3> QED BY DEF Range
  <2>2. ss = [i \in DOMAIN decls |-> IF decls[i] \in S THEN <<decls[i]>> ELSE <<>>]
    <3> HIDE DEF S, decls, at
    <3> QED BY <2>1
  <2> QED BY <2>2 DEF Filtered
<1>3. CurrentFunction(content, offset) =
        IF offset < 0 \/ FlattenSeq(ss) = <<>> THEN Nil ELSE Last(FlattenSeq(ss))
  BY DEF CurrentFunction, Those
<1>4. IsList(list) /\ Range(list) = Range(decls) \cap S
  BY <1>1, FilterFacts
<1>5. list # <<>>
  BY <1>2, <1>3
<1> HIDE DEF list, ss
<1>6. CurrentFunction(content, offset) = list[Len(list)]
  BY <1>2, <1>3, <1>5 DEF Last
<1>7. Len(list) \in 1 .. Len(list)
  <2> DEFINE n == Len(list)
  <2>1. n \in Nat /\ n # 0
    BY <1>4, <1>5, ListFacts, EmptySeq DEF IsList
  <2> HIDE DEF n
  <2>2. n \in 1 .. n
    BY <2>1
  <2> QED BY <2>2 DEF n
<1>8. list[Len(list)] \in Range(list)
  BY <1>4, <1>7, ListFacts
<1> QED BY <1>4, <1>6, <1>8

\* With a context and the cursor in a body, the theorems of GoScopeProofs apply.
LEMMA VisibleFacts ==
    ASSUME IInv, InBody
    PROVE  /\ IsFunction(AtCursor) /\ cursor \in Nat /\ Holds(AtCursor.body, cursor)
           /\ context.visible = VisibleIdentifiersAtOffset(AtCursor, cursor)
<1>1. /\ context # NoContext /\ AtCursor # Nil /\ Holds(AtCursor.body, cursor)
      /\ IsSource(buffer) /\ cursor \in 0 .. Len(buffer.text)
  BY DEF IInv, InBody, Sources
<1>2. PICK order \in Orders : context = Collect(disk, Current, buffer, cursor, order)
  BY <1>1 DEF IInv, Collected
<1>3. ~ CollectFails(disk, Current, buffer)
  BY <1>1, <1>2 DEF Collect
<1>4. context.visible = VisibleIdentifiersAtOffset(AtCursor, cursor)
  <2>1. Clamped(buffer, cursor) = cursor
    BY <1>1, SourceText, MinOfTwo DEF Clamped
  <2>2. context.visible = VisibleIdentifiersAtOffset(AtCursor, Clamped(buffer, cursor))
    BY <1>1, <1>2, <1>3 DEF Collect, AtCursor
  <2> QED BY <2>1, <2>2
<1>5. FunctionsAreWhole(buffer) /\ IsFile(buffer)
  BY <1>1, <1>3 DEF CollectFails, IsSource
<1>6. AtCursor \in Range(buffer.decls) /\ AtCursor.tok = "func" /\ AtCursor.body # Nil
  BY <1>1, <1>5, CurrentFacts DEF AtCursor
<1>7. IsFunction(AtCursor)
  BY <1>5, <1>6 DEF FunctionsAreWhole
<1>8. cursor \in Nat
  BY <1>1, SourceText
<1> QED BY <1>1, <1>4, <1>7, <1>8

LEMMA VisibleNamesInScope == IInv => NamesInScope
<1> DEFINE names == {d.id.name : d \in InScope(AtCursor, cursor)}
<1> SUFFICES ASSUME IInv, InBody,
                    NEW i \in DOMAIN context.visible, NEW j \in DOMAIN context.visible
             PROVE  /\ context.visible[i].name \in names
                    /\ context.visible[i].name = context.visible[j].name => i = j
  BY DEF NamesInScope
<1> DEFINE visible == VisibleIdentifiersAtOffset(AtCursor, cursor)
<1>1. /\ IsFunction(AtCursor) /\ cursor \in Nat /\ Holds(AtCursor.body, cursor)
      /\ context.visible = visible
  BY VisibleFacts
<1>2. /\ IsList(visible)
      /\ \A k, l \in 1 .. Len(visible) : visible[k].name = visible[l].name => k = l
      /\ \A x \in Range(visible) : \E v \in InScope(AtCursor, cursor) : v.id = x
  BY <1>1, VisibleAreInScope
<1> HIDE DEF visible
<1>3. i \in 1 .. Len(visible) /\ j \in 1 .. Len(visible) /\ visible[i] \in Range(visible)
  BY <1>1, <1>2, ListFacts
<1>4. PICK v \in InScope(AtCursor, cursor) : v.id = visible[i]
  BY <1>2, <1>3
<1> QED BY <1>1, <1>2, <1>3, <1>4

LEMMA VisibleIsInnermost == IInv => InnermostShown
<1> SUFFICES ASSUME IInv, InBody, ~ NotLookedAt(AtCursor, cursor)
             PROVE  Range(context.visible) = Innermost(AtCursor, cursor)
  BY DEF InnermostShown
<1> QED BY VisibleFacts, VisibleAreInnermost

(***************************************************************************)
(* No name is offered as visible outside the scope of every declaration of *)
(* it, and none is offered twice (visibleIdentifiersAtOffset), in whatever *)
(* function and at whatever offset of its body the cursor is.              *)
(***************************************************************************)
THEOREM VisibleInScope == Spec => []NamesInScope
BY Invariance, VisibleNamesInScope, PTL

(***************************************************************************)
(* Where the code looks, the visible identifiers are the variables in      *)
(* scope, each with the type of its innermost declaration.                 *)
(***************************************************************************)
THEOREM InnermostIsShown == Spec => []InnermostShown
BY Invariance, VisibleIsInnermost, PTL

-----------------------------------------------------------------------------
(* What the prompt keeps. *)

\* A section drops an entry only when it says that it omits some.
LEMMA SectionFacts ==
    ASSUME NEW list, IsList(list), NEW x \in Range(list)
    PROVE  x \in Range(Section(list).kept) \/ Section(list).omitted > 0
<1> DEFINE max == WithDefaults(Budget)
           n == Len(list)
<1>1. max \in Int
  BY ContextAssumption DEF WithDefaults
<1>2. n \in Nat /\ list \in Seq(Range(list))
  BY ListFacts DEF IsList
<1>3. Section(list).kept = SubSeq(list, 1, Min({n, max})) /\ Section(list).omitted = Max({0, n - max})
  BY DEF Section
<1> HIDE DEF max, n
<1>4. CASE n > max
  <2> DEFINE zero == 0
             more == n - max
  <2>1. zero \in Int /\ more \in Int /\ more > zero
    BY <1>1, <1>2, <1>4
  <2>2. Section(list).omitted = Max({zero, more})
    BY <1>3
  <2> HIDE DEF zero, more
  <2>3. Max({zero, more}) = IF zero <= more THEN more ELSE zero
    BY <2>1, MaxOfTwo
  <2>4. Section(list).omitted = more /\ more > zero
    BY <2>1, <2>2, <2>3
  <2> QED BY <2>4 DEF zero
<1>5. CASE ~ (n > max)
  <2>1. n \in Int
    BY <1>2
  <2>2. Min({n, max}) = n
    BY <1>1, <1>5, <2>1, MinOfTwo
  <2>3. SubSeq(list, 1, n) = list
    BY <1>2, SubSeqFull DEF n
  <2> QED BY <1>3, <2>2, <2>3
<1> QED BY <1>1, <1>2, <1>4, <1>5

\* The part of a text that is left when n tokens of it are cut.
LEMMA FromFacts ==
    ASSUME NEW X, NEW s \in Seq(X), NEW n \in 0 .. Len(s)
    PROVE  Len(From(s, n)) = Len(s) - n /\ From(s, 0) = s
<1>1. Len(s) \in Nat
  BY LenProperties
<1> DEFINE i == n + 1
<1>2. i \in Nat \ {0} /\ Len(s) \in Nat /\ Len(s) <= Len(s) /\ n \in Nat /\ n <= Len(s)
  BY <1>1
<1>3. Len(SubSeq(s, i, Len(s))) = IF i <= Len(s) THEN Len(s) - i + 1 ELSE 0
  <2> HIDE DEF i
  <2> QED BY <1>2, Part
<1>4. Len(SubSeq(s, i, Len(s))) = Len(s) - n
  <2> DEFINE l == Len(s)
             m == Len(SubSeq(s, i, Len(s)))
  <2>1. m = IF i <= l THEN l - i + 1 ELSE 0
    BY <1>3
  <2>2. l \in Nat /\ n \in Nat /\ n <= l
    BY <1>2
  <2> HIDE DEF l, m
  <2>3. m = l - n
    BY <2>1, <2>2
  <2> QED BY <2>3 DEF l, m
<1>5. SubSeq(s, 1, Len(s)) = s
  BY SubSeqFull
<1>6. From(s, n) = SubSeq(s, i, Len(s))
  BY DEF From
<1>7. From(s, 0) = SubSeq(s, 1, Len(s))
  <2>1. 0 + 1 = 1
    OBVIOUS
  <2> QED BY <2>1 DEF From
<1> HIDE DEF i
<1> QED BY <1>4, <1>5, <1>6, <1>7

LEMMA TextKept == IInv => PromptKeepsText
<1> SUFFICES ASSUME IInv, prompt # Nil
             PROVE  LET window == AroundCursor(buffer.text, cursor, WindowBytes)
                        start  == cursor - Len(window.prefix)
                        cut    == Len(window.prefix) - Len(prompt.prefix)
                    IN /\ prompt.prefix = From(window.prefix, cut)
                       /\ window.prefix \o window.suffix =
                            SubSeq(buffer.text, start + 1, cursor + Len(window.suffix))
                       /\ cut > 0 =>
                            /\ start + SkipSpace(window.prefix, 0) = buffer.clause =>
                                 start + cut <= buffer.header
                            /\ prompt.package # <<>>
                            /\ \A imp \in Range(buffer.imports) :
                                 \/ [path |-> imp, file |-> Current] \in
                                       Range(prompt.package[1].imports.kept)
                                 \/ prompt.package[1].imports.omitted > 0
  BY DEF PromptKeepsText
<1> DEFINE window == AroundCursor(buffer.text, cursor, WindowBytes)
           w      == window.prefix
           cut    == Len(w) - Len(prompt.prefix)
<1>1. IsSource(buffer) /\ buffer.text \in Seq(Int) /\ cursor \in 0 .. Len(buffer.text)
      /\ Len(buffer.text) \in Nat /\ WindowBytes \in Int
  BY SourceText, ContextAssumption DEF IInv, Sources
<1>2. prompt = Build(context, buffer.text, cursor)
  BY DEF IInv, Prompted
<1>3. /\ KeepsPreamble(context) => prompt.prefix = w
      /\ ~ KeepsPreamble(context) => prompt.prefix = TrimPackageImportPreamble(w)
      /\ context # NoContext => prompt.package = <<PackageSections(context)>>
  BY <1>2 DEF Build
<1>4. PICK start \in 0 .. cursor, end \in 0 .. Len(buffer.text) :
        /\ cursor <= end
        /\ w = SubSeq(buffer.text, start + 1, cursor)
        /\ w \in Seq(Int) /\ Len(w) = cursor - start
        /\ \A k \in 1 .. cursor - start : w[k] = buffer.text[start + k]
        /\ window.suffix \in Seq(Int) /\ Len(window.suffix) = end - cursor
        /\ w \o window.suffix = SubSeq(buffer.text, start + 1, end)
  <2>1. \E start \in 0 .. cursor, end \in 0 .. Len(buffer.text) :
           Windowed(window, Int, buffer.text, cursor, start, end)
    BY <1>1, WindowFacts
  <2> HIDE DEF window
  <2> QED BY <2>1 DEF Windowed
<1> HIDE DEF window
<1>5. cursor - Len(w) = start /\ cursor + Len(window.suffix) = end
  BY <1>1, <1>4
<1>6. w \o window.suffix = SubSeq(buffer.text, cursor - Len(w) + 1, cursor + Len(window.suffix))
  BY <1>4, <1>5
<1> HIDE DEF w
<1>7. Len(w) \in Nat /\ 0 \in 0 .. Len(w)
  BY <1>4, LenProperties
<1>8. CASE KeepsPreamble(context)
  <2>1. prompt.prefix = w /\ cut = 0
    BY <1>3, <1>7, <1>8
  <2>2. From(w, 0) = w
    BY <1>4, <1>7, FromFacts
  <2>3. prompt.prefix = From(w, cut) /\ ~ (cut > 0)
    BY <2>1, <2>2
  <2> HIDE DEF cut
  <2> QED BY <1>6, <2>3 DEF cut, w, window
<1>9. CASE ~ KeepsPreamble(context)
  <2>1. context # NoContext
    BY <1>9 DEF KeepsPreamble
  <2>2. buffer.valid
    <3>1. PICK order \in Orders : context = Collect(disk, Current, buffer, cursor, order)
      BY <2>1 DEF IInv, Collected
    <3> QED BY <2>1, <3>1 DEF Collect, CollectFails
  <2>3. StandsAt(w, buffer, start)
    <3>1. start \in Nat /\ start + Len(w) = cursor /\ cursor <= Len(buffer.text)
      BY <1>1, <1>4
    <3>2. start + Len(w) <= Len(buffer.text)
      BY <3>1
    <3>3. \A k \in 1 .. Len(w) : w[k] = buffer.text[start + k]
      BY <1>4
    <3>4. HeaderIsWhole(buffer)
      BY <1>1, <2>2 DEF IsSource
    <3> QED BY <1>1, <1>4, <3>1, <3>2, <3>3, <3>4 DEF StandsAt
  <2>4. PICK c \in 0 .. Len(w) : /\ TrimPackageImportPreamble(w) = From(w, c)
                                 /\ c > 0 /\ start + SkipSpace(w, 0) = buffer.clause =>
                                       start + c <= buffer.header
    BY <2>3, PreambleInHeader
  <2>5. prompt.prefix = From(w, c) /\ Len(From(w, c)) = Len(w) - c
    BY <1>3, <1>4, <1>9, <2>4, FromFacts
  <2>6. cut = c
    BY <1>7, <2>5
  <2>7. cut > 0 /\ (cursor - Len(w)) + SkipSpace(w, 0) = buffer.clause =>
           (cursor - Len(w)) + cut <= buffer.header
    <3> DEFINE skipped == SkipSpace(w, 0)
    <3>1. cut > 0 /\ start + skipped = buffer.clause => start + cut <= buffer.header
      BY <2>4, <2>6
    <3> HIDE DEF cut, skipped
    <3> QED BY <1>5, <3>1 DEF skipped
  <2>8. prompt.package = <<PackageSections(context)>>
    BY <1>3, <2>1
  <2>9. prompt.package # <<>> /\ prompt.package[1].imports = Section(context.imports)
    <3>1. PackageSections(context).imports = Section(context.imports)
      BY DEF PackageSections, Lines
    <3>2. prompt.package # <<>> /\ prompt.package[1] = PackageSections(context)
      BY <2>8
    <3> QED BY <3>1, <3>2
  <2>10. ASSUME NEW imp \in Range(buffer.imports)
         PROVE  \/ [path |-> imp, file |-> Current] \in Range(prompt.package[1].imports.kept)
                \/ prompt.package[1].imports.omitted > 0
    <3> DEFINE entry == [path |-> imp, file |-> Current]
    <3>1. Current \in Nat /\ IsFile(buffer)
      BY <1>1, ContextAssumption DEF IsSource
    <3>2. Read(Current) = CollectFile(Current, buffer)
      BY DEF Read
    <3>3. entry \in Range(Read(Current).imports)
      BY <3>1, <3>2, ImportsFacts
    <3>4. IsList(context.imports)
          /\ Range(context.imports) =
               UNION {Range(Read(p).imports) : p \in InPackage(disk, buffer.pkg) \cup {Current}}
      <4>1. "imports" \in Fields
        BY DEF Fields
      <4> QED BY <2>1, <4>1, ContextFacts
    <3> HIDE DEF entry
    <3>5. entry \in Range(context.imports)
      BY <3>3, <3>4
    <3> QED BY <2>9, <3>4, <3>5, SectionFacts DEF entry
  <2>11. prompt.prefix = From(w, cut)
    BY <2>5, <2>6
  <2> HIDE DEF cut
  <2> QED BY <1>6, <2>7, <2>9, <2>10, <2>11 DEF cut, w, window
<1> QED BY <1>8, <1>9

(***************************************************************************)
(* The prompt shows the text around the cursor, whatever the window: what  *)
(* is cut, at the front, goes only where the buffer's imports are in the   *)
(* prompt or counted as omitted, and from a window that begins with the    *)
(* file's own package clause only tokens of the header are cut             *)
(* (trimPackageImportPreamble).                                            *)
(***************************************************************************)
THEOREM TextKeptInPrompt == Spec => []PromptKeepsText
BY Invariance, TextKept, PTL

\* The suffix of a prompt is a part of the buffer.
LEMMA PromptSuffix ==
    ASSUME IInv, prompt # Nil
    PROVE  prompt.suffix \in Seq(Int) /\ Len(prompt.suffix) \in Nat
<1>1. /\ buffer.text \in Seq(Int) /\ cursor \in 0 .. Len(buffer.text)
  BY SourceText DEF IInv, Sources
<1>2. prompt.suffix = AroundCursor(buffer.text, cursor, WindowBytes).suffix
  BY DEF IInv, Prompted, Build
<1>3. AroundCursor(buffer.text, cursor, WindowBytes).suffix \in Seq(Int)
  BY <1>1, WindowFacts, ContextAssumption
<1> QED BY <1>2, <1>3, LenProperties

LEMMA EchoStep ==
    ASSUME IInv, prompt # Nil, NEW n \in 1 .. Min({EchoBytes, Len(prompt.suffix)}),
           Complete(SubSeq(prompt.suffix, 1, n)),
           {SubSeq(prompt.suffix, 1, n)[1], SubSeq(prompt.suffix, 1, n)[n]}
               \cap (Blanks \cup {Tick}) = {},
           ~ IsPrefix(Fence, SubSeq(prompt.suffix, 1, n))
    PROVE  items' = <<>>
<1> DEFINE suffix == prompt.suffix
<1>1. suffix \in Seq(Int) /\ Len(suffix) \in Nat /\ EchoBytes \in Nat
  BY PromptSuffix, ContextAssumption
<1>2. n \in 1 .. Len(suffix)
  <2>1. n \in 1 .. Min({EchoBytes, Len(suffix)})
    OBVIOUS
  <2> HIDE DEF suffix
  <2>2. Min({EchoBytes, Len(suffix)}) = IF EchoBytes <= Len(suffix) THEN EchoBytes ELSE Len(suffix)
    BY <1>1, MinOfTwo
  <2> QED BY <1>1, <2>1, <2>2
<1>3. items' = Items(SubSeq(suffix, 1, n), suffix)
  BY DEF Complete
<1>4. /\ {SubSeq(suffix, 1, n)[1], SubSeq(suffix, 1, n)[n]} \cap (Blanks \cup {Tick}) = {}
      /\ ~ IsPrefix(Fence, SubSeq(suffix, 1, n))
  OBVIOUS
<1> HIDE DEF suffix
<1> QED BY <1>1, <1>2, <1>3, <1>4, EchoIsEmpty

(***************************************************************************)
(* removeSuffixOverlap: an answer that only repeats what follows the       *)
(* cursor, code at both of its ends and no fence, shows nothing.           *)
(***************************************************************************)
THEOREM EchoesDropped == Spec => EchoAddsNothing
<1>1. IInv /\ [Next]_vars =>
         [prompt # Nil =>
            \A n \in 1..Min({EchoBytes, Len(prompt.suffix)}) :
                LET echo == SubSeq(prompt.suffix, 1, n)
                IN /\ {echo[1], echo[n]} \cap (Blanks \cup {Tick}) = {}
                   /\ ~ IsPrefix(Fence, echo)
                   /\ Complete(echo)
                   => items' = <<>>]_vars
  BY EchoStep
<1> QED BY <1>1, Invariance, PTL DEF EchoAddsNothing, Spec
-----------------------------------------------------------------------------
(* The prompt, whatever the order in which the files were read. *)

LEMMA SomeSeqOfSet ==
    ASSUME NEW S, IsFiniteSet(S)
    PROVE  SetToSeq(S) \in SetToSeqs(S)
<1>1. PICK n \in Nat : ExistsBijection(1 .. n, S)
  BY FS_NatBijection
<1>2. Cardinality(S) = n
  BY <1>1, FS_CountingElements
<1>3. PICK f : f \in Bijection(1 .. n, S)
  BY <1>1 DEF ExistsBijection
<1>4. \E g \in [1 .. Cardinality(S) -> S] : IsInjective(g)
  BY <1>2, <1>3 DEF Bijection, Injection
<1> DEFINE s == SetToSeq(S)
<1>5. s \in [1 .. Cardinality(S) -> S] /\ IsInjective(s)
  BY <1>4 DEF SetToSeq
<1> HIDE DEF s
<1>6. s \in SetToSeqs(S)
  BY <1>5 DEF SetToSeqs, IsInjective
<1> QED BY <1>6 DEF s

\* The functions at the same place of both lists have the same signature.
Alike(q, r) ==
    /\ IsList(q) /\ IsList(r) /\ Len(r) = Len(q)
    /\ \A k \in 1 .. Len(q) : q[k].signature = r[k].signature

LEMMA AlikeConcat ==
    ASSUME NEW q, NEW r, Alike(q, r), NEW s, NEW t, Alike(s, t)
    PROVE  Alike(q \o s, r \o t)
<1> DEFINE X == Range(q) \cup Range(s) \cup Range(r) \cup Range(t)
           u == q \o s
           v == r \o t
<1>1. IsList(q) /\ IsList(r) /\ IsList(s) /\ IsList(t) /\ Len(r) = Len(q) /\ Len(t) = Len(s)
  BY DEF Alike
<1>2. q \in Seq(X) /\ r \in Seq(X) /\ s \in Seq(X) /\ t \in Seq(X)
  BY <1>1, SeqMonotonic DEF IsList
<1> HIDE DEF X
<1>3. /\ Len(u) = Len(q) + Len(s)
      /\ \A i \in 1 .. Len(q) + Len(s) : u[i] = IF i <= Len(q) THEN q[i] ELSE s[i - Len(q)]
  BY <1>2, ConcatProperties
<1>4. /\ Len(v) = Len(r) + Len(t)
      /\ \A i \in 1 .. Len(r) + Len(t) : v[i] = IF i <= Len(r) THEN r[i] ELSE t[i - Len(r)]
  BY <1>2, ConcatProperties
<1>5. IsList(u) /\ IsList(v)
  BY <1>1, ConcatList
<1> HIDE DEF u, v
<1>6. Len(q) \in Nat /\ Len(s) \in Nat
  BY <1>1, ListFacts
<1>7. ASSUME NEW i \in 1 .. Len(q) + Len(s) PROVE u[i].signature = v[i].signature
  <2>1. CASE i <= Len(q)
    <3>1. i \in 1 .. Len(q) /\ u[i] = q[i] /\ v[i] = r[i]
      BY <1>1, <1>3, <1>4, <1>6, <2>1
    <3> QED BY <3>1 DEF Alike
  <2>2. CASE ~ (i <= Len(q))
    <3>1. i - Len(q) \in 1 .. Len(s)
      BY <1>6, <2>2
    <3>2. u[i] = s[i - Len(q)] /\ v[i] = t[i - Len(q)]
      BY <1>1, <1>3, <1>4, <2>2
    <3> QED BY <3>1, <3>2 DEF Alike
  <2> QED BY <2>1, <2>2
<1>8. Alike(u, v)
  BY <1>1, <1>3, <1>4, <1>5, <1>7 DEF Alike
<1> QED BY <1>8 DEF u, v

AllAlike(ss, tt, n) == \A i \in 1 .. n : Alike(ss[i], tt[i])

LEMMA AlikeFlat ==
    ASSUME NEW n, NEW ss, NEW tt, Lists(ss, n), Lists(tt, n), AllAlike(ss, tt, n)
    PROVE  Alike(FlattenSeq(ss), FlattenSeq(tt))
<1>1. /\ n \in Nat /\ ss = [i \in 1 .. n |-> ss[i]] /\ tt = [i \in 1 .. n |-> tt[i]]
      /\ \A i \in 1 .. n : Alike(ss[i], tt[i])
  BY DEF Lists, AllAlike
<1>2. IsList(ss) /\ Len(ss) = n /\ IsList(tt) /\ Len(tt) = n
  BY <1>1, ListOfFunction
<1>3. CASE n = 0
  <2>1. FlattenSeq(ss) = ss /\ FlattenSeq(tt) = tt
    BY <1>2, <1>3 DEF FlattenSeq
  <2> QED BY <1>2, <1>3, <2>1 DEF Alike
<1>4. CASE n # 0
  <2>1. n \in Nat \ {0}
    BY <1>1, <1>4
  <2>2. PICK f : /\ FlattenSeq(ss) = f[n] /\ f[1] = ss[1]
                 /\ \A i \in 2 .. n : f[i] = f[i - 1] \o ss[i]
    BY <1>2, <2>1, FlattenSteps, Zenon
  <2>3. PICK g : /\ FlattenSeq(tt) = g[n] /\ g[1] = tt[1]
                 /\ \A i \in 2 .. n : g[i] = g[i - 1] \o tt[i]
    BY <1>2, <2>1, FlattenSteps, Zenon
  <2> DEFINE S == {i \in 0 .. n : i = 0 \/ Alike(f[i], g[i])}
  <2>4. 0 \in S
    BY <1>1
  <2>5. ASSUME NEW m \in 1 .. n, m - 1 \in S PROVE m \in S
    <3>1. m \in 0 .. n
      BY <1>1
    <3>2. CASE m = 1
      BY <1>1, <2>2, <2>3, <3>1, <3>2
    <3>3. CASE m # 1
      <4>1. m - 1 # 0 /\ m \in 2 .. n
        BY <3>3
      <4>2. Alike(f[m - 1], g[m - 1]) /\ Alike(ss[m], tt[m])
        BY <1>1, <2>5, <4>1
      <4>3. Alike(f[m - 1] \o ss[m], g[m - 1] \o tt[m])
        BY <4>2, AlikeConcat
      <4> QED BY <2>2, <2>3, <3>1, <4>1, <4>3
    <3> QED BY <3>2, <3>3
  <2>6. n \in S
    <3> HIDE DEF S
    <3>1. n \in 0 .. n
      BY <1>1
    <3> QED BY <1>1, <2>4, <2>5, <3>1, Induction
  <2> QED BY <1>4, <2>2, <2>3, <2>6
<1> QED BY <1>3, <1>4

KeptAlike(q, r, S) == \A k \in 1 .. Len(q) : q[k] \in S <=> r[k] \in S

LEMMA AlikeFiltered ==
    ASSUME NEW q, NEW r, Alike(q, r), NEW S, KeptAlike(q, r, S)
    PROVE  Alike(Filtered(q, S), Filtered(r, S))
<1> DEFINE n == Len(q)
           ss == [i \in DOMAIN q |-> IF q[i] \in S THEN <<q[i]>> ELSE <<>>]
           tt == [i \in DOMAIN r |-> IF r[i] \in S THEN <<r[i]>> ELSE <<>>]
<1>1. /\ n \in Nat /\ DOMAIN q = 1 .. n /\ DOMAIN r = 1 .. n
      /\ \A k \in 1 .. n : q[k].signature = r[k].signature
  BY ListFacts DEF Alike
<1>2. \A k \in 1 .. n : q[k] \in S <=> r[k] \in S
  BY DEF KeptAlike
<1> HIDE DEF n
<1>3. ss = [i \in 1 .. n |-> ss[i]] /\ tt = [i \in 1 .. n |-> tt[i]]
  BY <1>1
<1>4. \A i \in 1 .. n : /\ ss[i] = IF q[i] \in S THEN <<q[i]>> ELSE <<>>
                        /\ tt[i] = IF r[i] \in S THEN <<r[i]>> ELSE <<>>
  BY <1>1
<1> HIDE DEF ss, tt
<1>5. Alike(<<>>, <<>>)
  BY EmptySeq DEF Alike, IsList
<1>6. ASSUME NEW x, NEW y, x.signature = y.signature PROVE Alike(<<x>>, <<y>>)
  <2>1. IsList(<<x>>) /\ IsList(<<y>>)
    BY DEF IsList, Range
  <2>2. Len(<<x>>) = 1 /\ Len(<<y>>) = 1
    OBVIOUS
  <2>3. \A k \in 1 .. 1 : <<x>>[k].signature = <<y>>[k].signature
    BY <1>6
  <2> QED BY <2>1, <2>2, <2>3 DEF Alike
<1>7. \A i \in 1 .. n : Alike(ss[i], tt[i])
  BY <1>1, <1>2, <1>4, <1>5, <1>6
<1>8. Lists(ss, n) /\ Lists(tt, n)
  BY <1>1, <1>3, <1>7 DEF Lists, Alike
<1>9. AllAlike(ss, tt, n)
  BY <1>7 DEF AllAlike
<1>10. Alike(FlattenSeq(ss), FlattenSeq(tt))
  BY <1>8, <1>9, AlikeFlat
<1> QED BY <1>10 DEF ss, tt, Filtered

(***************************************************************************)
(* Go's rule for one package: a type is declared once, and so is an        *)
(* interface; two functions that read the same are methods of the same     *)
(* type.  A directory that holds a declaration once per platform breaks    *)
(* it, as collect does not look at build constraints.                      *)
(***************************************************************************)
Declared(field) ==
    UNION {Range(Read(p)[field]) : p \in InPackage(disk, buffer.pkg) \cup {Current}}

OneDeclaration ==
    /\ \A x, y \in Declared("types") : x.name = y.name => x.kind = y.kind
    /\ \A x, y \in Declared("interfaces") : x.name = y.name => x = y
    /\ \A x, y \in Declared("functions") : x.signature = y.signature => x.receiver = y.receiver

\* A context is told from the empty one that an error leaves.
LEMMA ContextIsSome ==
    ASSUME ~ CollectFails(disk, Current, buffer), NEW order
    PROVE  Collect(disk, Current, buffer, cursor, order) # NoContext
<1>1. "files" \in DOMAIN Collect(disk, Current, buffer, cursor, order)
  BY DEF Collect
<1>2. "files" \notin DOMAIN NoContext
  BY DEF NoContext
<1> QED BY <1>1, <1>2

\* The lists of a context, and what is written of them.
SameLists(c, d) ==
    /\ c.files = d.files /\ c.imports = d.imports
    /\ c.values = d.values /\ c.interfaces = d.interfaces
    /\ Alike(c.functions, d.functions)
    /\ Range(c.functions) = Declared("functions") /\ Range(d.functions) = Declared("functions")
    /\ IsList(c.types) /\ IsList(d.types) /\ Len(d.types) = Len(c.types)
    /\ \A k \in 1 .. Len(c.types) :
         c.types[k].name = d.types[k].name /\ c.types[k].kind = d.types[k].kind

LEMMA ListsInAnyOrder ==
    ASSUME Sources, OneDeclaration, ~ CollectFails(disk, Current, buffer),
           NEW order \in Orders, NEW other \in Orders
    PROVE  SameLists(Collect(disk, Current, buffer, cursor, order),
                     Collect(disk, Current, buffer, cursor, other))
<1> DEFINE all == InPackage(disk, buffer.pkg) \cup {Current}
           c == Collect(disk, Current, buffer, cursor, order)
           d == Collect(disk, Current, buffer, cursor, other)
           files == FilesRead(Current, order)
           others == FilesRead(Current, other)
           collected == [p \in Range(files) |-> Read(p)]
           got(field) == Gather(files, collected, field)
           oth(field) == Gather(others, collected, field)
           at == CursorAt
<1>1. /\ Once(files, all)
      /\ \A field \in Fields :
           /\ Gathers(files, collected, field)
           /\ Range(got(field)) = UNION {Range(Read(p)[field]) : p \in all}
      /\ Imported(got("imports")) /\ Functional(got("functions"))
      /\ Valued(got("values")) /\ Named(got("types")) /\ Named(got("interfaces"))
      /\ FiledAs(files, collected, "imports") /\ FiledAs(files, collected, "values")
  BY ReadFacts
<1>2. Once(others, all)
  BY ReadFacts
<1>3. [p \in Range(others) |-> Read(p)] = collected
  <2>1. Range(files) = all /\ Range(others) = all
    BY <1>1, <1>2 DEF Once
  <2> HIDE DEF files, others, all
  <2> QED BY <2>1
<1>4. /\ \A field \in Fields : Gathers(others, collected, field)
      /\ Imported(oth("imports")) /\ Functional(oth("functions"))
      /\ Valued(oth("values")) /\ Named(oth("types")) /\ Named(oth("interfaces"))
  <2> DEFINE again == [p \in Range(others) |-> Read(p)]
  <2>1. /\ \A field \in Fields : Gathers(others, again, field)
        /\ Imported(Gather(others, again, "imports"))
        /\ Functional(Gather(others, again, "functions"))
        /\ Valued(Gather(others, again, "values")) /\ Named(Gather(others, again, "types"))
        /\ Named(Gather(others, again, "interfaces"))
    BY ReadFacts
  <2>2. again = collected
    BY <1>3
  <2> HIDE DEF again, collected, others
  <2> QED BY <2>1, <2>2
<1>5. /\ c.files = Arranged(files, FilePairs(files, Current))
      /\ c.functions = Arranged(got("functions"), FunctionPairs(got("functions"), at))
      /\ c.imports = Arranged(got("imports"), ImportPairs(got("imports"), at))
      /\ c.types = Arranged(got("types"), NamedPairs(got("types"), at))
      /\ c.values = Arranged(got("values"), ValuePairs(got("values"), at))
      /\ c.interfaces = Arranged(got("interfaces"), NamedPairs(got("interfaces"), at))
  BY CollectParts
<1>6. /\ d.files = Arranged(others, FilePairs(others, Current))
      /\ d.functions = Arranged(oth("functions"), FunctionPairs(oth("functions"), at))
      /\ d.imports = Arranged(oth("imports"), ImportPairs(oth("imports"), at))
      /\ d.types = Arranged(oth("types"), NamedPairs(oth("types"), at))
      /\ d.values = Arranged(oth("values"), ValuePairs(oth("values"), at))
      /\ d.interfaces = Arranged(oth("interfaces"), NamedPairs(oth("interfaces"), at))
  <2> DEFINE again == [p \in Range(others) |-> Read(p)]
             new(field) == Gather(others, again, field)
  <2>1. /\ d.files = Arranged(others, FilePairs(others, Current))
        /\ d.functions = Arranged(new("functions"), FunctionPairs(new("functions"), at))
        /\ d.imports = Arranged(new("imports"), ImportPairs(new("imports"), at))
        /\ d.types = Arranged(new("types"), NamedPairs(new("types"), at))
        /\ d.values = Arranged(new("values"), ValuePairs(new("values"), at))
        /\ d.interfaces = Arranged(new("interfaces"), NamedPairs(new("interfaces"), at))
    BY CollectParts
  <2>2. again = collected
    BY <1>3
  <2> HIDE DEF again, collected, others, d, at
  <2> QED BY <2>1, <2>2
<1> HIDE DEF c, d, files, others, collected, at
<1>7. \A field \in Fields : TwoGather(files, others, collected, field)
  BY <1>1, <1>2, <1>4 DEF TwoGather, Once
<1>8. \A field \in Fields : Range(got(field)) = Declared(field)
  BY <1>1 DEF Declared
<1> HIDE DEF got, oth, all
<1>9. /\ "functions" \in Fields /\ "imports" \in Fields /\ "types" \in Fields
      /\ "values" \in Fields /\ "interfaces" \in Fields
  BY DEF Fields
<1>10. c.files = d.files
  BY <1>1, <1>2, <1>5, <1>6, SameFiles
<1>11. c.imports = d.imports
  <2>1. Arranged(got("imports"), ImportPairs(got("imports"), at))
        = Arranged(oth("imports"), ImportPairs(oth("imports"), at))
    BY <1>1, <1>4, <1>7, <1>9, SameImports DEF got, oth
  <2> QED BY <1>5, <1>6, <2>1
<1>12. c.values = d.values
  <2>1. Arranged(got("values"), ValuePairs(got("values"), at))
        = Arranged(oth("values"), ValuePairs(oth("values"), at))
    BY <1>1, <1>4, <1>7, <1>9, SameValues DEF got, oth
  <2> QED BY <1>5, <1>6, <2>1
<1>13. /\ Alike(c.functions, d.functions)
       /\ Range(c.functions) = Declared("functions") /\ Range(d.functions) = Declared("functions")
  <2> DEFINE sq == Arranged(got("functions"), FunctionPairs(got("functions"), at))
             sr == Arranged(oth("functions"), FunctionPairs(oth("functions"), at))
  <2>1. /\ IsList(sq) /\ IsList(sr) /\ Len(sr) = Len(sq)
        /\ Range(sq) = Range(got("functions")) /\ Range(sr) = Range(got("functions"))
        /\ \A k \in 1 .. Len(sq) : sq[k].signature = sr[k].signature
    BY <1>1, <1>4, <1>7, <1>9, TiedFunctions DEF got, oth
  <2>2. c.functions = sq /\ d.functions = sr
    BY <1>5, <1>6
  <2> HIDE DEF sq, sr
  <2> QED BY <1>8, <1>9, <2>1, <2>2 DEF Alike
<1>14. c.interfaces = d.interfaces
  <2> DEFINE sq == Arranged(got("interfaces"), NamedPairs(got("interfaces"), at))
             sr == Arranged(oth("interfaces"), NamedPairs(oth("interfaces"), at))
  <2>1. /\ IsList(sq) /\ IsList(sr) /\ Len(sr) = Len(sq)
        /\ Range(sq) = Range(got("interfaces")) /\ Range(sr) = Range(got("interfaces"))
        /\ \A k \in 1 .. Len(sq) : sq[k].name = sr[k].name
    BY <1>1, <1>4, <1>7, <1>9, TiedNamed DEF got, oth
  <2>2. c.interfaces = sq /\ d.interfaces = sr
    BY <1>5, <1>6
  <2> HIDE DEF sq, sr
  <2>3. \A k \in 1 .. Len(sq) : sq[k] \in Declared("interfaces") /\ sr[k] \in Declared("interfaces")
    BY <1>8, <1>9, <2>1, ListFacts
  <2>4. \A k \in 1 .. Len(sq) : sq[k] = sr[k]
    BY <2>1, <2>3 DEF OneDeclaration
  <2>5. sq = [k \in 1 .. Len(sq) |-> sq[k]] /\ sr = [k \in 1 .. Len(sq) |-> sr[k]]
    BY <2>1, ListAsFunction
  <2> QED BY <2>2, <2>4, <2>5
<1>15. /\ IsList(c.types) /\ IsList(d.types) /\ Len(d.types) = Len(c.types)
       /\ \A k \in 1 .. Len(c.types) :
            c.types[k].name = d.types[k].name /\ c.types[k].kind = d.types[k].kind
  <2> DEFINE sq == Arranged(got("types"), NamedPairs(got("types"), at))
             sr == Arranged(oth("types"), NamedPairs(oth("types"), at))
  <2>1. /\ IsList(sq) /\ IsList(sr) /\ Len(sr) = Len(sq)
        /\ Range(sq) = Range(got("types")) /\ Range(sr) = Range(got("types"))
        /\ \A k \in 1 .. Len(sq) : sq[k].name = sr[k].name
    BY <1>1, <1>4, <1>7, <1>9, TiedNamed DEF got, oth
  <2>2. c.types = sq /\ d.types = sr
    BY <1>5, <1>6
  <2> HIDE DEF sq, sr
  <2>3. \A k \in 1 .. Len(sq) : sq[k] \in Declared("types") /\ sr[k] \in Declared("types")
    BY <1>8, <1>9, <2>1, ListFacts
  <2>4. \A k \in 1 .. Len(sq) : sq[k].kind = sr[k].kind
    BY <2>1, <2>3 DEF OneDeclaration
  <2> QED BY <2>1, <2>2, <2>4
<1>16. SameLists(c, d)
  BY <1>10, <1>11, <1>12, <1>13, <1>14, <1>15 DEF SameLists
<1> QED BY <1>16 DEF c, d

\* Methods of the same type that read the same are kept or left out together.
LEMMA SiblingsAlike ==
    ASSUME OneDeclaration, NEW q, NEW r, Alike(q, r), NEW current,
           Range(q) = Declared("functions"), Range(r) = Declared("functions")
    PROVE  Alike(SiblingMethods(q, current), SiblingMethods(r, current))
<1> DEFINE S == {fn \in Declared("functions") :
                   /\ current.receiver # None
                   /\ fn.receiver = current.receiver
                   /\ fn.signature # current.signature}
<1>1. IsList(q) /\ IsList(r) /\ Len(r) = Len(q)
  BY DEF Alike
<1>2. \A k \in 1 .. Len(q) : q[k] \in Declared("functions") /\ r[k] \in Declared("functions")
  BY <1>1, ListFacts
<1>3. \A k \in 1 .. Len(q) : q[k].signature = r[k].signature /\ q[k].receiver = r[k].receiver
  BY <1>2 DEF Alike, OneDeclaration
<1>4. KeptAlike(q, r, S)
  BY <1>2, <1>3 DEF KeptAlike
<1>5. CASE current = Nil
  <2>1. Alike(<<>>, <<>>)
    BY EmptySeq DEF Alike, IsList
  <2> QED BY <1>5, <2>1 DEF SiblingMethods
<1>6. CASE current # Nil
  <2>1. ASSUME NEW list, Range(list) = Declared("functions")
        PROVE  SiblingMethods(list, current) = Filtered(list, S)
    <3>1. \A i \in DOMAIN list : list[i] \in Declared("functions")
      BY <2>1 DEF Range
    <3>2. [i \in DOMAIN list |-> IF /\ current.receiver # None
                                    /\ list[i].receiver = current.receiver
                                    /\ list[i].signature # current.signature
                                 THEN <<list[i]>> ELSE <<>>]
          = [i \in DOMAIN list |-> IF list[i] \in S THEN <<list[i]>> ELSE <<>>]
      BY <3>1
    <3> HIDE DEF S
    <3> QED BY <1>6, <3>2 DEF SiblingMethods, Those, Filtered
  <2> HIDE DEF S
  <2>2. Alike(Filtered(q, S), Filtered(r, S))
    BY <1>4, AlikeFiltered
  <2> QED BY <2>1, <2>2
<1> QED BY <1>5, <1>6

LEMMA SectionsInAnyOrder ==
    ASSUME Sources, OneDeclaration, ~ CollectFails(disk, Current, buffer),
           NEW order \in Orders, NEW other \in Orders
    PROVE  Build(Collect(disk, Current, buffer, cursor, order), buffer.text, cursor)
           = Build(Collect(disk, Current, buffer, cursor, other), buffer.text, cursor)
<1> DEFINE c == Collect(disk, Current, buffer, cursor, order)
           d == Collect(disk, Current, buffer, cursor, other)
           current == CurrentFunction(buffer, cursor)
<1>1. SameLists(c, d)
  BY ListsInAnyOrder
<1>2. OfBuffer(c) /\ OfBuffer(d)
  BY CollectParts
<1>3. c # NoContext /\ d # NoContext
  BY ContextIsSome
<1> HIDE DEF c, d
<1>4. c.siblings = SiblingMethods(c.functions, current) /\ d.siblings = SiblingMethods(d.functions, current)
  BY <1>2 DEF OfBuffer
<1>5. /\ c.pkg = d.pkg /\ c.current = d.current
      /\ c.declaration = d.declaration /\ c.visible = d.visible
  BY <1>2 DEF OfBuffer
<1>6. Alike(c.siblings, d.siblings)
  BY <1>1, <1>4, SiblingsAlike DEF SameLists
<1>7. ASSUME NEW q, NEW r, Alike(q, r)
      PROVE  [i \in DOMAIN q |-> q[i].signature] = [i \in DOMAIN r |-> r[i].signature]
  <2>1. DOMAIN q = 1 .. Len(q) /\ DOMAIN r = 1 .. Len(q)
    BY <1>7, ListFacts DEF Alike
  <2> QED BY <1>7, <2>1 DEF Alike
<1>8. [i \in DOMAIN c.types |-> <<c.types[i].name, c.types[i].kind>>]
      = [i \in DOMAIN d.types |-> <<d.types[i].name, d.types[i].kind>>]
  <2>1. DOMAIN c.types = 1 .. Len(c.types) /\ DOMAIN d.types = 1 .. Len(c.types)
    BY <1>1, ListFacts DEF SameLists
  <2> QED BY <1>1, <2>1 DEF SameLists
<1>9. PackageSections(c) = PackageSections(d)
  <2>1. [i \in DOMAIN c.siblings |-> c.siblings[i].signature]
        = [i \in DOMAIN d.siblings |-> d.siblings[i].signature]
    BY <1>6, <1>7
  <2>2. [i \in DOMAIN c.functions |-> c.functions[i].signature]
        = [i \in DOMAIN d.functions |-> d.functions[i].signature]
    BY <1>1, <1>7 DEF SameLists
  <2> QED BY <1>1, <1>5, <1>8, <2>1, <2>2 DEF PackageSections, Lines, SameLists
<1>10. KeepsPreamble(c) = KeepsPreamble(d)
  BY <1>1, <1>3 DEF KeepsPreamble, SameLists
<1> QED BY <1>3, <1>9, <1>10 DEF Build, c, d

LEMMA OrderIgnored == IInv => (OneDeclaration => PromptIgnoresMapOrder)
<1> DEFINE other == SetToSeq(InPackage(disk, buffer.pkg))
<1> SUFFICES ASSUME IInv, OneDeclaration, prompt # Nil
             PROVE  prompt = Build(Collect(disk, Current, buffer, cursor, other), buffer.text, cursor)
  BY DEF PromptIgnoresMapOrder
<1>1. PICK order \in Orders : context = Collect(disk, Current, buffer, cursor, order)
  BY DEF IInv, Collected
<1>2. prompt = Build(context, buffer.text, cursor)
  BY DEF IInv, Prompted
<1>3. Sources
  BY DEF IInv
<1>4. other \in Orders
  <2>1. InPackage(disk, buffer.pkg) \in SUBSET DOMAIN disk
    BY DEF InPackage
  <2>2. IsFiniteSet(InPackage(disk, buffer.pkg))
    BY <1>3, <2>1, FS_Subset DEF Sources
  <2> QED BY <2>2, SomeSeqOfSet DEF Orders
<1> HIDE DEF other
<1>5. CASE CollectFails(disk, Current, buffer)
  <2>1. context = NoContext /\ Collect(disk, Current, buffer, cursor, other) = NoContext
    BY <1>1, <1>5 DEF Collect
  <2> QED BY <1>2, <2>1
<1>6. CASE ~ CollectFails(disk, Current, buffer)
  BY <1>1, <1>2, <1>3, <1>4, <1>6, SectionsInAnyOrder
<1> QED BY <1>5, <1>6

(***************************************************************************)
(* Two equal requests give equal prompts (collect, Build): in a package    *)
(* that declares a name once, the order in which the map of parsed files   *)
(* is ranged over shows nowhere in what is written, although the sorts     *)
(* leave functions, types and interfaces that tie in that order.           *)
(***************************************************************************)
THEOREM MapOrderIgnored ==
    Spec => [](OneDeclaration => PromptIgnoresMapOrder)
BY Invariance, OrderIgnored, PTL

=============================================================================
