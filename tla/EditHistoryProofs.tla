------------------------- MODULE EditHistoryProofs --------------------------
(***************************************************************************)
(* Theorems about EditText and EditHistory.  The hunk of two texts stands  *)
(* on lines of its own.  A history is known by the set of its edits, each  *)
(* of which has a time of its own, and what both limits keep is the newest *)
(* of a set: enough to show that the order in which the pending edits are  *)
(* stored makes no difference.                                             *)
(***************************************************************************)
EXTENDS EditHistory, TLAPS, FiniteSetTheorems, SequenceTheorems,
        NaturalsInduction, WellFoundedInduction

-----------------------------------------------------------------------------
(* The hunks of EditText: where a line starts and ends, that a line's      *)
(* number and its offset are inverse to each other, and that the hunk      *)
(* DiffEdit makes of two texts stands on its own lines.                    *)

(***************************************************************************)
(* A set that holds 0 and, with each number below n, the next, holds all   *)
(* of 0 .. n: induction as a fact about sets, for every user of it.        *)
(***************************************************************************)
LEMMA Induction ==
    ASSUME NEW n \in Nat, NEW S, 0 \in S, \A i \in 1 .. n : i - 1 \in S => i \in S
    PROVE  0 .. n \subseteq S
<1> DEFINE Bad == {i \in 0 .. n : i \notin S}
           R == OpToRel(<, Nat)
<1> SUFFICES ASSUME Bad # {} PROVE FALSE
  OBVIOUS
<1>1. \A x, y \in Nat : x < y => <<x, y>> \in R
  BY DEF OpToRel
<1>2. IsWellFoundedOn(R, Nat)
  BY NatLessThanWellFounded
<1>3. Bad \subseteq Nat
  OBVIOUS
<1>4. PICK x \in Bad : \A y \in Bad : ~ (<<y, x>> \in R)
  BY <1>2, <1>3, WFMin
<1>5. x # 0 /\ x \in 1 .. n /\ x - 1 \in Nat /\ x \in Nat /\ x - 1 < x
  OBVIOUS
<1>6. x - 1 \in Bad
  BY <1>5
<1>7. <<x - 1, x>> \in R
  <2> HIDE DEF R
  <2> QED BY <1>1, <1>5
<1> HIDE DEF R, Bad
<1> QED BY <1>4, <1>6, <1>7

\* Least and Greatest are what they are called.
LEMMA LeastInSet ==
    ASSUME NEW S \in SUBSET Nat, S # {}
    PROVE  Least(S) \in S /\ \A x \in S : Least(S) <= x
<1>1. PICK top \in S : TRUE
  OBVIOUS
<1> DEFINE Under == {i \in 0 .. top + 1 : \A x \in S : i <= x}
<1>2. \E x \in S : \A y \in S : x <= y
  <2> SUFFICES ASSUME ~ \E x \in S : \A y \in S : x <= y PROVE FALSE
    OBVIOUS
  <2>1. 0 \in Under /\ top + 1 \in Nat
    BY <1>1
  <2>2. ASSUME NEW i \in 1 .. top + 1, i - 1 \in Under PROVE i \in Under
    <3>1. i - 1 \notin S
      BY <2>2
    <3>2. \A x \in S : i <= x
      BY <2>2, <3>1
    <3> QED BY <3>2
  <2>3. top + 1 \in Under
    <3> HIDE DEF Under
    <3>1. 0 .. top + 1 \subseteq Under
      BY <2>1, <2>2, Induction
    <3> QED BY <2>1, <3>1
  <2> QED BY <2>3, <1>1
<1> QED BY <1>2, Zenon DEF Least

LEMMA GreatestInSet ==
    ASSUME NEW S \in SUBSET Nat, S # {}, NEW n \in Nat, \A x \in S : x <= n
    PROVE  Greatest(S) \in S /\ \A x \in S : x <= Greatest(S)
<1> DEFINE Gaps == {n - x : x \in S}
<1>0. \A x \in S : n - x \in Nat /\ n - x \in Gaps
  OBVIOUS
<1>1. Gaps \in SUBSET Nat /\ Gaps # {}
  BY <1>0
<1>2. Least(Gaps) \in Gaps /\ \A g \in Gaps : Least(Gaps) <= g
  <2> HIDE DEF Gaps
  <2> QED BY <1>1, LeastInSet
<1>3. PICK x \in S : Least(Gaps) = n - x
  BY <1>2
<1>4. ASSUME NEW y \in S PROVE x >= y
  <2>1. n - x <= n - y
    BY <1>0, <1>2, <1>3
  <2> QED BY <2>1
<1>5. \E z \in S : \A y \in S : z >= y
  BY <1>4
<1>6. Greatest(S) \in S /\ \A y \in S : Greatest(S) >= y
  BY <1>5, Zenon DEF Greatest
<1> QED BY <1>6

-----------------------------------------------------------------------------
\* A slice between two offsets of a text.
LEMMA SliceFacts ==
    ASSUME NEW X, NEW s \in Seq(X), NEW from \in 0 .. Len(s), NEW to \in 0 .. Len(s)
    PROVE  /\ Slice(s, from, to) \in Seq(X)
           /\ Len(Slice(s, from, to)) = IF from <= to THEN to - from ELSE 0
           /\ \A i \in 1 .. to - from : Slice(s, from, to)[i] = s[from + i]
<1>1. \A i \in from + 1 .. to : s[i] \in X
  BY LenProperties, ElementOfSeq
<1>2. from + 1 \in Int /\ to \in Int
  BY LenProperties
<1>3. /\ SubSeq(s, from + 1, to) \in Seq(X)
      /\ Len(SubSeq(s, from + 1, to)) = IF from + 1 <= to THEN to - (from + 1) + 1 ELSE 0
      /\ \A i \in 1 .. to - (from + 1) + 1 : SubSeq(s, from + 1, to)[i] = s[(from + 1) + i - 1]
  BY <1>1, <1>2, SubSeqProperties
<1> DEFINE sub == SubSeq(s, from + 1, to)
<1>4. Slice(s, from, to) = sub
  BY DEF Slice
<1>5. from \in Int /\ to \in Int
  BY LenProperties
<1> HIDE DEF sub
<1> QED BY <1>3, <1>4, <1>5 DEF sub

\* A slice as long as the one it was cut from starts and ends where that did.
LEMMA SliceAgain ==
    ASSUME NEW X, NEW s \in Seq(X), NEW from \in 0 .. Len(s), NEW to \in 0 .. Len(s)
    PROVE  Slice(s, from, from + Len(Slice(s, from, to))) = Slice(s, from, to)
<1>0. Len(s) \in Nat
  BY LenProperties
<1> DEFINE long == Len(Slice(s, from, to))
<1>3. long = IF from <= to THEN to - from ELSE 0
  BY SliceFacts
<1>4. from \in Nat /\ to \in Nat
  BY <1>0
<1> HIDE DEF long
<1>1. CASE from <= to
  <2>1. from + Len(Slice(s, from, to)) = to
    BY <1>1, <1>3, <1>4 DEF long
  <2> QED BY <2>1
<1>2. CASE to < from
  <2>1. from + Len(Slice(s, from, to)) = from
    BY <1>2, <1>3, <1>4 DEF long
  <2>2. Slice(s, from, from) = <<>> /\ Slice(s, from, to) = <<>>
    BY <1>0, <1>2, SubSeqEmpty DEF Slice
  <2> QED BY <2>1, <2>2
<1> QED BY <1>0, <1>1, <1>2

\* A common prefix lies in both texts, and they agree on it.
LEMMA CommonPrefixFacts ==
    ASSUME NEW X, NEW a \in Seq(X), NEW b \in Seq(X)
    PROVE  /\ CommonPrefix(a, b) \in 0 .. Len(a)
           /\ CommonPrefix(a, b) \in 0 .. Len(b)
           /\ \A i \in 1 .. CommonPrefix(a, b) : a[i] = b[i]
<1> DEFINE Common == CommonPrefixes({a, b})
           Lens == {Len(x) : x \in Common}
<1>0. Len(a) \in Nat /\ Len(b) \in Nat
  BY LenProperties
<1>1. \A x \in Common : /\ \E c \in {a, b} : \E l \in 0 .. Len(c) : x = SubSeq(c, 1, l)
                        /\ IsPrefix(x, a) /\ IsPrefix(x, b)
  BY DEF CommonPrefixes, Prefixes
<1>2. \A x \in Common : Len(x) \in Nat /\ Len(x) <= Len(a) /\ Len(x) <= Len(b)
  <2> SUFFICES ASSUME NEW x \in Common PROVE Len(x) \in Nat /\ Len(x) <= Len(a) /\ Len(x) <= Len(b)
    OBVIOUS
  <2> HIDE DEF Common
  <2>1. PICK c \in {a, b} : \E l \in 0 .. Len(c) : x = SubSeq(c, 1, l)
    BY <1>1
  <2>4. PICK l \in 0 .. Len(c) : x = SubSeq(c, 1, l)
    BY <2>1
  <2>2. c \in Seq(X) /\ l \in Int /\ \A i \in 1 .. l : c[i] \in X
    BY <1>0, ElementOfSeq
  <2>3. Len(x) \in Nat
    BY <2>4, <2>2, <1>0, SubSeqProperties
  <2> QED BY <2>3, <1>1 DEF IsPrefix
<1>3. <<>> \in Common
  <2>1. <<>> = SubSeq(a, 1, 0)
    BY SubSeqEmpty
  <2>2. <<>> \in Prefixes(a)
    BY <1>0, <2>1 DEF Prefixes
  <2>3. IsPrefix(<<>>, a) /\ IsPrefix(<<>>, b)
    <3>1. SubSeq(<<>>, 1, 0) = <<>> /\ SubSeq(a, 1, 0) = <<>> /\ SubSeq(b, 1, 0) = <<>>
      BY SubSeqEmpty
    <3> QED BY <1>0, <3>1 DEF IsPrefix
  <2> QED BY <2>2, <2>3 DEF CommonPrefixes
<1> HIDE DEF Common
<1>4. Lens \in SUBSET Nat /\ Lens # {} /\ \A l \in Lens : l <= Len(a)
  BY <1>2, <1>3
<1>5. Greatest(Lens) \in Lens /\ \A l \in Lens : l <= Greatest(Lens)
  <2> HIDE DEF Lens
  <2> QED BY <1>0, <1>4, GreatestInSet
<1>6. \E x \in Common : \A y \in Common : Len(y) <= Len(x)
  BY <1>5
<1> DEFINE lcp == LongestCommonPrefix({a, b})
<1>7. lcp \in Common
  <2>1. lcp = CHOOSE x \in Common : \A y \in Common : Len(y) <= Len(x)
    BY DEF LongestCommonPrefix, Common
  <2> HIDE DEF lcp
  <2> QED BY <1>6, <2>1, Zenon
<1> HIDE DEF lcp
<1>8. CommonPrefix(a, b) = Len(lcp)
  BY DEF CommonPrefix, lcp
<1> DEFINE n == Len(lcp)
<1>9. n \in Nat /\ n <= Len(a) /\ n <= Len(b)
  BY <1>2, <1>7
<1>10. SubSeq(a, 1, n) = SubSeq(b, 1, n)
  <2>1. SubSeq(a, 1, n) = SubSeq(lcp, 1, n) /\ SubSeq(b, 1, n) = SubSeq(lcp, 1, n)
    BY <1>1, <1>7 DEF IsPrefix
  <2> QED BY <2>1
<1> HIDE DEF n
<1>11. ASSUME NEW i \in 1 .. n PROVE a[i] = b[i]
  <2>1. 0 \in 0 .. Len(a) /\ 0 \in 0 .. Len(b) /\ n \in 0 .. Len(a) /\ n \in 0 .. Len(b)
    BY <1>0, <1>9
  <2>2. \A j \in 1 .. n - 0 : Slice(a, 0, n)[j] = a[0 + j] /\ Slice(b, 0, n)[j] = b[0 + j]
    BY <2>1, SliceFacts
  <2>3. Slice(a, 0, n) = SubSeq(a, 1, n) /\ Slice(b, 0, n) = SubSeq(b, 1, n)
    BY DEF Slice
  <2>4. i \in 1 .. n - 0 /\ 0 + i = i
    BY <1>9
  <2> QED BY <2>2, <2>3, <2>4, <1>10
<1> QED BY <1>0, <1>8, <1>9, <1>11 DEF n

\* The same of a common suffix, counted from the ends.
LEMMA CommonSuffixFacts ==
    ASSUME NEW X, NEW a \in Seq(X), NEW b \in Seq(X)
    PROVE  /\ CommonSuffix(a, b) \in 0 .. Len(a)
           /\ CommonSuffix(a, b) \in 0 .. Len(b)
           /\ \A i \in 0 .. CommonSuffix(a, b) - 1 : a[Len(a) - i] = b[Len(b) - i]
<1> DEFINE ra == Reverse(a)
           rb == Reverse(b)
           n == CommonSuffix(a, b)
<1>1. /\ Len(a) \in Nat /\ Len(b) \in Nat
      /\ a \in [1 .. Len(a) -> X] /\ b \in [1 .. Len(b) -> X]
  BY LenProperties
<1>2. /\ ra \in Seq(X) /\ Len(ra) = Len(a) /\ \A i \in 1 .. Len(a) : ra[i] = a[Len(a) - i + 1]
      /\ rb \in Seq(X) /\ Len(rb) = Len(b) /\ \A i \in 1 .. Len(b) : rb[i] = b[Len(b) - i + 1]
  BY <1>1 DEF Reverse
<1>3. n = CommonPrefix(ra, rb)
  BY DEF CommonSuffix
<1> HIDE DEF ra, rb, n
<1>4. n \in 0 .. Len(ra) /\ n \in 0 .. Len(rb) /\ \A i \in 1 .. n : ra[i] = rb[i]
  BY <1>2, <1>3, CommonPrefixFacts
<1>5. ASSUME NEW i \in 0 .. n - 1 PROVE a[Len(a) - i] = b[Len(b) - i]
  <2>1. i + 1 \in 1 .. n /\ i + 1 \in 1 .. Len(a) /\ i + 1 \in 1 .. Len(b)
    BY <1>1, <1>2, <1>4
  <2>2. /\ ra[i + 1] = rb[i + 1]
        /\ ra[i + 1] = a[Len(a) - (i + 1) + 1] /\ rb[i + 1] = b[Len(b) - (i + 1) + 1]
    BY <2>1, <1>2, <1>4
  <2>3. Len(a) - (i + 1) + 1 = Len(a) - i /\ Len(b) - (i + 1) + 1 = Len(b) - i
    BY <1>1, <2>1
  <2> QED BY <2>2, <2>3
<1> QED BY <1>2, <1>4, <1>5 DEF n

-----------------------------------------------------------------------------
\* expandToLine, its two ends: they enclose the offset, each stands at a
\* newline or at the text's end, and no newline lies between.
LEMMA LineStartFacts ==
    ASSUME NEW X, NEW s \in Seq(X), NEW offset \in 0 .. Len(s)
    PROVE  /\ LineStart(s, offset) \in 0 .. offset
           /\ LineStart(s, offset) # 0 => s[LineStart(s, offset)] = NL
           /\ \A j \in LineStart(s, offset) + 1 .. offset : s[j] # NL
<1> DEFINE S == {0} \cup {j \in 1 .. offset : s[j] = NL}
           g == Greatest(S)
<1>1. offset \in Nat
  BY LenProperties
<1>2. S \in SUBSET Nat /\ S # {} /\ \A j \in S : j <= offset
  BY <1>1
<1>3. g \in S /\ \A j \in S : j <= g
  <2> HIDE DEF S
  <2> QED BY <1>1, <1>2, GreatestInSet
<1>4. LineStart(s, offset) = g
  BY DEF LineStart
<1> HIDE DEF g
<1>5. g \in 0 .. offset /\ (g # 0 => s[g] = NL)
  BY <1>1, <1>3
<1>6. \A j \in g + 1 .. offset : s[j] # NL
  BY <1>1, <1>3, <1>5
<1> QED BY <1>4, <1>5, <1>6

LEMMA LineEndFacts ==
    ASSUME NEW X, NEW s \in Seq(X), NEW offset \in 0 .. Len(s)
    PROVE  /\ LineEnd(s, offset) \in offset .. Len(s)
           /\ LineEnd(s, offset) # Len(s) => s[LineEnd(s, offset)] = NL /\ offset < LineEnd(s, offset)
           /\ \A j \in offset + 1 .. LineEnd(s, offset) - 1 : s[j] # NL
<1> DEFINE S == {Len(s)} \cup {j \in offset + 1 .. Len(s) : s[j] = NL}
           g == Least(S)
<1>1. offset \in Nat /\ Len(s) \in Nat /\ offset <= Len(s)
  BY LenProperties
<1>2. S \in SUBSET Nat /\ S # {}
  BY <1>1
<1>3. g \in S /\ \A j \in S : g <= j
  <2> HIDE DEF S
  <2> QED BY <1>2, LeastInSet
<1>4. LineEnd(s, offset) = g
  BY DEF LineEnd
<1> HIDE DEF g
<1>5. g \in offset .. Len(s) /\ (g # Len(s) => s[g] = NL /\ offset < g)
  BY <1>1, <1>3
<1>6. \A j \in offset + 1 .. g - 1 : s[j] # NL
  BY <1>1, <1>3, <1>5
<1> QED BY <1>4, <1>5, <1>6

\* An offset further on is on the same line or on a later one, and on a later
\* one when a newline lies between.
LEMMA LineNumberFacts ==
    ASSUME NEW s, NEW i \in Nat, NEW j \in Nat, i <= j
    PROVE  /\ LineNumber(s, i) \in Nat \ {0}
           /\ LineNumber(s, i) <= LineNumber(s, j)
           /\ i < j /\ s[j] = NL => LineNumber(s, i) < LineNumber(s, j)
<1> DEFINE Newlines(k) == {l \in 1 .. k : s[l] = NL}
           ni == Newlines(i)
           nj == Newlines(j)
<1>1. IsFiniteSet(1 .. j)
  BY FS_Interval
<1>2. nj \in SUBSET (1 .. j) /\ ni \in SUBSET nj
  OBVIOUS
<1>3. LineNumber(s, i) = Cardinality(ni) + 1 /\ LineNumber(s, j) = Cardinality(nj) + 1
  BY DEF LineNumber
<1>4. i < j /\ s[j] = NL => j \in nj /\ j \notin ni
  OBVIOUS
<1> HIDE DEF ni, nj
<1>5. IsFiniteSet(nj)
  BY <1>1, <1>2, FS_Subset
<1>6. /\ IsFiniteSet(ni) /\ Cardinality(ni) <= Cardinality(nj)
      /\ Cardinality(nj) = Cardinality(ni) => nj = ni
  BY <1>2, <1>5, FS_Subset
<1>7. Cardinality(ni) \in Nat /\ Cardinality(nj) \in Nat
  BY <1>5, <1>6, FS_CardinalityType
<1> QED BY <1>3, <1>4, <1>6, <1>7

\* offsetForLine and lineNumber: the offset is one of the text's, and a line
\* that starts after a newline is found again by its number.
LEMMA OffsetForLineInText ==
    ASSUME NEW X, NEW s \in Seq(X), NEW line
    PROVE  OffsetForLine(s, line) \in 0 .. Len(s)
<1> DEFINE S == {Len(s)} \cup {j \in DOMAIN s : s[j] = NL /\ LineNumber(s, j) = line}
<1>1. Len(s) \in Nat /\ DOMAIN s = 1 .. Len(s)
  BY LenProperties
<1>2. S \in SUBSET Nat /\ S # {} /\ Len(s) \in S
  BY <1>1
<1>3. Least(S) \in S /\ \A j \in S : Least(S) <= j
  <2> HIDE DEF S
  <2> QED BY <1>2, LeastInSet
<1>4. OffsetForLine(s, line) = IF line <= 1 THEN 0 ELSE Least(S)
  BY DEF OffsetForLine
<1> HIDE DEF S
<1>5. Least(S) \in Nat /\ Least(S) <= Len(s)
  BY <1>2, <1>3
<1>6. Least(S) \in 0 .. Len(s)
  BY <1>1, <1>5
<1> QED BY <1>1, <1>4, <1>6

LEMMA OffsetOfLineNumber ==
    ASSUME NEW X, NEW s \in Seq(X), NEW offset \in 0 .. Len(s),
           offset # 0 => s[offset] = NL
    PROVE  OffsetForLine(s, LineNumber(s, offset)) = offset
<1> DEFINE line == LineNumber(s, offset)
           S == {Len(s)} \cup {j \in DOMAIN s : s[j] = NL /\ LineNumber(s, j) = line}
<1>1. Len(s) \in Nat /\ DOMAIN s = 1 .. Len(s) /\ offset \in Nat
  BY LenProperties
<1>2. OffsetForLine(s, line) = IF line <= 1 THEN 0 ELSE Least(S)
  BY DEF OffsetForLine
<1>3. LineNumber(s, 0) = 1
  <2>1. {j \in 1 .. 0 : s[j] = NL} = {}
    OBVIOUS
  <2> QED BY <2>1, FS_EmptySet DEF LineNumber
<1>4. line \in Nat \ {0}
  BY <1>1, LineNumberFacts
<1> HIDE DEF line
<1>5. CASE offset = 0
  BY <1>2, <1>3, <1>5 DEF line
<1>6. CASE offset # 0
  <2>1. 0 < offset /\ s[offset] = NL
    BY <1>1, <1>6
  <2>2. line > 1
    BY <1>1, <1>3, <2>1, <1>4, LineNumberFacts DEF line
  <2>3. offset \in S
    <3>1. offset \in DOMAIN s /\ s[offset] = NL /\ LineNumber(s, offset) = line
      BY <1>1, <2>1 DEF line
    <3> QED BY <3>1
  <2>4. S \in SUBSET Nat
    BY <1>1
  <2>5. ASSUME NEW j \in S PROVE offset <= j
    <3>1. CASE j = Len(s)
      BY <3>1
    <3>2. CASE j \in DOMAIN s /\ LineNumber(s, j) = line
      <4>1. j < offset => LineNumber(s, j) < line
        BY <1>1, <2>1, <3>2, LineNumberFacts DEF line
      <4> QED BY <4>1, <3>2, <1>1, <1>4
    <3> QED BY <3>1, <3>2
  <2> HIDE DEF S
  <2>6. Least(S) \in S /\ \A j \in S : Least(S) <= j
    BY <2>3, <2>4, LeastInSet
  <2>7. Least(S) \in Nat /\ Least(S) <= offset /\ offset <= Least(S)
    BY <2>3, <2>4, <2>5, <2>6
  <2>8. Least(S) = offset
    BY <1>1, <2>7
  <2>9. OffsetForLine(s, line) = offset
    BY <1>2, <1>4, <2>2, <2>8
  <2> QED BY <2>9 DEF line
<1> QED BY <1>5, <1>6 DEF line

-----------------------------------------------------------------------------
\* Two texts that end alike reach the end of the line equally far on.
LEMMA LineEndsAlike ==
    ASSUME NEW X, NEW a \in Seq(X), NEW b \in Seq(X),
           NEW i \in 0 .. Len(a), NEW j \in 0 .. Len(b), Len(a) - i = Len(b) - j,
           \A k \in 1 .. Len(a) - i : a[i + k] = b[j + k]
    PROVE  LineEnd(a, i) - i <= LineEnd(b, j) - j
<1> DEFINE u == LineEnd(a, i)
           v == LineEnd(b, j)
<1>1. Len(a) \in Nat /\ Len(b) \in Nat /\ i \in Nat /\ j \in Nat
  BY LenProperties
<1>2. u \in i .. Len(a) /\ \A l \in i + 1 .. u - 1 : a[l] # NL
  BY LineEndFacts
<1>3. v \in j .. Len(b) /\ (v # Len(b) => b[v] = NL /\ j < v)
  BY LineEndFacts
<1> HIDE DEF u, v
<1>4. u \in Nat /\ v \in Nat
  BY <1>1, <1>2, <1>3
<1> SUFFICES ASSUME v - j < u - i PROVE FALSE
  BY <1>1, <1>4 DEF u, v
<1>5. v # Len(b) /\ v - j \in 1 .. Len(a) - i /\ i + (v - j) \in i + 1 .. u - 1
  BY <1>1, <1>2, <1>3, <1>4
<1>6. a[i + (v - j)] = b[j + (v - j)]
  BY <1>5, Zenon
<1>7. j + (v - j) = v
  BY <1>1, <1>4
<1> QED BY <1>2, <1>3, <1>5, <1>6, <1>7

\* Behind a common prefix, the common suffix: the texts agree from there on.
LEMMA TailsAgree ==
    ASSUME NEW X, NEW old \in Seq(X), NEW new \in Seq(X),
           NEW p \in Nat, p <= Len(old), p <= Len(new)
    PROVE  LET n == CommonSuffix(Slice(old, p, Len(old)), Slice(new, p, Len(new)))
           IN  /\ n \in Nat /\ p <= Len(old) - n /\ p <= Len(new) - n
               /\ \A k \in 1 .. n : old[(Len(old) - n) + k] = new[(Len(new) - n) + k]
<1> DEFINE a == Slice(old, p, Len(old))
           b == Slice(new, p, Len(new))
           n == CommonSuffix(a, b)
<1>1. Len(old) \in Nat /\ Len(new) \in Nat
  BY LenProperties
<1>2. /\ p \in 0 .. Len(old) /\ Len(old) \in 0 .. Len(old)
      /\ p \in 0 .. Len(new) /\ Len(new) \in 0 .. Len(new)
  BY <1>1
<1>3. /\ a \in Seq(X) /\ Len(a) = Len(old) - p
      /\ \A i \in 1 .. Len(old) - p : a[i] = old[p + i]
  BY <1>2, SliceFacts
<1>4. /\ b \in Seq(X) /\ Len(b) = Len(new) - p
      /\ \A i \in 1 .. Len(new) - p : b[i] = new[p + i]
  BY <1>2, SliceFacts
<1> HIDE DEF a, b
<1>5. /\ n \in 0 .. Len(a) /\ n \in 0 .. Len(b)
      /\ \A i \in 0 .. n - 1 : a[Len(a) - i] = b[Len(b) - i]
  BY <1>3, <1>4, CommonSuffixFacts
<1> HIDE DEF n
<1>6. n \in Nat /\ n <= Len(old) - p /\ n <= Len(new) - p
  BY <1>1, <1>3, <1>4, <1>5
<1>7. p <= Len(old) - n /\ p <= Len(new) - n
  BY <1>1, <1>6
<1>8. \A m \in Nat, k \in 1 .. n : n <= m - p =>
         /\ n - k \in 0 .. n - 1 /\ (m - p) - (n - k) \in 1 .. m - p
         /\ p + ((m - p) - (n - k)) = (m - n) + k
  BY <1>6
<1>9. ASSUME NEW k \in 1 .. n PROVE old[(Len(old) - n) + k] = new[(Len(new) - n) + k]
  <2>1. a[Len(a) - (n - k)] = b[Len(b) - (n - k)]
    BY <1>5, <1>8, <1>6, <1>1
  <2>2. a[Len(a) - (n - k)] = old[p + (Len(a) - (n - k))]
    BY <1>1, <1>3, <1>6, <1>8
  <2>3. b[Len(b) - (n - k)] = new[p + (Len(b) - (n - k))]
    BY <1>1, <1>4, <1>6, <1>8
  <2>4. p + (Len(a) - (n - k)) = (Len(old) - n) + k /\ p + (Len(b) - (n - k)) = (Len(new) - n) + k
    BY <1>1, <1>3, <1>4, <1>6, <1>8
  <2> QED BY <2>1, <2>2, <2>3, <2>4
<1> QED BY <1>6, <1>7, <1>9 DEF n, a, b

\* Two offsets cut a text in three.
LEMMA ThreeSlices ==
    ASSUME NEW X, NEW s \in Seq(X), NEW i \in Nat, NEW j \in Nat, i <= j, j <= Len(s)
    PROVE  Slice(s, 0, i) \o Slice(s, i, j) \o Slice(s, j, Len(s)) = s
<1>1. Len(s) \in Nat
  BY LenProperties
<1>2. SubSeq(s, 1, i) \o SubSeq(s, i + 1, j) = SubSeq(s, 1, j)
  <2>1. 1 \in 1 .. Len(s) + 1 /\ i \in 1 - 1 .. Len(s) /\ j \in i .. Len(s)
    BY <1>1
  <2> QED BY <2>1, ConcatAdjacentSubSeq
<1>3. SubSeq(s, 1, j) \o SubSeq(s, j + 1, Len(s)) = SubSeq(s, 1, Len(s))
  <2>1. 1 \in 1 .. Len(s) + 1 /\ j \in 1 - 1 .. Len(s) /\ Len(s) \in j .. Len(s)
    BY <1>1
  <2> QED BY <2>1, ConcatAdjacentSubSeq
<1>4. SubSeq(s, 1, Len(s)) = s
  BY SubSeqFull
<1>5. 0 + 1 = 1
  OBVIOUS
<1> QED BY <1>2, <1>3, <1>4, <1>5 DEF Slice

\* From i and from j on, n characters are the same.
Alike(a, i, b, j, n) ==
    /\ i + n <= Len(a) /\ j + n <= Len(b)
    /\ \A k \in 1 .. n : a[i + k] = b[j + k]

LEMMA SlicesEqual ==
    ASSUME NEW X, NEW a \in Seq(X), NEW b \in Seq(X), NEW n \in Nat,
           NEW i \in Nat, NEW j \in Nat, Alike(a, i, b, j, n)
    PROVE  Slice(a, i, i + n) = Slice(b, j, j + n)
<1> DEFINE u == Slice(a, i, i + n)
           v == Slice(b, j, j + n)
<1>1. Len(a) \in Nat /\ Len(b) \in Nat
  BY LenProperties
<1>2. /\ i \in 0 .. Len(a) /\ i + n \in 0 .. Len(a) /\ i <= i + n /\ (i + n) - i = n
      /\ j \in 0 .. Len(b) /\ j + n \in 0 .. Len(b) /\ j <= j + n /\ (j + n) - j = n
  BY <1>1 DEF Alike
<1>7. /\ u \in Seq(X) /\ Len(u) = IF i <= i + n THEN (i + n) - i ELSE 0
      /\ \A k \in 1 .. (i + n) - i : u[k] = a[i + k]
  <2>1. i \in 0 .. Len(a) /\ i + n \in 0 .. Len(a)
    BY <1>2
  <2> QED BY <2>1, SliceFacts
<1>8. /\ v \in Seq(X) /\ Len(v) = IF j <= j + n THEN (j + n) - j ELSE 0
      /\ \A k \in 1 .. (j + n) - j : v[k] = b[j + k]
  <2>1. j \in 0 .. Len(b) /\ j + n \in 0 .. Len(b)
    BY <1>2
  <2> QED BY <2>1, SliceFacts
<1> HIDE DEF u, v
<1>3. u \in Seq(X) /\ Len(u) = n /\ \A k \in 1 .. n : u[k] = a[i + k]
  BY <1>2, <1>7
<1>4. v \in Seq(X) /\ Len(v) = n /\ \A k \in 1 .. n : v[k] = b[j + k]
  BY <1>2, <1>8
<1>5. \A k \in 1 .. n : u[k] = v[k]
  BY <1>3, <1>4 DEF Alike
<1>6. u = v
  BY <1>3, <1>4, <1>5, SeqEqual
<1> QED BY <1>6 DEF u, v

\* The whole lines of both texts around what differs.
LEMMA HunkOfTexts ==
    ASSUME NEW X, NEW old \in Seq(X), NEW new \in Seq(X)
    PROVE  LET prefix == CommonPrefix(old, new)
               suffix == CommonSuffix(Slice(old, prefix, Len(old)),
                                      Slice(new, prefix, Len(new)))
               oldEnd == Len(old) - suffix
               newEnd == Len(new) - suffix
               first == LineStart(new, prefix)
               oldLast == LineEnd(old, oldEnd)
               newLast == LineEnd(new, newEnd)
           IN  /\ LineStart(old, prefix) = first
               /\ first \in Nat /\ oldLast \in Nat /\ newLast \in Nat
               /\ first <= newLast /\ newLast <= Len(new)
               /\ first <= oldLast /\ oldLast <= Len(old)
               /\ first # 0 => new[first] = NL
               /\ Slice(new, 0, first) \o Slice(old, first, oldLast)
                      \o Slice(new, newLast, Len(new)) = old
<1> DEFINE prefix == CommonPrefix(old, new)
           suffix == CommonSuffix(Slice(old, prefix, Len(old)),
                                  Slice(new, prefix, Len(new)))
           oldEnd == Len(old) - suffix
           newEnd == Len(new) - suffix
           first == LineStart(new, prefix)
           oldLast == LineEnd(old, oldEnd)
           newLast == LineEnd(new, newEnd)
<1>1. Len(old) \in Nat /\ Len(new) \in Nat
  BY LenProperties
<1>2. /\ prefix \in 0 .. Len(old) /\ prefix \in 0 .. Len(new)
      /\ \A i \in 1 .. prefix : old[i] = new[i]
  BY CommonPrefixFacts
<1> HIDE DEF prefix
<1>3. prefix \in Nat /\ prefix <= Len(old) /\ prefix <= Len(new)
  BY <1>1, <1>2
<1>4. /\ suffix \in Nat /\ prefix <= Len(old) - suffix /\ prefix <= Len(new) - suffix
      /\ \A k \in 1 .. suffix : old[(Len(old) - suffix) + k] = new[(Len(new) - suffix) + k]
  BY <1>3, TailsAgree
<1> HIDE DEF suffix
<1>5. /\ oldEnd \in 0 .. Len(old) /\ newEnd \in 0 .. Len(new)
      /\ oldEnd \in Nat /\ newEnd \in Nat /\ prefix <= oldEnd /\ prefix <= newEnd
      /\ Len(old) - oldEnd = suffix /\ Len(new) - newEnd = suffix
  BY <1>1, <1>3, <1>4
<1>6. \A k \in 1 .. suffix : old[oldEnd + k] = new[newEnd + k]
  BY <1>4
<1> HIDE DEF oldEnd, newEnd
<1>7. LineStart(old, prefix) = first
  <2>1. {j \in 1 .. prefix : old[j] = NL} = {j \in 1 .. prefix : new[j] = NL}
    BY <1>2
  <2> QED BY <2>1 DEF LineStart
<1>8. first \in 0 .. prefix /\ (first # 0 => new[first] = NL)
  BY <1>2, LineStartFacts
<1>9. oldLast \in oldEnd .. Len(old) /\ newLast \in newEnd .. Len(new)
  BY <1>5, LineEndFacts
<1>10. oldLast - oldEnd <= newLast - newEnd /\ newLast - newEnd <= oldLast - oldEnd
  <2>1. \A k \in 1 .. Len(old) - oldEnd : old[oldEnd + k] = new[newEnd + k]
    BY <1>5, <1>6
  <2>2. \A k \in 1 .. Len(new) - newEnd : new[newEnd + k] = old[oldEnd + k]
    BY <1>5, <1>6
  <2>3. Len(old) - oldEnd = Len(new) - newEnd /\ Len(new) - newEnd = Len(old) - oldEnd
    BY <1>5
  <2>4. oldLast - oldEnd <= newLast - newEnd
    BY <1>5, <2>1, <2>3, LineEndsAlike
  <2>5. newLast - newEnd <= oldLast - oldEnd
    BY <1>5, <2>2, <2>3, LineEndsAlike
  <2> QED BY <2>4, <2>5
<1> HIDE DEF first, oldLast, newLast
<1>11. /\ first \in Nat /\ oldLast \in Nat /\ newLast \in Nat
       /\ first <= prefix /\ oldEnd <= oldLast /\ newEnd <= newLast
       /\ oldLast <= Len(old) /\ newLast <= Len(new)
  BY <1>1, <1>3, <1>5, <1>8, <1>9
<1>12. first <= oldLast /\ first <= newLast
  BY <1>3, <1>5, <1>11
<1>13. oldLast - oldEnd = newLast - newEnd
  BY <1>5, <1>10, <1>11
<1>14. Len(old) - oldLast = Len(new) - newLast
  <2>1. Len(old) - oldLast = suffix - (oldLast - oldEnd)
    BY <1>1, <1>4, <1>5, <1>11
  <2>2. Len(new) - newLast = suffix - (newLast - newEnd)
    BY <1>1, <1>4, <1>5, <1>11
  <2> QED BY <1>13, <2>1, <2>2
<1>15. ASSUME NEW k \in 1 .. Len(old) - oldLast PROVE old[oldLast + k] = new[newLast + k]
  <2>1. \A m, o, p, q, r, s, l \in Nat :
           1 <= l /\ l <= m - q /\ m - o = s /\ o <= q /\ q - o <= r - p /\ r - p <= q - o =>
              q - o + l \in 1 .. s /\ o + (q - o + l) = q + l /\ p + (q - o + l) = r + l
    OBVIOUS
  <2>2. /\ oldLast - oldEnd + k \in 1 .. suffix
        /\ oldEnd + (oldLast - oldEnd + k) = oldLast + k
        /\ newEnd + (oldLast - oldEnd + k) = newLast + k
    <3>1. k \in Nat /\ 1 <= k /\ k <= Len(old) - oldLast
      BY <1>1, <1>11
    <3> QED BY <3>1, <1>1, <1>4, <1>5, <1>10, <1>11, <2>1
  <2>3. old[oldEnd + (oldLast - oldEnd + k)] = new[newEnd + (oldLast - oldEnd + k)]
    BY <1>6, <2>2
  <2> QED BY <2>2, <2>3
<1>16. Slice(new, 0, first) = Slice(old, 0, first)
  <2>1. \A i \in 1 .. first : new[0 + i] = old[0 + i]
    BY <1>2, <1>3, <1>11
  <2>2. 0 + first <= Len(new) /\ 0 + first <= Len(old) /\ 0 + first = first
    BY <1>1, <1>3, <1>11
  <2>3. Slice(new, 0, 0 + first) = Slice(old, 0, 0 + first)
    <3>1. Alike(new, 0, old, 0, first)
      BY <2>1, <2>2 DEF Alike
    <3> QED BY <1>11, <3>1, SlicesEqual
  <2> QED BY <2>2, <2>3
<1>18. Slice(new, newLast, Len(new)) = Slice(old, oldLast, Len(old))
  <2> DEFINE n == Len(old) - oldLast
  <2>1. n \in Nat /\ oldLast + n = Len(old) /\ newLast + n = Len(new)
    BY <1>1, <1>11, <1>14
  <2>2. \A k \in 1 .. n : new[newLast + k] = old[oldLast + k]
    BY <1>15
  <2> HIDE DEF n
  <2>3. oldLast + n <= Len(old) /\ newLast + n <= Len(new)
    BY <1>1, <2>1
  <2>4. Slice(new, newLast, newLast + n) = Slice(old, oldLast, oldLast + n)
    <3>1. Alike(new, newLast, old, oldLast, n)
      BY <2>2, <2>3 DEF Alike
    <3> QED BY <1>11, <2>1, <3>1, SlicesEqual
  <2> QED BY <2>1, <2>4
<1>17. Slice(new, 0, first) \o Slice(old, first, oldLast)
          \o Slice(new, newLast, Len(new)) = old
  <2>1. Slice(old, 0, first) \o Slice(old, first, oldLast) \o Slice(old, oldLast, Len(old)) = old
    BY <1>11, <1>12, ThreeSlices
  <2> QED BY <1>16, <1>18, <2>1
<1> QED BY <1>7, <1>8, <1>11, <1>12, <1>17 DEF first, oldLast, newLast, oldEnd, newEnd, suffix, prefix

-----------------------------------------------------------------------------
\* What an edit promises of the text it was made from: After stands where the
\* edit starts; and of the text before: Before in its place gives it back.
StandsIn(e, new) ==
    LET from == OffsetForLine(new, e.start)
    IN  Slice(new, from, from + Len(e.after)) = e.after

Undoes(e, new, old) ==
    LET from == OffsetForLine(new, e.start)
        to == from + Len(e.after)
    IN  Slice(new, 0, from) \o e.before \o Slice(new, to, Len(new)) = old

\* The fields of an edit other than its path and its time.
HunkOver(X, e) ==
    /\ e.start \in Nat \ {0} /\ e.end \in Nat \ {0}
    /\ e.before \in Seq(X) /\ e.after \in Seq(X)

(***************************************************************************)
(* DiffEdit: an edit is worth keeping, is made of the characters of the    *)
(* texts, stands in the new one and, with both sides there, undoes it.     *)
(***************************************************************************)
LEMMA DiffEditFacts ==
    ASSUME NEW X, NEW old \in Seq(X), NEW new \in Seq(X), NEW path, NEW at,
           DiffEdit(path, old, new, at) # NoEdit
    PROVE  LET e == DiffEdit(path, old, new, at)
           IN  /\ e = Edit(path, e.start, e.end, e.before, e.after, at)
               /\ HunkOver(X, e) /\ Storable(e.before, e.after)
               /\ StandsIn(e, new)
               /\ <<>> \notin {e.before, e.after} => Undoes(e, new, old)
<1> DEFINE prefix == CommonPrefix(old, new)
           suffix == CommonSuffix(Slice(old, prefix, Len(old)),
                                  Slice(new, prefix, Len(new)))
           oldEnd == Len(old) - suffix
           newEnd == Len(new) - suffix
           first == LineStart(new, prefix)
           oldLast == LineEnd(old, oldEnd)
           newLast == LineEnd(new, newEnd)
           oldLines == Slice(old, first, oldLast)
           newLines == Slice(new, first, newLast)
           before == IF oldEnd = prefix THEN <<>> ELSE oldLines
           after == IF newEnd = prefix THEN <<>> ELSE newLines
           start == LineNumber(new, first)
           end == LineNumber(new, newLast)
           e == DiffEdit(path, old, new, at)
<1>1. /\ LineStart(old, prefix) = first
      /\ first \in Nat /\ oldLast \in Nat /\ newLast \in Nat
      /\ first <= newLast /\ newLast <= Len(new)
      /\ first <= oldLast /\ oldLast <= Len(old)
      /\ first # 0 => new[first] = NL
      /\ Slice(new, 0, first) \o oldLines \o Slice(new, newLast, Len(new)) = old
  BY HunkOfTexts
<1>2. /\ e = Edit(path, start, end, before, after, at)
      /\ Storable(before, after)
  BY <1>1 DEF DiffEdit
<1> HIDE DEF first, oldLast, newLast, oldEnd, newEnd, suffix, prefix
<1>3. Len(old) \in Nat /\ Len(new) \in Nat
  BY LenProperties
<1>4. /\ first \in 0 .. Len(new) /\ newLast \in 0 .. Len(new)
      /\ first \in 0 .. Len(old) /\ oldLast \in 0 .. Len(old)
  BY <1>1, <1>3
<1>5. oldLines \in Seq(X) /\ newLines \in Seq(X)
  BY <1>4, SliceFacts
<1>6. <<>> \in Seq(X) /\ Len(<<>>) = 0
  BY EmptySeq
<1>7. start \in Nat \ {0} /\ end \in Nat \ {0}
  BY <1>1, LineNumberFacts
<1>8. OffsetForLine(new, start) = first
  BY <1>1, <1>4, OffsetOfLineNumber
<1>9. Len(newLines) = newLast - first
  <2>1. Len(newLines) = IF first <= newLast THEN newLast - first ELSE 0
    BY <1>4, SliceFacts
  <2> QED BY <1>1, <2>1
<1> HIDE DEF oldLines, newLines, start, end
<1>10. before \in Seq(X) /\ after \in Seq(X)
  BY <1>5, <1>6
<1>11. first + Len(newLines) = newLast
  BY <1>1, <1>9
<1>12. Slice(new, first, first + Len(after)) = after
  <2>1. CASE newEnd = prefix
    <3>1. first + Len(after) = first
      BY <1>1, <1>6, <2>1
    <3>2. Slice(new, first, first) = <<>>
      BY <1>1, SubSeqEmpty DEF Slice
    <3> QED BY <2>1, <3>1, <3>2
  <2>2. CASE newEnd # prefix
    BY <1>11, <2>2 DEF newLines
  <2> QED BY <2>1, <2>2
<1>13. <<>> \notin {before, after} =>
          Slice(new, 0, first) \o before \o Slice(new, first + Len(after), Len(new)) = old
  BY <1>1, <1>11
<1> HIDE DEF before, after
<1>14. /\ e.start = start /\ e.end = end /\ e.before = before /\ e.after = after
  <2> HIDE DEF e
  <2> QED BY <1>2 DEF Edit
<1> HIDE DEF e
<1>15. e = Edit(path, e.start, e.end, e.before, e.after, at)
  BY <1>2, <1>14
<1>16. HunkOver(X, e) /\ Storable(e.before, e.after)
  BY <1>2, <1>7, <1>10, <1>14 DEF HunkOver
<1>17. StandsIn(e, new)
  BY <1>8, <1>12, <1>14 DEF StandsIn
<1>18. <<>> \notin {e.before, e.after} => Undoes(e, new, old)
  BY <1>8, <1>13, <1>14 DEF Undoes
<1> QED BY <1>15, <1>16, <1>17, <1>18 DEF e

\* MergeEdits: the merged edit stands in the new text too.
LEMMA MergeEditsFacts ==
    ASSUME NEW X, NEW old \in Seq(X), NEW new \in Seq(X), NEW time,
           NEW previous, NEW next, HunkOver(X, previous), HunkOver(X, next)
    PROVE  LET e == MergeEdits(previous, next, old, new, time)
           IN  /\ e = Edit(next.path, e.start, e.end, e.before, e.after, time)
               /\ HunkOver(X, e) /\ StandsIn(e, new)
<1> DEFINE starts == {previous.start, next.start}
           ends == {previous.end, next.end}
           first == Least(starts)
           last == Greatest(ends)
           before == LinesRange(old, first, last)
           after == LinesRange(new, first, last)
           e == MergeEdits(previous, next, old, new, time)
<1>1. e = Edit(next.path, first, last, before, after, time)
  BY DEF MergeEdits
<1>2. /\ previous.start \in Nat \ {0} /\ next.start \in Nat \ {0}
      /\ previous.end \in Nat \ {0} /\ next.end \in Nat \ {0}
  BY DEF HunkOver
<1>3. first \in Nat \ {0}
  <2>1. starts \in SUBSET Nat /\ starts # {} /\ 0 \notin starts
    BY <1>2
  <2> HIDE DEF starts
  <2> QED BY <2>1, LeastInSet
<1>4. last \in Nat \ {0}
  <2>1. ends \in SUBSET Nat /\ ends # {} /\ 0 \notin ends
    BY <1>2
  <2>2. previous.end + next.end \in Nat /\ \A x \in ends : x <= previous.end + next.end
    BY <1>2
  <2> HIDE DEF ends
  <2> QED BY <2>1, <2>2, GreatestInSet
<1> HIDE DEF first, last
<1> DEFINE from == OffsetForLine(new, first)
           to == OffsetForLine(new, last + 1)
<1>5. from \in 0 .. Len(new) /\ to \in 0 .. Len(new)
  BY OffsetForLineInText
<1>6. OffsetForLine(old, first) \in 0 .. Len(old) /\ OffsetForLine(old, last + 1) \in 0 .. Len(old)
  BY OffsetForLineInText
<1>7. before \in Seq(X) /\ after \in Seq(X)
  BY <1>5, <1>6, SliceFacts DEF LinesRange
<1>8. Slice(new, from, from + Len(after)) = after
  <2>1. after = Slice(new, from, to)
    BY DEF LinesRange
  <2> QED BY <1>5, <2>1, SliceAgain
<1> HIDE DEF before, after
<1>9. /\ e.start = first /\ e.end = last /\ e.before = before /\ e.after = after
  <2> HIDE DEF e
  <2> QED BY <1>1 DEF Edit
<1> HIDE DEF e
<1>10. e = Edit(next.path, e.start, e.end, e.before, e.after, time)
  BY <1>1, <1>9
<1>11. HunkOver(X, e)
  BY <1>3, <1>4, <1>7, <1>9 DEF HunkOver
<1>12. StandsIn(e, new)
  BY <1>8, <1>9 DEF StandsIn
<1> QED BY <1>10, <1>11, <1>12 DEF e

-----------------------------------------------------------------------------
(* Histories. *)

\* A finite set of edits that the time tells apart.
Timed(E) ==
    /\ IsFiniteSet(E)
    /\ \A e \in E : e.at \in Nat
    /\ \A e, f \in E : e.at = f.at => e = f

\* S is the n newest of G, or all of it.
IsNewest(S, G, n) ==
    /\ S \subseteq G
    /\ \A e \in S, f \in G : e.at < f.at => f \in S
    /\ Cardinality(S) <= n
    /\ S = G \/ Cardinality(S) = n

\* e is newer than all of A.
Newer(A, e) == \A f \in A : f.at < e.at

LEMMA TimedSubset ==
    ASSUME NEW G, Timed(G), NEW S \in SUBSET G
    PROVE  Timed(S) /\ Cardinality(S) \in Nat /\ Cardinality(S) <= Cardinality(G)
<1>1. IsFiniteSet(G)
  BY DEF Timed
<1>2. IsFiniteSet(S) /\ Cardinality(S) <= Cardinality(G)
  BY <1>1, FS_Subset
<1>3. Cardinality(S) \in Nat
  BY <1>2, FS_CardinalityType
<1> QED BY <1>2, <1>3 DEF Timed

LEMMA NewestSubset ==
    ASSUME NEW G, Timed(G), NEW n \in Nat, NEW S, NEW T,
           IsNewest(S, G, n), IsNewest(T, G, n), S \subseteq T
    PROVE  S = T
<1>1. S \in SUBSET G /\ T \in SUBSET G /\ S \in SUBSET T
  BY DEF IsNewest
<1>2. Timed(T) /\ IsFiniteSet(T)
  BY <1>1, TimedSubset DEF Timed
<1>3. Cardinality(S) <= Cardinality(T) /\ (Cardinality(T) = Cardinality(S) => T = S)
  BY <1>1, <1>2, FS_Subset
<1>4. Cardinality(T) \in Nat /\ Cardinality(S) \in Nat /\ Cardinality(T) <= n
  BY <1>1, TimedSubset DEF IsNewest
<1>5. CASE S = G
  BY <1>1, <1>5
<1>6. CASE Cardinality(S) = n
  BY <1>3, <1>4, <1>6
<1> QED BY <1>5, <1>6 DEF IsNewest

\* What the newest are is settled by the set and the number.
LEMMA NewestUnique ==
    ASSUME NEW G, Timed(G), NEW n \in Nat, NEW S, NEW T,
           IsNewest(S, G, n), IsNewest(T, G, n)
    PROVE  S = T
<1>1. CASE S \subseteq T
  BY <1>1, NewestSubset
<1>2. CASE T \subseteq S
  BY <1>2, NewestSubset
<1>3. ASSUME NEW e \in S, e \notin T, NEW f \in T, f \notin S PROVE FALSE
  <2>1. e \in G /\ f \in G
    BY DEF IsNewest
  <2>2. e # f /\ e.at \in Nat /\ f.at \in Nat /\ e.at # f.at
    BY <1>3, <2>1 DEF Timed
  <2>3. ~ (e.at < f.at) /\ ~ (f.at < e.at)
    BY <1>3, <2>1 DEF IsNewest
  <2> QED BY <2>2, <2>3
<1> QED BY <1>1, <1>2, <1>3

\* To keep the newest of one more than n, let the oldest go.
LEMMA NewestWithoutOldest ==
    ASSUME NEW G, Timed(G), NEW n \in Nat, Cardinality(G) = n + 1,
           NEW o \in G, \A e \in G : o.at <= e.at
    PROVE  IsNewest(G \ {o}, G, n)
<1>1. Cardinality(G \ {o}) = n
  <2>1. IsFiniteSet(G)
    BY DEF Timed
  <2>2. Cardinality(G \ {o}) = Cardinality(G) - 1
    BY <2>1, FS_RemoveElement
  <2> QED BY <2>2
<1>2. ASSUME NEW e \in G \ {o}, NEW f \in G, e.at < f.at PROVE f \in G \ {o}
  <2>1. o.at <= e.at /\ o.at \in Nat /\ e.at \in Nat /\ f.at \in Nat
    BY DEF Timed
  <2> QED BY <1>2, <2>1
<1>3. Cardinality(G \ {o}) <= n
  BY <1>1
<1> QED BY <1>1, <1>2, <1>3 DEF IsNewest

(***************************************************************************)
(* The two limits in turn.  S is what the project limit kept of G; A is    *)
(* the part of G in one file, whose newest element e becomes.  Then to     *)
(* limit S's part of the file with e, and the whole again, keeps what      *)
(* limiting the file in G and then the whole would: what S had lost        *)
(* before is not missed.                                                   *)
(***************************************************************************)
LEMMA NewestTwice ==
    ASSUME NEW G, NEW e, e \notin G, Timed(G \cup {e}),
           NEW m \in Nat \ {0}, NEW n \in Nat \ {0},
           NEW S, IsNewest(S, G, n),
           NEW A \in SUBSET G, Cardinality(A) <= m, Newer(A, e),
           NEW K, IsNewest(K, A \cup {e}, m),
           NEW L, IsNewest(L, (S \cap A) \cup {e}, m),
           NEW T, IsNewest(T, (S \ A) \cup L, n)
    PROVE  IsNewest(T, (G \ A) \cup K, n)
<1>0. \A f \in A : f.at < e.at
  BY DEF Newer
<1> DEFINE U == (S \ A) \cup L
           V == (G \ A) \cup K
           B == S \cap A
<1>1. /\ S \subseteq G /\ \A g \in S, f \in G : g.at < f.at => f \in S
      /\ Cardinality(S) <= n /\ (S = G \/ Cardinality(S) = n)
  BY DEF IsNewest
<1>2. /\ K \subseteq A \cup {e} /\ \A g \in K, f \in A \cup {e} : g.at < f.at => f \in K
      /\ Cardinality(K) <= m /\ (K = A \cup {e} \/ Cardinality(K) = m)
  BY DEF IsNewest
<1>3. /\ L \subseteq B \cup {e} /\ \A g \in L, f \in B \cup {e} : g.at < f.at => f \in L
      /\ Cardinality(L) <= m /\ (L = B \cup {e} \/ Cardinality(L) = m)
  BY DEF IsNewest
<1>4. /\ T \subseteq U /\ \A g \in T, f \in U : g.at < f.at => f \in T
      /\ Cardinality(T) <= n /\ (T = U \/ Cardinality(T) = n)
  BY DEF IsNewest
<1>5. /\ \A f \in G \cup {e} : f.at \in Nat
      /\ \A f, g \in G \cup {e} : f.at = g.at => f = g
      /\ IsFiniteSet(G \cup {e})
  BY DEF Timed
<1>6. ASSUME NEW X \in SUBSET (G \cup {e})
      PROVE  IsFiniteSet(X) /\ Cardinality(X) \in Nat /\ Timed(X)
  BY TimedSubset DEF Timed
<1>7. ASSUME NEW X \in SUBSET (G \cup {e}), NEW Y \in SUBSET X
      PROVE  Cardinality(Y) <= Cardinality(X) /\ (Cardinality(X) = Cardinality(Y) => X = Y)
  BY <1>6, FS_Subset
<1> HIDE DEF U, V, B
<1>8. /\ A \subseteq G \cup {e} /\ B \subseteq A /\ B \subseteq S /\ S \subseteq G \cup {e}
      /\ B \cup {e} \subseteq G \cup {e} /\ A \cup {e} \subseteq G \cup {e}
      /\ K \subseteq G \cup {e} /\ L \subseteq G \cup {e} /\ T \subseteq G \cup {e}
      /\ U \subseteq G \cup {e} /\ V \subseteq G \cup {e}
  BY <1>1, <1>2, <1>3, <1>4 DEF U, V, B
\* The new edit is the newest of its file, so it is kept there.
<1>9. e \in L
  <2> SUFFICES ASSUME e \notin L PROVE FALSE
    OBVIOUS
  <2>1. Cardinality(L) = m
    BY <1>3
  <2>2. L # {}
    BY <2>1, FS_EmptySet
  <2>3. PICK g \in L : TRUE
    BY <2>2
  <2>4. g \in A /\ g.at < e.at
    BY <1>0, <1>3, <1>8
  <2> QED BY <1>3, <2>3, <2>4
\* What the small file keeps, the whole file keeps.
<1>10. L \subseteq K
  <2> SUFFICES ASSUME NEW b \in L, b \notin K PROVE FALSE
    OBVIOUS
  <2>1. Cardinality(K) = m /\ b \in A \cup {e}
    BY <1>2, <1>3, <1>8
  <2>2. K \subseteq L
    <3> SUFFICES ASSUME NEW k \in K PROVE k \in L
      OBVIOUS
    <3>1. k \in A \cup {e} /\ k # b /\ ~ (k.at < b.at)
      BY <1>2, <2>1
    <3>2. k \in G \cup {e} /\ b \in G \cup {e}
      BY <1>8, <2>1, <3>1
    <3>3. k.at # b.at /\ k.at \in Nat /\ b.at \in Nat
      BY <1>5, <3>1, <3>2
    <3>4. b.at < k.at
      BY <3>1, <3>3
    <3>5. CASE k = e
      BY <1>9, <3>5
    <3>6. CASE k # e
      <4>1. k \in A /\ k.at < e.at /\ k \in G
        BY <1>0, <3>1, <3>6
      <4>2. b \in S
        <5>1. b # e
          BY <3>4, <4>1, <3>3
        <5> QED BY <1>3, <1>8, <5>1
      <4>3. k \in B
        BY <1>1, <3>4, <4>1, <4>2 DEF B
      <4> QED BY <1>3, <3>4, <4>3
    <3> QED BY <3>5, <3>6
  <2>3. Cardinality(K) <= Cardinality(L) /\ (Cardinality(L) = Cardinality(K) => L = K)
    BY <1>7, <1>8, <2>2
  <2>4. Cardinality(L) \in Nat /\ Cardinality(K) \in Nat
    BY <1>6, <1>8
  <2> QED BY <1>3, <2>1, <2>3, <2>4
<1>11. U \subseteq V
  BY <1>1, <1>10 DEF U, V
\* An edit of the file that S still had and L let go, K let go too.
<1>12. ASSUME NEW f \in B, f \notin L PROVE f \notin K
  <2> SUFFICES ASSUME f \in K PROVE FALSE
    OBVIOUS
  <2>1. Cardinality(L) = m
    BY <1>3, <1>12
  <2>2. Cardinality(L) <= Cardinality(K) /\ (Cardinality(K) = Cardinality(L) => K = L)
    BY <1>7, <1>8, <1>10
  <2>3. Cardinality(L) \in Nat /\ Cardinality(K) \in Nat
    BY <1>6, <1>8
  <2> QED BY <1>2, <1>12, <2>1, <2>2, <2>3
<1>13. ASSUME NEW g \in T, NEW f \in V, g.at < f.at PROVE f \in T
  <2> SUFFICES ASSUME f \notin U PROVE FALSE
    BY <1>4, <1>13
  <2>1. f # e /\ f \in G
    BY <1>2, <1>9, <1>8 DEF U, V
  <2>2. f \notin S
    <3> SUFFICES ASSUME f \in S PROVE FALSE
      OBVIOUS
    <3>1. f \in A
      BY DEF U
    <3>2. f \in B /\ f \notin L /\ f \in K
      BY <3>1 DEF U, V, B
    <3> QED BY <1>12, <3>2
  <2>3. g \in S \cup {e}
    BY <1>3, <1>4, <1>8 DEF U
  <2>4. g = e
    BY <1>1, <1>13, <2>1, <2>2, <2>3
  <2>5. f \notin A
    BY <1>0, <1>5, <1>13, <2>1, <2>4, <1>8
  \* All of S is newer than f, and f than e: the file has nothing in S.
  <2>6. ASSUME NEW s \in S PROVE f.at < s.at /\ e.at < s.at
    <3>1. ~ (s.at < f.at) /\ s # f /\ s \in G \cup {e} /\ f \in G \cup {e}
      BY <1>1, <2>1, <2>2
    <3>2. s.at \in Nat /\ f.at \in Nat /\ e.at \in Nat /\ s.at # f.at
      BY <1>5, <3>1
    <3> QED BY <1>13, <2>4, <3>1, <3>2
  <2>7. B = {}
    <3>1. ASSUME NEW s \in B PROVE FALSE
      <4>1. s \in S /\ s.at < e.at /\ s \in G \cup {e}
        BY <1>0, <1>8
      <4>2. s.at \in Nat /\ e.at \in Nat
        BY <1>5, <4>1
      <4> QED BY <2>6, <4>1, <4>2
    <3> QED BY <3>1
  <2>8. U = S \cup {e}
    BY <1>3, <1>9, <2>7 DEF U, B
  <2>9. T = U
    <3>1. S \subseteq T
      BY <1>4, <1>13, <2>4, <2>6, <2>8
    <3> QED BY <1>4, <1>13, <2>4, <2>8, <3>1
  <2>10. Cardinality(S) = n
    BY <1>1, <2>1, <2>2
  <2>11. Cardinality(U) = n + 1
    <3>1. e \notin S /\ IsFiniteSet(S)
      BY <1>1, <1>6, <1>8
    <3> QED BY <2>8, <2>10, <3>1, FS_AddElement
  <2> QED BY <1>4, <2>9, <2>11
<1>14. ASSUME Cardinality(T) # n PROVE T = V
  <2>1. T = U
    BY <1>4, <1>14
  <2>2. Cardinality(B) <= Cardinality(L)
    <3>1. CASE L = B \cup {e}
      BY <1>7, <1>8, <3>1
    <3>2. CASE Cardinality(L) = m
      <4>1. Cardinality(B) <= Cardinality(A) /\ Cardinality(A) \in Nat /\ Cardinality(B) \in Nat
        BY <1>6, <1>7, <1>8
      <4> QED BY <3>2, <4>1
    <3> QED BY <1>3, <3>1, <3>2
  <2>3. Cardinality(S) <= Cardinality(U)
    <3> DEFINE R == S \ A
    <3>1. S = R \cup B /\ U = R \cup L /\ R \cap B = {} /\ R \cap L = {}
      BY <1>1, <1>3 DEF U, B
    <3>2. R \subseteq G \cup {e}
      BY <1>8
    <3> HIDE DEF R
    <3>3. IsFiniteSet(R) /\ IsFiniteSet(B) /\ IsFiniteSet(L)
      BY <1>6, <1>8, <3>2
    <3>4. Cardinality(R \cup B) = Cardinality(R) + Cardinality(B) - Cardinality(R \cap B)
      BY <3>3, FS_Union
    <3>5. Cardinality(R \cup L) = Cardinality(R) + Cardinality(L) - Cardinality(R \cap L)
      BY <3>3, FS_Union
    <3>6. Cardinality({}) = 0
      BY FS_EmptySet
    <3>7. Cardinality(R) \in Nat /\ Cardinality(B) \in Nat /\ Cardinality(L) \in Nat
      BY <3>3, FS_CardinalityType
    <3>8. Cardinality(S) = Cardinality(R) + Cardinality(B)
      <4>1. Cardinality(R \cap B) = 0 /\ Cardinality(S) = Cardinality(R \cup B)
        BY <3>1, <3>6
      <4> QED BY <3>4, <3>7, <4>1
    <3>9. Cardinality(U) = Cardinality(R) + Cardinality(L)
      <4>1. Cardinality(R \cap L) = 0 /\ Cardinality(U) = Cardinality(R \cup L)
        BY <3>1, <3>6
      <4> QED BY <3>5, <3>7, <4>1
    <3> QED BY <2>2, <3>7, <3>8, <3>9
  <2>4. S = G
    <3>1. Cardinality(T) \in Nat /\ Cardinality(S) \in Nat
      BY <1>6, <1>8
    <3> QED BY <1>1, <1>4, <1>14, <2>1, <2>3, <3>1
  <2>5. B = A
    BY <2>4 DEF B
  <2>6. L = K
    <3>1. IsNewest(L, A \cup {e}, m)
      BY <2>5 DEF B
    <3>2. Timed(A \cup {e})
      BY <1>6, <1>8
    <3> QED BY <3>1, <3>2, NewestUnique
  <2> QED BY <2>1, <2>4, <2>6 DEF U, V
<1>15. T \subseteq V
  BY <1>4, <1>11
<1>16. IsNewest(T, V, n)
  BY <1>4, <1>13, <1>14, <1>15 DEF IsNewest
<1> QED BY <1>16 DEF V

-----------------------------------------------------------------------------
\* The edits of a file in the order of their times.
Ordered(s) == \A i, j \in DOMAIN s : i < j => s[i].at < s[j].at

\* What files always is: edits under their own paths, in order, and no two of
\* the same time.
IsHistory(h) ==
    /\ h \in [Paths -> Seq(Edits)]
    /\ \A p \in Paths : \A i \in DOMAIN h[p] : h[p][i].path = p
    /\ \A p \in Paths : Ordered(h[p])
    /\ \A e, f \in EditsOf(h) : e.at = f.at => e = f

LEMMA EditFields ==
    ASSUME NEW e \in Edits
    PROVE  /\ e.path \in Paths /\ e.path \in GoPaths /\ e.at \in Nat /\ e.at \in 1 .. MaxNow
           /\ HunkOver(Characters, e)
BY HistoryAssumption DEF Edits, HunkOver

LEMMA SetOfSeq ==
    ASSUME NEW X, NEW s \in Seq(X)
    PROVE  /\ ToSet(s) = {s[i] : i \in 1 .. Len(s)} /\ ToSet(s) \subseteq X
           /\ DOMAIN s = 1 .. Len(s) /\ Len(s) \in Nat
           /\ \A i \in 1 .. Len(s) : s[i] \in ToSet(s) /\ s[i] \in X
           /\ s = <<>> <=> Len(s) = 0
<1>1. /\ Len(s) \in Nat /\ s \in [1 .. Len(s) -> X] /\ DOMAIN s = 1 .. Len(s)
  BY LenProperties
<1>2. s = <<>> <=> Len(s) = 0
  BY EmptySeq
<1> QED BY <1>1, <1>2 DEF ToSet

\* As many edits as places.
LEMMA OrderedSize ==
    ASSUME NEW s \in Seq(Edits), Ordered(s)
    PROVE  IsFiniteSet(ToSet(s)) /\ Cardinality(ToSet(s)) = Len(s)
<1>1. /\ Len(s) \in Nat /\ s \in [1 .. Len(s) -> ToSet(s)]
      /\ DOMAIN s = 1 .. Len(s) /\ ToSet(s) = {s[i] : i \in 1 .. Len(s)}
      /\ \A i \in 1 .. Len(s) : s[i].at \in Nat
  <2>1. s \in [1 .. Len(s) -> Edits]
    BY LenProperties
  <2> QED BY <2>1, SetOfSeq, EditFields
<1>2. ASSUME NEW i \in 1 .. Len(s), NEW j \in 1 .. Len(s), s[i] = s[j] PROVE i = j
  <2>1. ~ (i < j) /\ ~ (j < i)
    BY <1>1, <1>2 DEF Ordered
  <2> QED BY <1>1, <2>1
<1>3. s \in Injection(1 .. Len(s), ToSet(s))
  BY <1>1, <1>2 DEF Injection, IsInjective
<1>4. s \in Surjection(1 .. Len(s), ToSet(s))
  BY <1>1 DEF Surjection
<1>5. ExistsBijection(1 .. Len(s), ToSet(s))
  BY <1>3, <1>4 DEF ExistsBijection, Bijection
<1>6. IsFiniteSet(ToSet(s))
  BY <1>1, <1>5, FS_NatBijection
<1> QED BY <1>1, <1>5, <1>6, FS_CountingElements

LEMMA HistoryFacts ==
    ASSUME NEW h, IsHistory(h)
    PROVE  /\ EditsOf(h) \subseteq Edits
           /\ Timed(EditsOf(h))
           /\ Total(h) = Cardinality(EditsOf(h))
<1>1. /\ h \in [Paths -> Seq(Edits)]
      /\ \A p \in Paths : \A i \in 1 .. Len(h[p]) : h[p][i].path = p /\ h[p][i] \in Edits
      /\ \A p \in Paths : DOMAIN h[p] = 1 .. Len(h[p]) /\ Len(h[p]) \in Nat
      /\ \A p \in Paths : ToSet(h[p]) = {h[p][i] : i \in 1 .. Len(h[p])}
  BY SetOfSeq DEF IsHistory
<1>2. EditsOf(h) \subseteq Edits
  BY <1>1 DEF EditsOf
<1> DEFINE E == EditsOf(h)
           S == Slots(h)
           time == [e \in E |-> e.at]
           edit == [s \in S |-> h[s[1]][s[2]]]
<1>3. IsFiniteSet(E)
  <2>1. MaxNow \in Nat
    BY HistoryAssumption
  <2>2. IsFiniteSet(1 .. MaxNow)
    BY <2>1, FS_Interval
  <2>3. time \in Injection(E, 1 .. MaxNow)
    <3>1. time \in [E -> 1 .. MaxNow]
      BY <1>2, EditFields
    <3>2. \A e, f \in E : time[e] = time[f] => e = f
      BY DEF IsHistory
    <3> HIDE DEF time
    <3> QED BY <3>1, <3>2 DEF Injection, IsInjective
  <2> HIDE DEF time, E
  <2> QED BY <2>2, <2>3, FS_Injection
<1>4. Timed(E)
  BY <1>2, <1>3, EditFields DEF Timed, IsHistory
<1>5. S = {s \in Paths \X Nat : s[2] \in 1 .. Len(h[s[1]])}
  BY <1>1 DEF Slots
<1>6. edit \in [S -> E]
  BY <1>1, <1>5 DEF EditsOf
<1>7. ASSUME NEW s \in S, NEW t \in S, edit[s] = edit[t] PROVE s = t
  <2>1. /\ s[1] \in Paths /\ s[2] \in 1 .. Len(h[s[1]]) /\ s = <<s[1], s[2]>>
        /\ t[1] \in Paths /\ t[2] \in 1 .. Len(h[t[1]]) /\ t = <<t[1], t[2]>>
    BY <1>5
  <2>2. h[s[1]][s[2]] = h[t[1]][t[2]]
    BY <1>7
  <2>3. s[1] = t[1]
    BY <1>1, <2>1, <2>2
  <2>4. ~ (s[2] < t[2]) /\ ~ (t[2] < s[2])
    <3>1. h[s[1]][s[2]].at \in Nat /\ Ordered(h[s[1]])
      BY <1>1, <2>1, EditFields DEF IsHistory
    <3> QED BY <1>1, <2>1, <2>2, <2>3, <3>1 DEF Ordered
  <2>5. s[2] \in Nat /\ t[2] \in Nat
    BY <1>1, <2>1
  <2> QED BY <2>1, <2>3, <2>4, <2>5
<1>8. ASSUME NEW e \in E PROVE \E s \in S : edit[s] = e
  <2>1. PICK p \in Paths : e \in ToSet(h[p])
    BY DEF EditsOf
  <2>2. PICK i \in 1 .. Len(h[p]) : e = h[p][i]
    BY <1>1, <2>1
  <2>3. <<p, i>> \in S
    BY <1>1, <1>5
  <2> QED BY <2>2, <2>3
<1> HIDE DEF E, S, edit
<1>9. ExistsBijection(S, E)
  <2>1. edit \in Injection(S, E)
    BY <1>6, <1>7 DEF Injection, IsInjective
  <2>2. edit \in Surjection(S, E)
    BY <1>6, <1>8 DEF Surjection
  <2> QED BY <2>1, <2>2 DEF ExistsBijection, Bijection
<1>10. IsFiniteSet(S)
  <2>1. edit \in Injection(S, E)
    BY <1>6, <1>7 DEF Injection, IsInjective
  <2> QED BY <1>3, <2>1, FS_Injection
<1>11. Cardinality(E) = Cardinality(S)
  BY <1>9, <1>10, FS_Bijection
<1> QED BY <1>2, <1>4, <1>11 DEF E, S, Total

\* The edits of a file are those of the history that have its path.
LEMMA FileOfHistory ==
    ASSUME NEW h, IsHistory(h), NEW p \in Paths
    PROVE  /\ ToSet(h[p]) = {e \in EditsOf(h) : e.path = p}
           /\ h[p] \in Seq(Edits) /\ Ordered(h[p])
           /\ Len(h[p]) \in Nat /\ Cardinality(ToSet(h[p])) = Len(h[p])
<1>1. /\ h[p] \in Seq(Edits) /\ Ordered(h[p])
  BY DEF IsHistory
<1>2. Len(h[p]) \in Nat /\ Cardinality(ToSet(h[p])) = Len(h[p])
  BY <1>1, OrderedSize, SetOfSeq
<1>3. \A q \in Paths : \A e \in ToSet(h[q]) : e.path = q
  BY DEF IsHistory, ToSet
<1>4. ToSet(h[p]) = {e \in EditsOf(h) : e.path = p}
  BY <1>3 DEF EditsOf
<1> QED BY <1>1, <1>2, <1>4

\* Two ordered sequences of the same edits are the same sequence.
LEMMA OrderedUnique ==
    ASSUME NEW s \in Seq(Edits), NEW t \in Seq(Edits), Ordered(s), Ordered(t),
           ToSet(s) = ToSet(t)
    PROVE  s = t
<1>1. Len(s) = Len(t)
  BY OrderedSize
<1>2. /\ Len(s) \in Nat /\ DOMAIN s = 1 .. Len(s) /\ DOMAIN t = 1 .. Len(s)
      /\ ToSet(s) = {s[i] : i \in 1 .. Len(s)} /\ ToSet(s) = {t[i] : i \in 1 .. Len(s)}
      /\ \A i \in 1 .. Len(s) : s[i].at \in Nat /\ t[i].at \in Nat
  BY <1>1, SetOfSeq, EditFields
<1> DEFINE Same == {i \in 0 .. Len(s) : \A j \in 1 .. i : s[j] = t[j]}
<1>3. 0 \in Same
  BY <1>2
<1>4. ASSUME NEW i \in 1 .. Len(s), i - 1 \in Same PROVE i \in Same
  <2>1. \A j \in 1 .. i - 1 : s[j] = t[j]
    BY <1>4
  <2>2. PICK k \in 1 .. Len(s) : s[i] = t[k]
    BY <1>2
  <2>3. PICK l \in 1 .. Len(s) : t[i] = s[l]
    BY <1>2
  <2>4. i <= k
    <3> SUFFICES ASSUME k < i PROVE FALSE
      OBVIOUS
    <3>1. s[i] = s[k]
      BY <2>1, <2>2
    <3>2. s[k].at < s[i].at
      BY <1>2 DEF Ordered
    <3> QED BY <1>2, <3>1, <3>2
  <2>5. i <= l
    <3> SUFFICES ASSUME l < i PROVE FALSE
      OBVIOUS
    <3>1. t[i] = t[l]
      BY <2>1, <2>3
    <3>2. t[l].at < t[i].at
      BY <1>2 DEF Ordered
    <3> QED BY <1>2, <3>1, <3>2
  <2>6. k = i
    <3> SUFFICES ASSUME i < k PROVE FALSE
      BY <2>4
    <3>1. t[i].at < t[k].at
      BY <1>2 DEF Ordered
    <3>2. i < l => s[i].at < s[l].at
      BY <1>2 DEF Ordered
    <3>3. i = l \/ i < l
      BY <1>2, <2>5
    <3>4. /\ s[i].at \in Nat /\ t[i].at \in Nat /\ t[k].at \in Nat /\ s[l].at \in Nat
          /\ s[i].at = t[k].at /\ t[i].at = s[l].at
      BY <1>2, <2>2, <2>3
    <3> QED BY <3>1, <3>2, <3>3, <3>4
  <2>7. s[i] = t[i]
    BY <2>2, <2>6
  <2> QED BY <1>2, <2>1, <2>7
<1>5. Len(s) \in Same
  <2> HIDE DEF Same
  <2>1. 0 .. Len(s) \subseteq Same
    BY <1>2, <1>3, <1>4, Induction
  <2>2. Len(s) \in 0 .. Len(s)
    BY <1>2
  <2> QED BY <2>1, <2>2
<1>6. \A j \in 1 .. Len(s) : s[j] = t[j]
  BY <1>5
<1> QED BY <1>1, <1>6, SeqEqual

\* A history is known by its edits.
LEMMA SameHistory ==
    ASSUME NEW g, NEW h, IsHistory(g), IsHistory(h), EditsOf(g) = EditsOf(h)
    PROVE  g = h
<1>1. ASSUME NEW p \in Paths PROVE g[p] = h[p]
  <2>1. ToSet(g[p]) = {e \in EditsOf(g) : e.path = p}
    BY FileOfHistory
  <2>2. ToSet(h[p]) = {e \in EditsOf(h) : e.path = p}
    BY FileOfHistory
  <2>3. ToSet(g[p]) = ToSet(h[p])
    BY <2>1, <2>2
  <2>4. /\ g[p] \in Seq(Edits) /\ Ordered(g[p])
        /\ h[p] \in Seq(Edits) /\ Ordered(h[p])
    BY FileOfHistory
  <2> QED BY <2>3, <2>4, OrderedUnique
<1>2. g \in [Paths -> Seq(Edits)] /\ h \in [Paths -> Seq(Edits)]
  BY DEF IsHistory
<1> QED BY <1>1, <1>2

-----------------------------------------------------------------------------
\* The first edit of a file is its oldest; the others stay as they are.
LEMMA TailOfOrdered ==
    ASSUME NEW s \in Seq(Edits), Ordered(s), s # <<>>
    PROVE  /\ Tail(s) \in Seq(Edits) /\ Len(Tail(s)) = Len(s) - 1 /\ Ordered(Tail(s))
           /\ ToSet(Tail(s)) = ToSet(s) \ {s[1]}
           /\ s[1] \in ToSet(s) /\ \A f \in ToSet(s) : s[1].at <= f.at
<1> DEFINE t == Tail(s)
           n == Len(s) - 1
<1>1. /\ t \in Seq(Edits) /\ Len(t) = n
      /\ \A i \in 1 .. Len(t) : t[i] = s[i + 1]
  BY HeadTailProperties
<1>2. /\ n \in Nat /\ Len(s) = n + 1
      /\ DOMAIN s = 1 .. n + 1 /\ ToSet(s) = {s[i] : i \in 1 .. n + 1}
      /\ \A i \in 1 .. n + 1 : s[i].at \in Nat
  <2>1. Len(s) \in Nat /\ Len(s) # 0
    BY SetOfSeq
  <2>2. n \in Nat /\ Len(s) = n + 1
    BY <2>1
  <2> HIDE DEF n
  <2> QED BY <2>2, SetOfSeq, EditFields
<1> HIDE DEF t, n
<1>3. DOMAIN t = 1 .. n /\ ToSet(t) = {t[i] : i \in 1 .. n} /\ \A i \in 1 .. n : t[i] = s[i + 1]
  BY <1>1, SetOfSeq
<1>4. Ordered(t)
  <2>1. ASSUME NEW i \in 1 .. n, NEW j \in 1 .. n, i < j PROVE t[i].at < t[j].at
    <3>1. i + 1 \in 1 .. n + 1 /\ j + 1 \in 1 .. n + 1 /\ i + 1 < j + 1
      BY <1>2, <2>1
    <3>2. s[i + 1].at < s[j + 1].at
      BY <1>2, <3>1 DEF Ordered
    <3> QED BY <1>3, <3>2
  <2> QED BY <1>3, <2>1 DEF Ordered
<1>5. 1 \in 1 .. n + 1
  BY <1>2
<1>6. ASSUME NEW i \in 2 .. n + 1 PROVE s[i] \in ToSet(t) /\ s[1].at < s[i].at
  <2>1. i - 1 \in 1 .. n /\ i - 1 + 1 = i /\ i \in 1 .. n + 1 /\ 1 < i
    BY <1>2
  <2>2. s[1].at < s[i].at
    BY <1>2, <1>5, <2>1 DEF Ordered
  <2>3. s[i] = t[i - 1]
    BY <1>3, <2>1
  <2> QED BY <1>3, <2>1, <2>2, <2>3
<1>7. ASSUME NEW f \in ToSet(t) PROVE f \in ToSet(s) \ {s[1]}
  <2>1. PICK i \in 1 .. n : f = t[i]
    BY <1>3
  <2>2. f = s[i + 1] /\ i + 1 \in 2 .. n + 1 /\ i + 1 \in 1 .. n + 1
    BY <1>2, <1>3, <2>1
  <2>3. f.at \in Nat /\ s[1].at < f.at
    BY <1>2, <1>6, <2>2
  <2> QED BY <1>2, <2>2, <2>3
<1>8. ASSUME NEW f \in ToSet(s) PROVE f = s[1] \/ (f \in ToSet(t) /\ s[1].at < f.at)
  <2>1. PICK i \in 1 .. n + 1 : f = s[i]
    BY <1>2
  <2>2. i = 1 \/ i \in 2 .. n + 1
    BY <1>2
  <2> QED BY <1>6, <2>1, <2>2
<1>9. ASSUME NEW f \in ToSet(s) PROVE s[1].at <= f.at
  <2>1. s[1].at \in Nat /\ f.at \in Nat
    BY <1>2, <1>5
  <2> QED BY <1>8, <2>1
<1>10. s[1] \in ToSet(s)
  BY <1>2, <1>5
<1>11. ToSet(t) = ToSet(s) \ {s[1]}
  BY <1>7, <1>8
<1> QED BY <1>1, <1>4, <1>9, <1>10, <1>11 DEF t, n

-----------------------------------------------------------------------------
\* enforceFileLimit: the newest of the file with the new edit in it, in order.
LEMMA FileLimitKeepsNewest ==
    ASSUME NEW s \in Seq(Edits), Ordered(s), Len(s) <= MaxEditsPerFile,
           NEW e \in Edits, \A i \in DOMAIN s : s[i].at < e.at
    PROVE  LET t == EnforceFileLimit(Append(s, e))
           IN  /\ t \in Seq(Edits) /\ Ordered(t) /\ t # <<>>
               /\ IsNewest(ToSet(t), ToSet(s) \cup {e}, MaxEditsPerFile)
<1> DEFINE m == MaxEditsPerFile
           u == Append(s, e)
           t == EnforceFileLimit(u)
           n == Len(s)
<1>1. m \in Nat \ {0} /\ n \in Nat /\ DOMAIN s = 1 .. n /\ n <= m /\ 1 <= m
  BY HistoryAssumption, SetOfSeq
<1>2. /\ u \in Seq(Edits) /\ Len(u) = n + 1 /\ DOMAIN u = 1 .. n + 1
      /\ (\A i \in 1 .. n : u[i] = s[i]) /\ u[n + 1] = e
  <2>1. u \in Seq(Edits) /\ Len(u) = n + 1
    BY AppendProperties
  <2>2. (\A i \in 1 .. n : u[i] = s[i]) /\ u[n + 1] = e
    BY AppendProperties
  <2> QED BY <2>1, <2>2, SetOfSeq
<1>3. Ordered(u)
  BY <1>1, <1>2 DEF Ordered
<1>4. ToSet(u) = ToSet(s) \cup {e}
  <2>1. ToSet(u) = {u[i] : i \in 1 .. n + 1} /\ ToSet(s) = {s[i] : i \in 1 .. n}
    BY <1>2, SetOfSeq
  <2>2. \A i \in 1 .. n + 1 : i \in 1 .. n \/ i = n + 1
    BY <1>1
  <2>3. 1 .. n \subseteq 1 .. n + 1 /\ n + 1 \in 1 .. n + 1
    BY <1>1
  <2> HIDE DEF u, n
  <2> QED BY <1>2, <2>1, <2>2, <2>3
<1>5. /\ Len(u) <= m => t = SubSeq(u, 1, Len(u))
      /\ Len(u) > m => t = SubSeq(u, Len(u) - m + 1, Len(u))
  <2> HIDE DEF u
  <2>1. Len(u) \in Nat /\ m \in Nat
    BY <1>1, <1>2
  <2>2. t = SubSeq(u, IF Len(u) > m THEN Len(u) - m + 1 ELSE 1, Len(u))
    BY DEF EnforceFileLimit
  <2> HIDE DEF t, m
  <2>3. ASSUME Len(u) <= m PROVE t = SubSeq(u, 1, Len(u))
    <3>1. ~ (Len(u) > m)
      BY <2>1, <2>3
    <3> QED BY <2>2, <3>1, Zenon
  <2>4. ASSUME Len(u) > m PROVE t = SubSeq(u, Len(u) - m + 1, Len(u))
    BY <2>2, <2>4, Zenon
  <2> QED BY <2>3, <2>4
<1>6. Cardinality(ToSet(u)) = n + 1 /\ IsFiniteSet(ToSet(u))
  BY <1>2, <1>3, OrderedSize
<1>7. Timed(ToSet(u))
  <2>1. ToSet(u) = {u[i] : i \in 1 .. n + 1} /\ \A i \in 1 .. n + 1 : u[i].at \in Nat
    BY <1>2, SetOfSeq, EditFields
  <2>2. \A i, j \in 1 .. n + 1 : u[i].at = u[j].at => u[i] = u[j]
    <3> SUFFICES ASSUME NEW i \in 1 .. n + 1, NEW j \in 1 .. n + 1, u[i].at = u[j].at
                 PROVE  i = j
      OBVIOUS
    <3>1. ~ (i < j) /\ ~ (j < i)
      BY <1>2, <1>3, <2>1 DEF Ordered
    <3> QED BY <1>1, <3>1
  <2> HIDE DEF u, n
  <2> QED BY <1>6, <2>1, <2>2 DEF Timed
<1>8. CASE n + 1 <= m
  <2>1. t = u
    <3>1. SubSeq(u, 1, Len(u)) = u
      BY <1>2, SubSeqFull
    <3> HIDE DEF t, u, n, m
    <3>2. Len(u) <= m
      BY <1>2, <1>8
    <3> QED BY <1>5, <3>1, <3>2
  <2>2. IsNewest(ToSet(u), ToSet(u), m)
    BY <1>6, <1>8 DEF IsNewest
  <2>3. u # <<>>
    BY <1>1, <1>2, EmptySeq
  <2> HIDE DEF t, u
  <2>4. t \in Seq(Edits) /\ Ordered(t) /\ t # <<>>
    BY <1>2, <1>3, <2>1, <2>3
  <2>5. IsNewest(ToSet(t), ToSet(s) \cup {e}, m)
    BY <1>4, <2>1, <2>2
  <2> QED BY <2>4, <2>5 DEF t, u
<1>9. CASE ~ (n + 1 <= m)
  <2>1. n = m /\ 1 <= n
    <3> HIDE DEF n, m
    <3> QED BY <1>1, <1>9
  <2>2. t = SubSeq(u, 2, n + 1)
    <3> HIDE DEF t, u
    <3>1. Len(u) > m /\ Len(u) - m + 1 = 2
      BY <1>1, <1>2, <2>1
    <3> QED BY <1>2, <1>5, <3>1
  <2>3. t = Tail(u) /\ u # <<>>
    <3>1. u # <<>>
      BY <1>1, <1>2, EmptySeq
    <3> HIDE DEF t, u
    <3> QED BY <1>2, <2>2, <3>1, TailIsSubSeq
  <2>4. /\ t \in Seq(Edits) /\ Len(t) = Len(u) - 1 /\ Ordered(t)
        /\ ToSet(t) = ToSet(u) \ {u[1]}
        /\ u[1] \in ToSet(u) /\ \A f \in ToSet(u) : u[1].at <= f.at
    <3> HIDE DEF t, u
    <3> QED BY <1>2, <1>3, <2>3, TailOfOrdered
  <2> HIDE DEF t, u, n, m
  <2>5. t # <<>>
    <3>1. Len(t) # 0
      BY <1>1, <1>2, <2>1, <2>4
    <3> QED BY <2>4, <3>1, SetOfSeq
  <2>9. IsNewest(ToSet(t), ToSet(u), m)
    BY <1>1, <1>6, <1>7, <2>1, <2>4, NewestWithoutOldest
  <2> QED BY <1>4, <2>4, <2>5, <2>9 DEF t, u, n, m
<1> QED BY <1>8, <1>9

\* oldestPath: the file whose first edit is the oldest of all edits.
LEMMA OldestPathFacts ==
    ASSUME NEW h, IsHistory(h), EditsOf(h) # {}
    PROVE  LET p == OldestPath(h)
           IN  /\ p \in Paths /\ h[p] # <<>>
               /\ \A e \in EditsOf(h) : h[p][1].at <= e.at
<1> DEFINE Used == {p \in Paths : h[p] # <<>>}
           Firsts == {h[p][1].at : p \in Used}
           p == OldestPath(h)
<1>1. ASSUME NEW q \in Paths
      PROVE  h[q] \in Seq(Edits) /\ Ordered(h[q])
  BY DEF IsHistory
<1>2. ASSUME NEW q \in Paths, NEW e \in ToSet(h[q])
      PROVE  /\ h[q] # <<>> /\ e \in Edits
  BY <1>1, SetOfSeq
<1>3. ASSUME NEW q \in Used
      PROVE  /\ h[q][1].at \in Nat
             /\ \A e \in ToSet(h[q]) : h[q][1].at <= e.at
  BY <1>1, <1>2, TailOfOrdered, EditFields
<1>4. Firsts \in SUBSET Nat /\ Firsts # {}
  <2>1. PICK e \in EditsOf(h) : TRUE
    OBVIOUS
  <2>2. PICK q \in Paths : e \in ToSet(h[q])
    BY <2>1 DEF EditsOf
  <2>3. q \in Used
    BY <1>2, <2>2
  <2> QED BY <1>3, <2>3
<1>5. PICK q \in Used : \A r \in Used : h[q][1].at <= h[r][1].at
  <2>1. Least(Firsts) \in Firsts /\ \A x \in Firsts : Least(Firsts) <= x
    <3> HIDE DEF Firsts
    <3> QED BY <1>4, LeastInSet
  <2> QED BY <2>1
<1>6. \E x \in Paths : /\ h[x] # <<>>
                       /\ \A r \in Paths : h[r] # <<>> => h[x][1].at <= h[r][1].at
  BY <1>5
<1>7. /\ p \in Paths /\ h[p] # <<>>
      /\ \A r \in Paths : h[r] # <<>> => h[p][1].at <= h[r][1].at
  BY <1>6, Zenon DEF OldestPath
<1> HIDE DEF p
<1>8. ASSUME NEW e \in EditsOf(h) PROVE h[p][1].at <= e.at
  <2>1. PICK r \in Paths : e \in ToSet(h[r])
    BY DEF EditsOf
  <2>2. r \in Used /\ p \in Used
    BY <1>2, <1>7, <2>1
  <2>3. /\ h[p][1].at <= h[r][1].at /\ h[r][1].at <= e.at
        /\ h[p][1].at \in Nat /\ h[r][1].at \in Nat /\ e.at \in Nat
    BY <1>2, <1>3, <1>7, <2>1, <2>2, EditFields
  <2> QED BY <2>3
<1> QED BY <1>7, <1>8 DEF p

\* Edits that may be those of file p, whatever the other files of h hold.
Belongs(s, p, h) ==
    /\ s \in Seq(Edits) /\ Ordered(s)
    /\ \A e \in ToSet(s) : e.path = p
    /\ \A e \in ToSet(s), f \in EditsOf(h) : e.at = f.at => e = f

\* A change of one file of a history.
LEMMA FileReplaced ==
    ASSUME NEW h, IsHistory(h), NEW p \in Paths, NEW s, Belongs(s, p, h)
    PROVE  LET g == [h EXCEPT ![p] = s]
           IN  /\ IsHistory(g)
               /\ EditsOf(g) = (EditsOf(h) \ ToSet(h[p])) \cup ToSet(s)
<1> DEFINE g == [h EXCEPT ![p] = s]
<1>0. /\ s \in Seq(Edits) /\ Ordered(s) /\ \A e \in ToSet(s) : e.path = p
      /\ \A e \in ToSet(s), f \in EditsOf(h) : e.at = f.at => e = f
  BY DEF Belongs
<1>1. /\ h \in [Paths -> Seq(Edits)] /\ g \in [Paths -> Seq(Edits)]
      /\ g[p] = s /\ \A q \in Paths : q # p => g[q] = h[q]
  BY <1>0 DEF IsHistory
<1> HIDE DEF g
<1>2. \A q \in Paths : \A e \in ToSet(h[q]) : e.path = q
  BY DEF IsHistory, ToSet
<1>3. EditsOf(g) = (EditsOf(h) \ ToSet(h[p])) \cup ToSet(s)
  <2>1. ASSUME NEW e \in EditsOf(g) PROVE e \in (EditsOf(h) \ ToSet(h[p])) \cup ToSet(s)
    <3>1. PICK q \in Paths : e \in ToSet(g[q])
      BY <2>1 DEF EditsOf
    <3>2. CASE q = p
      BY <1>1, <3>1, <3>2
    <3>3. CASE q # p
      <4>1. e \in ToSet(h[q]) /\ e.path = q
        BY <1>1, <1>2, <3>1, <3>3
      <4>2. e \in EditsOf(h) /\ e \notin ToSet(h[p])
        BY <1>2, <3>3, <4>1 DEF EditsOf
      <4> QED BY <4>2
    <3> QED BY <3>2, <3>3
  <2>2. ASSUME NEW e \in EditsOf(h), e \notin ToSet(h[p]) PROVE e \in EditsOf(g)
    <3>1. PICK q \in Paths : e \in ToSet(h[q])
      BY <2>2 DEF EditsOf
    <3>2. e \in ToSet(g[q])
      BY <1>1, <2>2, <3>1
    <3> QED BY <3>2 DEF EditsOf
  <2>3. ToSet(s) \subseteq EditsOf(g)
    BY <1>1 DEF EditsOf
  <2> QED BY <2>1, <2>2, <2>3
<1>4. \A e, f \in ToSet(s) : e.at = f.at => e = f
  <2> SUFFICES ASSUME NEW e \in ToSet(s), NEW f \in ToSet(s), e.at = f.at PROVE e = f
    OBVIOUS
  <2>1. PICK i \in 1 .. Len(s) : e = s[i]
    BY <1>0, SetOfSeq
  <2>2. PICK j \in 1 .. Len(s) : f = s[j]
    BY <1>0, SetOfSeq
  <2>3. ~ (i < j) /\ ~ (j < i)
    <3>1. DOMAIN s = 1 .. Len(s) /\ e.at \in Nat
      BY <1>0, SetOfSeq, EditFields
    <3> QED BY <1>0, <2>1, <2>2, <3>1 DEF Ordered
  <2>4. Len(s) \in Nat
    BY <1>0, SetOfSeq
  <2> QED BY <2>1, <2>2, <2>3, <2>4
<1>5. \A e, f \in EditsOf(g) : e.at = f.at => e = f
  <2>1. \A e, f \in EditsOf(h) : e.at = f.at => e = f
    BY DEF IsHistory
  <2> QED BY <1>0, <1>3, <1>4, <2>1
<1>6. ASSUME NEW q \in Paths
      PROVE  Ordered(g[q]) /\ \A i \in DOMAIN g[q] : g[q][i].path = q
  <2>1. CASE q = p
    BY <1>0, <1>1, <2>1 DEF ToSet
  <2>2. CASE q # p
    BY <1>1, <2>2 DEF IsHistory
  <2> QED BY <2>1, <2>2
<1>7. IsHistory(g)
  BY <1>1, <1>5, <1>6 DEF IsHistory
<1> QED BY <1>3, <1>7 DEF g

\* enforceProjectLimitLocked: the newest of all, of at most one too many.
LEMMA ProjectLimitKeepsNewest ==
    ASSUME NEW h, IsHistory(h), Cardinality(EditsOf(h)) <= MaxEditsPerProject + 1
    PROVE  LET g == EnforceProjectLimit(h)
           IN  /\ IsHistory(g)
               /\ IsNewest(EditsOf(g), EditsOf(h), MaxEditsPerProject)
<1> DEFINE n == MaxEditsPerProject
           E == EditsOf(h)
           g == EnforceProjectLimit(h)
<1>1. n \in Nat \ {0} /\ Timed(E) /\ Total(h) = Cardinality(E) /\ Cardinality(E) \in Nat
  <2>1. Timed(E) /\ Total(h) = Cardinality(E)
    BY HistoryFacts
  <2>2. Cardinality(E) \in Nat
    BY <2>1, FS_CardinalityType DEF Timed
  <2> QED BY <2>1, <2>2, HistoryAssumption
<1>2. CASE Cardinality(E) <= n
  <2>1. g = h
    BY <1>1, <1>2 DEF EnforceProjectLimit
  <2> HIDE DEF g
  <2>2. IsNewest(E, E, n)
    BY <1>2 DEF IsNewest
  <2> QED BY <2>1, <2>2 DEF g
<1>3. CASE ~ (Cardinality(E) <= n)
  <2> DEFINE p == OldestPath(h)
             o == h[p][1]
  <2>1. Cardinality(E) = n + 1
    <3> HIDE DEF E, n
    <3>1. Cardinality(E) <= n + 1
      BY DEF E, n
    <3> QED BY <1>1, <1>3, <3>1
  <2>2. E # {}
    BY <1>1, <2>1, FS_EmptySet
  <2>3. p \in Paths /\ h[p] # <<>> /\ \A e \in E : o.at <= e.at
    BY <2>2, OldestPathFacts
  <2>4. g = [h EXCEPT ![p] = Tail(h[p])]
    BY <1>1, <1>3 DEF EnforceProjectLimit
  <2> HIDE DEF p, g, n
  <2>5. h[p] \in Seq(Edits) /\ Ordered(h[p]) /\ ToSet(h[p]) = {e \in E : e.path = p}
    BY <2>3, FileOfHistory
  <2>6. /\ Tail(h[p]) \in Seq(Edits) /\ Ordered(Tail(h[p]))
        /\ ToSet(Tail(h[p])) = ToSet(h[p]) \ {o} /\ o \in ToSet(h[p])
    BY <2>3, <2>5, TailOfOrdered
  <2> DEFINE s == Tail(h[p])
  <2>7. Belongs(s, p, h)
    BY <2>5, <2>6 DEF IsHistory, Belongs
  <2>8. /\ IsHistory(g)
        /\ EditsOf(g) = (E \ ToSet(h[p])) \cup ToSet(s)
    <3>1. g = [h EXCEPT ![p] = s]
      BY <2>4
    <3> HIDE DEF s
    <3> QED BY <2>3, <2>7, <3>1, FileReplaced
  <2>9. EditsOf(g) = E \ {o} /\ o \in E
    BY <2>5, <2>6, <2>8
  <2>10. IsNewest(E \ {o}, E, n)
    <3> HIDE DEF o, E
    <3> QED BY <1>1, <2>1, <2>3, <2>9, NewestWithoutOldest
  <2> QED BY <2>8, <2>9, <2>10 DEF g, n
<1> QED BY <1>2, <1>3

\* A history within both limits.
Limited(h) ==
    /\ IsHistory(h)
    /\ \A p \in Paths : Len(h[p]) <= MaxEditsPerFile
    /\ Cardinality(EditsOf(h)) <= MaxEditsPerProject

\* e is newer than the edits of its file and of another time than all others.
Follows(e, h) ==
    /\ \A f \in EditsOf(h) : f.at # e.at
    /\ \A f \in ToSet(h[e.path]) : f.at < e.at

\* storeLocked: the newest of the file, and then the newest of all.
LEMMA StoreKeepsNewest ==
    ASSUME NEW h, Limited(h), NEW e \in Edits, Follows(e, h), Storable(e.before, e.after)
    PROVE  LET g == Store(h, e)
               L == ToSet(EnforceFileLimit(Append(h[e.path], e)))
           IN  /\ Limited(g)
               /\ IsNewest(L, ToSet(h[e.path]) \cup {e}, MaxEditsPerFile)
               /\ IsNewest(EditsOf(g), (EditsOf(h) \ ToSet(h[e.path])) \cup L,
                           MaxEditsPerProject)
<1> DEFINE p == e.path
           E == EditsOf(h)
           A == ToSet(h[p])
           s == EnforceFileLimit(Append(h[p], e))
           L == ToSet(s)
           mid == [h EXCEPT ![p] = s]
           g == Store(h, e)
<1>1. /\ IsHistory(h) /\ (\A q \in Paths : Len(h[q]) <= MaxEditsPerFile)
      /\ Cardinality(E) <= MaxEditsPerProject
      /\ (\A f \in E : f.at # e.at) /\ (\A f \in A : f.at < e.at)
      /\ p \in Paths
  BY EditFields DEF Limited, Follows
<1>2. h[p] \in Seq(Edits) /\ Ordered(h[p]) /\ Len(h[p]) <= MaxEditsPerFile
  BY <1>1, FileOfHistory
<1>3. /\ s \in Seq(Edits) /\ Ordered(s)
      /\ IsNewest(L, A \cup {e}, MaxEditsPerFile)
  <2>1. \A i \in DOMAIN h[p] : h[p][i].at < e.at
    BY <1>1 DEF ToSet
  <2> QED BY <1>2, <2>1, FileLimitKeepsNewest
<1>4. g = EnforceProjectLimit(mid)
  BY DEF Store
<1> HIDE DEF s, g, mid
<1>5. L \subseteq A \cup {e} /\ A \subseteq E /\ Cardinality(L) <= MaxEditsPerFile
  BY <1>1, <1>3 DEF IsNewest, EditsOf
<1>6. Belongs(s, p, h)
  <2>1. \A f \in A : f.path = p
    BY <1>1, FileOfHistory
  <2>2. \A f, f2 \in E : f.at = f2.at => f = f2
    BY <1>1 DEF IsHistory
  <2>3. ASSUME NEW k \in L PROVE k.path = p /\ \A f \in E : k.at = f.at => k = f
    <3> HIDE DEF L, A, E, p
    <3>1. CASE k \in A
      BY <1>5, <2>1, <2>2, <3>1
    <3>2. CASE k = e
      BY <1>1, <3>2 DEF p
    <3> QED BY <1>5, <2>3, <3>1, <3>2
  <2> QED BY <1>3, <2>3 DEF Belongs
<1>7. IsHistory(mid) /\ EditsOf(mid) = (E \ A) \cup L
  <2> HIDE DEF p
  <2> QED BY <1>1, <1>6, FileReplaced DEF mid
<1>8. Cardinality(EditsOf(mid)) <= MaxEditsPerProject + 1
  <2> HIDE DEF E, A, L
  <2>1. IsFiniteSet(E) /\ Cardinality(E) \in Nat /\ e \notin E
    <3>1. Timed(E)
      BY <1>1, HistoryFacts DEF E
    <3> QED BY <1>1, <3>1, FS_CardinalityType DEF Timed
  <2>2. IsFiniteSet(E \cup {e}) /\ Cardinality(E \cup {e}) = Cardinality(E) + 1
    BY <2>1, FS_AddElement
  <2>3. EditsOf(mid) \subseteq E \cup {e}
    BY <1>5, <1>7
  <2>4. Cardinality(EditsOf(mid)) <= Cardinality(E \cup {e}) /\ IsFiniteSet(EditsOf(mid))
    BY <2>2, <2>3, FS_Subset
  <2>5. Cardinality(EditsOf(mid)) \in Nat /\ MaxEditsPerProject \in Nat
    BY <2>4, FS_CardinalityType, HistoryAssumption
  <2> QED BY <1>1, <2>1, <2>2, <2>4, <2>5
<1>9. IsHistory(g) /\ IsNewest(EditsOf(g), EditsOf(mid), MaxEditsPerProject)
  BY <1>4, <1>7, <1>8, ProjectLimitKeepsNewest
<1>10. ASSUME NEW q \in Paths PROVE Len(g[q]) <= MaxEditsPerFile
  <2>1. /\ ToSet(g[q]) = {f \in EditsOf(g) : f.path = q}
        /\ Len(g[q]) \in Nat /\ Cardinality(ToSet(g[q])) = Len(g[q])
    BY <1>9, FileOfHistory
  <2>2. /\ ToSet(mid[q]) = {f \in EditsOf(mid) : f.path = q}
        /\ Len(mid[q]) \in Nat /\ Cardinality(ToSet(mid[q])) = Len(mid[q])
        /\ mid[q] \in Seq(Edits) /\ Ordered(mid[q])
    BY <1>7, FileOfHistory
  <2>3. ToSet(g[q]) \subseteq ToSet(mid[q]) /\ IsFiniteSet(ToSet(mid[q]))
    BY <1>9, <2>1, <2>2, OrderedSize DEF IsNewest
  <2>4. Len(g[q]) <= Len(mid[q])
    BY <2>1, <2>2, <2>3, FS_Subset
  <2>5. Len(mid[q]) <= MaxEditsPerFile
    <3>1. mid[p] = s /\ \A r \in Paths : r # p => mid[r] = h[r]
      BY <1>1 DEF mid, IsHistory
    <3>2. CASE q = p
      BY <1>5, <2>2, <3>1, <3>2
    <3>3. CASE q # p
      BY <1>1, <3>1, <3>3
    <3> QED BY <3>2, <3>3
  <2>6. MaxEditsPerFile \in Nat
    BY HistoryAssumption
  <2> QED BY <2>1, <2>2, <2>4, <2>5, <2>6
<1>11. Limited(g)
  BY <1>9, <1>10 DEF Limited, IsNewest
<1> QED BY <1>3, <1>7, <1>9, <1>11 DEF g, s

-----------------------------------------------------------------------------
LEMMA IntervalSize ==
    ASSUME NEW n \in Nat
    PROVE  IsFiniteSet(1 .. n) /\ Cardinality(1 .. n) = n
<1> DEFINE one == 1
<1>1. one \in Int /\ n \in Int /\ n - one + 1 = n /\ (one > n => n = 0)
  OBVIOUS
<1> HIDE DEF one
<1>2. IsFiniteSet(one .. n) /\ Cardinality(one .. n) = IF one > n THEN 0 ELSE n - one + 1
  BY <1>1, FS_Interval
<1> QED BY <1>1, <1>2 DEF one

\* The sequences of the elements of a finite set, each of them once.
LEMMA SeqsOfSet ==
    ASSUME NEW S, IsFiniteSet(S), NEW s \in SetToSeqs(S)
    PROVE  LET n == Cardinality(S)
           IN  /\ n \in Nat /\ s \in Seq(S) /\ Len(s) = n /\ DOMAIN s = 1 .. n
               /\ {s[k] : k \in 1 .. n} = S
               /\ \A i, j \in 1 .. n : s[i] = s[j] => i = j
<1> DEFINE n == Cardinality(S)
<1>1. n \in Nat
  BY FS_CardinalityType
<1>2. s \in [1 .. n -> S] /\ \A i, j \in 1 .. n : s[i] = s[j] => i = j
  BY DEF SetToSeqs
<1> HIDE DEF n
<1>3. s \in Seq(S) /\ DOMAIN s = 1 .. n
  BY <1>1, <1>2, SeqDef
<1>4. Len(s) = n
  BY <1>1, <1>3, LenProperties
<1>5. s \in Injection(1 .. n, S)
  BY <1>2 DEF Injection, IsInjective
<1>6. IsFiniteSet(1 .. n) /\ Cardinality(1 .. n) = n
  BY <1>1, IntervalSize
<1>7. s \in Surjection(1 .. n, S)
  BY <1>5, <1>6, FS_Injection DEF n
<1>8. {s[k] : k \in 1 .. n} = S
  BY <1>2, <1>7 DEF Surjection
<1> QED BY <1>1, <1>2, <1>3, <1>4, <1>8 DEF n

\* The flush, a file at a time.
LEMMA FlushSteps ==
    ASSUME NEW order, Len(order) \in Nat
    PROVE  /\ Flush(order)[0] = files
           /\ \A i \in 1 .. Len(order) :
                 Flush(order)[i] = StorePending(Flush(order)[i - 1], order[i])
<1> DEFINE n == Len(order)
           Upto(m, g) == g = [i \in 0 .. m |->
                                 IF i = 0 THEN files ELSE StorePending(g[i - 1], order[i])]
           S == {m \in 0 .. n : \E g : Upto(m, g)}
<1>1. 0 \in S
  <2>1. Upto(0, [i \in 0 .. 0 |-> files])
    BY SMT
  <2>2. 0 \in 0 .. n
    OBVIOUS
  <2> HIDE DEF Upto
  <2> QED BY <2>1, <2>2
<1>2. ASSUME NEW m \in 1 .. n, m - 1 \in S PROVE m \in S
  <2>1. PICK g : Upto(m - 1, g)
    BY <1>2
  <2> DEFINE h == [i \in 0 .. m |-> IF i = m THEN StorePending(g[m - 1], order[m]) ELSE g[i]]
  <2>2. \A i \in 0 .. m : h[i] = IF i = 0 THEN files ELSE StorePending(h[i - 1], order[i])
    BY <2>1
  <2>3. Upto(m, h)
    BY <2>2
  <2> HIDE DEF Upto, h
  <2> QED BY <2>3
<1>3. n \in S
  <2>1. n \in 0 .. n
    OBVIOUS
  <2> HIDE DEF S, n
  <2>2. n \in Nat
    BY DEF n
  <2> QED BY <1>1, <1>2, <2>1, <2>2, Induction
<1>4. \E g : g = [i \in 0 .. Len(order) |->
                     IF i = 0 THEN files ELSE StorePending(g[i - 1], order[i])]
  BY <1>3
<1>5. Flush(order) = [i \in 0 .. Len(order) |->
                         IF i = 0 THEN files ELSE StorePending(Flush(order)[i - 1], order[i])]
  BY <1>4, Zenon DEF Flush
<1>6. 0 \in 0 .. Len(order) /\ \A i \in 1 .. Len(order) : i \in 0 .. Len(order) /\ i # 0
  OBVIOUS
<1> DEFINE f == Flush(order)
<1> HIDE DEF f
<1>7. f = [i \in 0 .. Len(order) |-> IF i = 0 THEN files ELSE StorePending(f[i - 1], order[i])]
  BY <1>5 DEF f
<1> QED BY <1>6, <1>7 DEF f

-----------------------------------------------------------------------------
\* What the history and the pending edits are in every state.
Sound ==
    /\ Limited(files)
    /\ pending \in [Paths -> Edits \cup {NoEdit}]
    /\ \A p \in Paths : pending[p] # NoEdit =>
          /\ pending[p].path = p
          /\ \A f \in ToSet(files[p]) : f.at < pending[p].at
    /\ Timed(Stored \cup Pending)

Stores(p) == pending[p] # NoEdit /\ Storable(pending[p].before, pending[p].after)

\* What the limit of a file keeps of its edits and the pending one.
Kept(p) ==
    IF Stores(p) THEN ToSet(EnforceFileLimit(Append(files[p], pending[p])))
    ELSE ToSet(files[p])

\* The edits there would be without the project's limit, the files Q flushed.
Gathered(Q) == UNION {IF p \in Q THEN Kept(p) ELSE ToSet(files[p]) : p \in Paths}

\* The history once the files Q are flushed, in whatever order.
Flushing(h, Q) == Limited(h) /\ IsNewest(EditsOf(h), Gathered(Q), MaxEditsPerProject)

LEMMA PendingFollows ==
    ASSUME Sound, NEW p \in Paths, pending[p] # NoEdit
    PROVE  pending[p] \in Edits /\ Follows(pending[p], files)
<1>1. /\ pending[p] \in Edits /\ pending[p].path = p /\ pending[p] \in Pending
      /\ \A f \in ToSet(files[p]) : f.at < pending[p].at
  BY DEF Sound, Pending
<1>2. ASSUME NEW f \in Stored PROVE f.at # pending[p].at
  <2> SUFFICES ASSUME f.at = pending[p].at PROVE FALSE
    OBVIOUS
  <2>1. f = pending[p]
    BY <1>1 DEF Sound, Timed
  <2>2. f \in ToSet(files[p])
    <3>1. ToSet(files[p]) = {e \in Stored : e.path = p}
      BY FileOfHistory DEF Sound, Limited, Stored
    <3> QED BY <1>1, <2>1, <3>1
  <2>3. f.at \in Nat
    BY <1>1, <2>1, EditFields
  <2> QED BY <1>1, <2>1, <2>2, <2>3
<1> QED BY <1>1, <1>2 DEF Follows, Stored

LEMMA KeptFacts ==
    ASSUME Sound, NEW p \in Paths
    PROVE  /\ Stores(p) => IsNewest(Kept(p), ToSet(files[p]) \cup {pending[p]}, MaxEditsPerFile)
           /\ ~ Stores(p) => Kept(p) = ToSet(files[p])
           /\ \A f \in Kept(p) : /\ f.path = p
                                 /\ f \in Stored \/ (f = pending[p] /\ f # NoEdit)
           /\ \A f \in ToSet(files[p]) : f.path = p /\ f \in Stored
<1>1. ToSet(files[p]) = {e \in Stored : e.path = p}
  BY FileOfHistory DEF Sound, Limited, Stored
<1>2. CASE Stores(p)
  <2>1. /\ pending[p] \in Edits /\ Follows(pending[p], files) /\ pending[p].path = p
        /\ pending[p] # NoEdit
    BY <1>2, PendingFollows DEF Stores, Sound
  <2>2. Kept(p) = ToSet(EnforceFileLimit(Append(files[p], pending[p])))
    BY <1>2 DEF Kept
  <2>3. IsNewest(Kept(p), ToSet(files[p]) \cup {pending[p]}, MaxEditsPerFile)
    BY <1>2, <2>1, <2>2, StoreKeepsNewest DEF Stores, Sound
  <2>4. Kept(p) \subseteq ToSet(files[p]) \cup {pending[p]}
    BY <2>3 DEF IsNewest
  <2> QED BY <1>1, <1>2, <2>1, <2>3, <2>4
<1>3. CASE ~ Stores(p)
  <2>1. Kept(p) = ToSet(files[p])
    BY <1>3 DEF Kept
  <2> QED BY <1>1, <1>3, <2>1
<1> QED BY <1>2, <1>3

LEMMA GatheredFacts ==
    ASSUME Sound, NEW Q \in SUBSET Paths
    PROVE  /\ \A f \in Gathered(Q) : f \in Stored \/ (f \in Pending /\ f.path \in Q)
           /\ Timed(Gathered(Q))
           /\ \A p \in Paths \ Q : ToSet(files[p]) = {f \in Gathered(Q) : f.path = p}
<1>1. ASSUME NEW f \in Gathered(Q), NEW p \in Paths,
             f \in IF p \in Q THEN Kept(p) ELSE ToSet(files[p])
      PROVE  /\ f.path = p
             /\ f \in Stored \/ (f \in Pending /\ p \in Q)
  <2>1. CASE p \in Q
    <3>1. f \in Kept(p)
      BY <1>1, <2>1
    <3>2. f.path = p /\ (f \in Stored \/ (f = pending[p] /\ f # NoEdit))
      BY <3>1, KeptFacts
    <3> QED BY <2>1, <3>2 DEF Pending
  <2>2. CASE p \notin Q
    <3>1. f \in ToSet(files[p])
      BY <1>1, <2>2
    <3> QED BY <3>1, KeptFacts
  <2> QED BY <2>1, <2>2
<1>2. ASSUME NEW f \in Gathered(Q)
      PROVE  \E p \in Paths : f \in IF p \in Q THEN Kept(p) ELSE ToSet(files[p])
  BY DEF Gathered
<1>3. \A f \in Gathered(Q) : f \in Stored \/ (f \in Pending /\ f.path \in Q)
  BY <1>1, <1>2
<1>4. Timed(Gathered(Q))
  <2>1. Gathered(Q) \subseteq Stored \cup Pending
    BY <1>3
  <2> QED BY <2>1, TimedSubset DEF Sound
<1>5. ASSUME NEW p \in Paths \ Q PROVE ToSet(files[p]) = {f \in Gathered(Q) : f.path = p}
  <2>1. ASSUME NEW f \in ToSet(files[p]) PROVE f \in Gathered(Q) /\ f.path = p
    <3>1. f \in Gathered(Q)
      BY <1>5, <2>1 DEF Gathered
    <3> QED BY <2>1, <3>1, KeptFacts
  <2>2. ASSUME NEW f \in Gathered(Q), f.path = p PROVE f \in ToSet(files[p])
    <3>1. PICK q \in Paths : f \in IF q \in Q THEN Kept(q) ELSE ToSet(files[q])
      BY <1>2
    <3>2. q = p
      BY <1>1, <2>2, <3>1
    <3> QED BY <1>5, <3>1, <3>2
  <2> QED BY <2>1, <2>2
<1> QED BY <1>3, <1>4, <1>5

\* To flush one file more.
LEMMA FlushStep ==
    ASSUME Sound, NEW Q \in SUBSET Paths, NEW p \in Paths, p \notin Q,
           NEW h, Flushing(h, Q)
    PROVE  Flushing(StorePending(h, p), Q \cup {p})
<1> DEFINE G == Gathered(Q)
           R == Q \cup {p}
           A == ToSet(files[p])
           e == pending[p]
           S == EditsOf(h)
           g == StorePending(h, p)
<1>1. Limited(h) /\ IsNewest(S, G, MaxEditsPerProject)
  BY DEF Flushing
<1>2. /\ Timed(G) /\ A = {f \in G : f.path = p}
      /\ \A f \in G : f \in Stored \/ (f \in Pending /\ f.path \in Q)
  BY GatheredFacts
<1>3. Gathered(R) = (G \ A) \cup Kept(p)
  <2>1. ASSUME NEW f \in Gathered(R) PROVE f \in (G \ A) \cup Kept(p)
    <3>1. PICK q \in Paths : f \in IF q \in R THEN Kept(q) ELSE ToSet(files[q])
      BY DEF Gathered
    <3>2. CASE q = p
      BY <3>1, <3>2
    <3>3. CASE q # p
      <4>1. f \in IF q \in Q THEN Kept(q) ELSE ToSet(files[q])
        BY <3>1, <3>3
      <4>2. f \in G
        BY <4>1 DEF Gathered
      <4>3. f.path = q
        BY <4>1, KeptFacts
      <4> QED BY <1>2, <3>3, <4>2, <4>3
    <3> QED BY <3>2, <3>3
  <2>2. ASSUME NEW f \in G, f \notin A PROVE f \in Gathered(R)
    <3>1. PICK q \in Paths : f \in IF q \in Q THEN Kept(q) ELSE ToSet(files[q])
      BY <2>2 DEF Gathered
    <3>2. q # p
      BY <2>2, <3>1
    <3>3. f \in IF q \in R THEN Kept(q) ELSE ToSet(files[q])
      BY <3>1, <3>2
    <3> QED BY <3>3 DEF Gathered
  <2>3. Kept(p) \subseteq Gathered(R)
    BY DEF Gathered
  <2> QED BY <2>1, <2>2, <2>3
<1>4. CASE ~ Stores(p)
  <2>1. g = h
    BY <1>4 DEF StorePending, Store, Stores
  <2>2. Kept(p) = A
    BY <1>4, KeptFacts
  <2>3. Gathered(R) = G
    BY <1>2, <1>3, <2>2
  <2> QED BY <1>1, <2>1, <2>3 DEF Flushing
<1>5. CASE Stores(p)
  <2> DEFINE L == ToSet(EnforceFileLimit(Append(h[p], e)))
             T == EditsOf(g)
             K == Kept(p)
  <2>1. /\ e # NoEdit /\ e \in Edits /\ e.path = p /\ e \in Pending
        /\ (\A f \in Stored : f.at # e.at) /\ (\A f \in A : f.at < e.at)
        /\ Storable(e.before, e.after)
    BY <1>5, PendingFollows DEF Stores, Sound, Follows, Stored, Pending
  <2>2. g = Store(h, e)
    BY <2>1 DEF StorePending
  <2>3. ASSUME NEW f \in G PROVE f.at # e.at
    <3>1. CASE f \in Stored
      BY <2>1, <3>1
    <3>2. CASE f \in Pending /\ f.path \in Q
      <4>1. f # e
        BY <2>1, <3>2
      <4> QED BY <2>1, <3>2, <4>1 DEF Sound, Timed
    <3> QED BY <1>2, <3>1, <3>2
  <2>4. S \subseteq G
    BY <1>1 DEF IsNewest
  <2>5. ToSet(h[p]) = S \cap A
    <3>1. ToSet(h[p]) = {f \in S : f.path = p}
      BY <1>1, FileOfHistory DEF Limited
    <3> QED BY <1>2, <2>4, <3>1
  <2>6. Follows(e, h)
    BY <2>1, <2>3, <2>4, <2>5 DEF Follows
  <2>7. /\ Limited(g)
        /\ IsNewest(L, ToSet(h[p]) \cup {e}, MaxEditsPerFile)
        /\ IsNewest(T, (S \ ToSet(h[p])) \cup L, MaxEditsPerProject)
    BY <1>1, <2>1, <2>2, <2>6, StoreKeepsNewest
  <2>8. IsNewest(K, A \cup {e}, MaxEditsPerFile)
    BY <1>5, KeptFacts
  <2>9. /\ IsNewest(L, (S \cap A) \cup {e}, MaxEditsPerFile)
        /\ IsNewest(T, (S \ A) \cup L, MaxEditsPerProject)
    <3>1. S \ ToSet(h[p]) = S \ A
      BY <2>5
    <3> HIDE DEF S, A, L, T
    <3> QED BY <2>5, <2>7, <3>1
  <2>10. Timed(G \cup {e}) /\ e \notin G
    <3>1. G \cup {e} \subseteq Stored \cup Pending
      BY <1>2, <2>1
    <3>2. Timed(G \cup {e})
      BY <3>1, TimedSubset DEF Sound
    <3> QED BY <2>3, <3>2
  <2>11. Cardinality(A) <= MaxEditsPerFile /\ A \subseteq G
    <3>1. Cardinality(A) = Len(files[p]) /\ Len(files[p]) <= MaxEditsPerFile
      BY FileOfHistory DEF Sound, Limited
    <3> QED BY <1>2, <3>1
  <2>12. IsNewest(T, (G \ A) \cup K, MaxEditsPerProject)
    <3>1. MaxEditsPerFile \in Nat \ {0} /\ MaxEditsPerProject \in Nat \ {0}
      BY HistoryAssumption
    <3>2. Newer(A, e)
      BY <2>1 DEF Newer
    <3> HIDE DEF G, A, S, T, K, L, e
    <3> QED BY <1>1, <2>8, <2>9, <2>10, <2>11, <3>1, <3>2, NewestTwice
  <2> QED BY <1>3, <2>7, <2>12 DEF Flushing
<1> QED BY <1>4, <1>5

\* Any number of the files of an order flushed.
LEMMA FlushFacts ==
    ASSUME Sound, NEW order \in SetToSeqs(GoPaths)
    PROVE  LET n == Cardinality(GoPaths)
           IN  /\ n \in Nat /\ Len(order) = n
               /\ \A i \in 0 .. n : Flushing(Flush(order)[i], {order[k] : k \in 1 .. i})
<1> DEFINE n == Cardinality(GoPaths)
           Q(i) == {order[k] : k \in 1 .. i}
           S == {i \in 0 .. n : Flushing(Flush(order)[i], Q(i))}
<1>1. IsFiniteSet(GoPaths) /\ GoPaths \subseteq Paths
  BY HistoryAssumption, FS_Subset
<1>2. /\ n \in Nat /\ Len(order) = n /\ order \in Seq(GoPaths)
      /\ \A i, j \in 1 .. n : order[i] = order[j] => i = j
  BY <1>1, SeqsOfSet
<1>3. /\ Flush(order)[0] = files
      /\ \A i \in 1 .. n : Flush(order)[i] = StorePending(Flush(order)[i - 1], order[i])
  BY <1>2, FlushSteps
<1>4. \A i \in 1 .. n : order[i] \in Paths
  BY <1>1, <1>2, ElementOfSeq
<1> HIDE DEF n
<1>5. 0 \in S
  <2>1. Q(0) = {}
    OBVIOUS
  <2>2. Gathered({}) = Stored
    BY DEF Gathered, Stored, EditsOf
  <2>3. Flushing(files, {})
    BY <2>2 DEF Flushing, Sound, Limited, IsNewest, Stored
  <2>4. 0 \in 0 .. n
    BY <1>2
  <2> QED BY <1>3, <2>1, <2>3, <2>4
<1>6. ASSUME NEW i \in 1 .. n, i - 1 \in S PROVE i \in S
  <2> DEFINE p == order[i]
             P == Q(i - 1)
             h == Flush(order)[i - 1]
  <2>1. i \in 0 .. n /\ i - 1 \in 0 .. n /\ \A k \in 1 .. i - 1 : k \in 1 .. n /\ k # i
    BY <1>2
  <2>2. p \in Paths /\ P \in SUBSET Paths /\ p \notin P
    BY <1>2, <1>4, <2>1
  <2>3. Flushing(h, P)
    BY <1>6
  <2>4. Flushing(StorePending(h, p), P \cup {p})
    <3> HIDE DEF p, P, h
    <3> QED BY <2>2, <2>3, FlushStep
  <2>5. P \cup {p} = Q(i)
    <3>1. \A k : k \in 1 .. i <=> k \in 1 .. i - 1 \/ k = i
      BY <1>2
    <3> QED BY <3>1
  <2> QED BY <1>3, <2>1, <2>4, <2>5
<1>7. 0 .. n \subseteq S
  <2> HIDE DEF S
  <2> QED BY <1>2, <1>5, <1>6, Induction
<1>8. ASSUME NEW i \in 0 .. n PROVE Flushing(Flush(order)[i], Q(i))
  BY <1>7
<1> QED BY <1>2, <1>8 DEF n

LEMMA FlushedFacts ==
    ASSUME Sound, NEW order \in SetToSeqs(GoPaths)
    PROVE  /\ Limited(Flushed(order))
           /\ IsNewest(EditsOf(Flushed(order)), Gathered(GoPaths), MaxEditsPerProject)
<1> DEFINE n == Cardinality(GoPaths)
<1>1. IsFiniteSet(GoPaths)
  BY HistoryAssumption, FS_Subset
<1>2. {order[k] : k \in 1 .. n} = GoPaths
  BY <1>1, SeqsOfSet
<1>3. n \in Nat /\ Len(order) = n /\ Flushing(Flush(order)[n], {order[k] : k \in 1 .. n})
  <2>1. /\ n \in Nat /\ Len(order) = n
        /\ \A i \in 0 .. n : Flushing(Flush(order)[i], {order[k] : k \in 1 .. i})
    BY FlushFacts
  <2>2. n \in 0 .. n
    BY <2>1
  <2> QED BY <2>1, <2>2
<1>4. Flushing(Flushed(order), GoPaths)
  BY <1>2, <1>3 DEF Flushed
<1> QED BY <1>4 DEF Flushing

LEMMA SoundOrderIrrelevant ==
    Sound => FlushOrderIrrelevant
<1> SUFFICES ASSUME Sound, NEW r \in SetToSeqs(GoPaths), NEW s \in SetToSeqs(GoPaths)
             PROVE  Flushed(r) = Flushed(s)
  BY DEF FlushOrderIrrelevant
<1>1. /\ Limited(Flushed(r)) /\ Limited(Flushed(s))
      /\ IsNewest(EditsOf(Flushed(r)), Gathered(GoPaths), MaxEditsPerProject)
      /\ IsNewest(EditsOf(Flushed(s)), Gathered(GoPaths), MaxEditsPerProject)
  BY FlushedFacts
<1>2. Timed(Gathered(GoPaths)) /\ MaxEditsPerProject \in Nat
  BY GatheredFacts, HistoryAssumption
<1>3. EditsOf(Flushed(r)) = EditsOf(Flushed(s))
  BY <1>1, <1>2, NewestUnique
<1> QED BY <1>1, <1>3, SameHistory DEF Limited

\* What a flush forgets of file p is older than what stays at a limit.
Forgotten(h, p, e) ==
    \/ /\ Len(h[p]) = MaxEditsPerFile
       /\ \A f \in ToSet(h[p]) : e.at < f.at
    \/ /\ Total(h) = MaxEditsPerProject
       /\ \A q \in Paths : \A f \in ToSet(h[q]) : e.at < f.at

LEMMA FlushForgetsOldest ==
    ASSUME Sound, NEW Q \in SUBSET Paths, NEW h, Flushing(h, Q),
           NEW p \in Paths, NEW e \in ToSet(files[p]), e \notin ToSet(h[p])
    PROVE  Forgotten(h, p, e)
<1> DEFINE G == Gathered(Q)
           S == EditsOf(h)
           M == MaxEditsPerProject
           F == MaxEditsPerFile
<1>1. /\ IsHistory(h) /\ S \subseteq G
      /\ \A x \in S, f \in G : x.at < f.at => f \in S
      /\ S = G \/ Cardinality(S) = M
  BY DEF Flushing, Limited, IsNewest
<1>2. /\ Timed(G) /\ Timed(Stored \cup Pending)
      /\ \A f \in G : f \in Stored \cup Pending
      /\ e.path = p /\ e \in Stored
  BY GatheredFacts, KeptFacts DEF Sound
<1>3. ToSet(h[p]) = {f \in S : f.path = p} /\ Len(h[p]) = Cardinality(ToSet(h[p]))
  BY <1>1, FileOfHistory
<1>4. e \notin S
  BY <1>2, <1>3
<1>5. \A f, g \in Stored \cup Pending : f.at \in Nat /\ (f.at = g.at => f = g)
  BY <1>2 DEF Timed
\* An edit that the project's limit took.
<1>6. ASSUME NEW k \in G, k \notin S, e.at <= k.at
      PROVE  Forgotten(h, p, e)
  <2>1. Cardinality(S) = M
    BY <1>1, <1>6
  <2>2. Total(h) = M
    BY <1>1, <2>1, HistoryFacts
  <2>3. ASSUME NEW f \in S PROVE e.at < f.at
    <3>1. ~ (f.at < k.at) /\ f # k
      BY <1>1, <1>6
    <3>2. f \in Stored \cup Pending /\ k \in Stored \cup Pending /\ e \in Stored \cup Pending
      BY <1>1, <1>2, <1>6
    <3>3. f.at \in Nat /\ k.at \in Nat /\ e.at \in Nat /\ f.at # k.at
      BY <1>5, <3>1, <3>2
    <3> QED BY <1>6, <3>1, <3>3
  <2>4. \A q \in Paths : \A f \in ToSet(h[q]) : f \in S
    BY DEF EditsOf
  <2> QED BY <2>2, <2>3, <2>4 DEF Forgotten
<1>7. CASE e \in G
  <2>1. e.at \in Nat
    BY <1>2, <1>5
  <2> QED BY <1>4, <1>6, <1>7, <2>1
<1>8. CASE e \notin G
  <2>1. p \in Q
    BY <1>2, <1>8, GatheredFacts
  <2>2. e \notin Kept(p) /\ Kept(p) \subseteq G
    <3>1. Kept(p) \subseteq G
      BY <2>1 DEF Gathered
    <3> QED BY <1>8, <3>1
  <2>3. Stores(p)
    BY <2>2, KeptFacts
  <2>4. /\ Cardinality(Kept(p)) = F
        /\ \A x \in Kept(p) : x.at < e.at => e \in Kept(p)
    <3>1. IsNewest(Kept(p), ToSet(files[p]) \cup {pending[p]}, F)
      BY <2>3, KeptFacts
    <3> QED BY <2>2, <3>1 DEF IsNewest
  <2>5. ASSUME NEW x \in Kept(p) PROVE e.at < x.at
    <3>1. ~ (x.at < e.at) /\ x # e /\ x \in Stored \cup Pending /\ e \in Stored \cup Pending
      BY <1>2, <2>2, <2>4
    <3>2. x.at \in Nat /\ e.at \in Nat /\ x.at # e.at
      BY <1>5, <3>1
    <3> QED BY <3>1, <3>2
  <2>6. CASE Kept(p) \subseteq S
    <3>1. ToSet(h[p]) = Kept(p)
      <4>1. Kept(p) \subseteq ToSet(h[p])
        BY <1>3, <2>6, KeptFacts
      <4>2. ASSUME NEW f \in S, f.path = p PROVE f \in Kept(p)
        <5>1. PICK q \in Paths : f \in IF q \in Q THEN Kept(q) ELSE ToSet(files[q])
          BY <1>1, <4>2 DEF Gathered
        <5>2. f.path = q
          BY <5>1, KeptFacts
        <5> QED BY <2>1, <4>2, <5>1, <5>2
      <4> QED BY <1>3, <4>1, <4>2
    <3> QED BY <1>3, <2>4, <2>5, <3>1 DEF Forgotten
  <2>7. CASE ~ (Kept(p) \subseteq S)
    <3>1. PICK k \in Kept(p) : k \notin S
      BY <2>7
    <3>2. k \in G /\ e.at < k.at
      BY <2>2, <2>5, <3>1
    <3>3. e.at \in Nat /\ k.at \in Nat
      BY <1>2, <1>5, <3>2
    <3>4. e.at <= k.at
      BY <3>2, <3>3
    <3> QED BY <1>6, <3>1, <3>2, <3>4
  <2> QED BY <2>6, <2>7
<1> QED BY <1>7, <1>8

-----------------------------------------------------------------------------
LEMMA ScoreType ==
    ASSUME NEW e \in Edits, NEW query \in Queries
    PROVE  RelevanceScore(e, query) \in Int
<1> DEFINE shared == EditTokens(e) \cap query.tokens
           near == IF e.path = query.path THEN 1000
                   ELSE Bonus(Dir[e.path] = Dir[query.path], 500)
           tests == Bonus({e.path, query.path} \subseteq TestPaths, 250)
<1>1. Cardinality(shared) \in Nat
  <2>1. IsFiniteSet(query.tokens)
    BY HistoryAssumption DEF Queries
  <2>2. IsFiniteSet(shared)
    BY <2>1, FS_Subset
  <2> QED BY <2>2, FS_CardinalityType
<1>2. near \in Int /\ tests \in Int
  BY DEF Bonus
<1>3. RelevanceScore(e, query) = 1 + near + tests + 50 * Cardinality(shared)
  BY DEF RelevanceScore
<1> HIDE DEF near, tests, shared
<1> QED BY <1>1, <1>2, <1>3

\* Precedes puts the edits of a history in one order.
InOrder(C, query) ==
    /\ \A e \in C : ~ Precedes(e, e, query)
    /\ \A e, f \in C : e # f => Precedes(e, f, query) \/ Precedes(f, e, query)
    /\ \A e, f, g \in C :
          Precedes(e, f, query) /\ Precedes(f, g, query) => Precedes(e, g, query)

LEMMA PrecedesInOrder ==
    ASSUME NEW C \in SUBSET Edits, Timed(C), NEW query \in Queries
    PROVE  InOrder(C, query)
<1> DEFINE score(e) == RelevanceScore(e, query)
<1>1. \A e \in C : score(e) \in Int /\ e.at \in Nat
  BY ScoreType, EditFields
<1>2. \A e, f \in C : e # f => e.at # f.at
  BY DEF Timed
<1>3. \A e, f \in C : Precedes(e, f, query) <=>
         score(e) > score(f) \/ (score(e) = score(f) /\ e.at > f.at)
  BY DEF Precedes
<1> HIDE DEF score
<1>4. \A e \in C : ~ Precedes(e, e, query)
  BY <1>1, <1>3
<1>5. \A e, f \in C : e # f => Precedes(e, f, query) \/ Precedes(f, e, query)
  BY <1>1, <1>2, <1>3
<1>6. \A e, f, g \in C :
         Precedes(e, f, query) /\ Precedes(f, g, query) => Precedes(e, g, query)
  BY <1>1, <1>3
<1> QED BY <1>4, <1>5, <1>6 DEF InOrder

Sorted(s, query) == \A i, j \in DOMAIN s : i < j => Precedes(s[i], s[j], query)

\* A finite set has its elements in that order: each at the place that the
\* number of those before it says.
LEMMA SortedExists ==
    ASSUME NEW C, IsFiniteSet(C), NEW query, InOrder(C, query)
    PROVE  \E s \in SetToSeqs(C) : Sorted(s, query)
<1> DEFINE n == Cardinality(C)
           Before(e) == {f \in C : Precedes(f, e, query)}
           rank == [e \in C |-> Cardinality(Before(e)) + 1]
<1>1. n \in Nat
  BY FS_CardinalityType
<1>2. ASSUME NEW e \in C
      PROVE  /\ IsFiniteSet(Before(e)) /\ Cardinality(Before(e)) \in Nat
             /\ Cardinality(Before(e)) < n
  <2>1. IsFiniteSet(Before(e)) /\ Cardinality(Before(e)) <= n
           /\ (n = Cardinality(Before(e)) => C = Before(e))
    <3>1. Before(e) \in SUBSET C
      OBVIOUS
    <3> HIDE DEF Before
    <3> QED BY <3>1, FS_Subset
  <2>2. Cardinality(Before(e)) \in Nat
    BY <2>1, FS_CardinalityType
  <2>3. e \notin Before(e)
    BY DEF InOrder
  <2>4. Cardinality(Before(e)) # n
    <3> HIDE DEF Before
    <3> QED BY <2>1, <2>3
  <2> HIDE DEF Before, n
  <2> QED BY <1>1, <2>1, <2>2, <2>4
<1>3. ASSUME NEW e \in C, NEW f \in C, Precedes(e, f, query)
      PROVE  Cardinality(Before(e)) < Cardinality(Before(f))
  <2>1. Before(e) \subseteq Before(f)
    BY <1>3 DEF InOrder
  <2>2. e \in Before(f) /\ e \notin Before(e)
    BY <1>3 DEF InOrder
  <2>3. /\ IsFiniteSet(Before(f))
        /\ Cardinality(Before(e)) \in Nat /\ Cardinality(Before(f)) \in Nat
    BY <1>2
  <2> DEFINE B == Before(e)
             D == Before(f)
  <2> HIDE DEF B, D
  <2>4. Cardinality(B) <= Cardinality(D) /\ (Cardinality(D) = Cardinality(B) => D = B)
    BY <2>1, <2>3, FS_Subset DEF B, D
  <2>5. D # B /\ Cardinality(B) \in Nat /\ Cardinality(D) \in Nat
    BY <2>2, <2>3 DEF B, D
  <2>6. Cardinality(B) < Cardinality(D)
    BY <2>4, <2>5
  <2> QED BY <2>6 DEF B, D
<1>4. rank \in [C -> 1 .. n]
  <2>1. ASSUME NEW e \in C PROVE Cardinality(Before(e)) + 1 \in 1 .. n
    <3> DEFINE c == Cardinality(Before(e))
    <3>1. c \in Nat /\ c < n
      BY <1>2
    <3> HIDE DEF c, n
    <3>2. c + 1 \in 1 .. n
      BY <1>1, <3>1
    <3> QED BY <3>2 DEF c
  <2> QED BY <2>1
<1>5. ASSUME NEW e \in C, NEW f \in C, Precedes(e, f, query) PROVE rank[e] < rank[f]
  <2>1. /\ Cardinality(Before(e)) < Cardinality(Before(f))
        /\ Cardinality(Before(e)) \in Nat /\ Cardinality(Before(f)) \in Nat
    BY <1>2, <1>3, <1>5
  <2>2. rank[e] = Cardinality(Before(e)) + 1 /\ rank[f] = Cardinality(Before(f)) + 1
    OBVIOUS
  <2> HIDE DEF rank, Before
  <2> QED BY <2>1, <2>2
<1> HIDE DEF rank
<1>6. ASSUME NEW e \in C, NEW f \in C, rank[e] = rank[f] PROVE e = f
  <2>1. ~ Precedes(e, f, query) /\ ~ Precedes(f, e, query)
    <3>1. rank[e] \in Nat /\ rank[f] \in Nat
      BY <1>4
    <3> QED BY <1>5, <1>6, <3>1
  <2> QED BY <2>1 DEF InOrder
<1>7. rank \in Surjection(C, 1 .. n)
  <2>1. rank \in Injection(C, 1 .. n)
    BY <1>4, <1>6 DEF Injection, IsInjective
  <2>2. IsFiniteSet(1 .. n) /\ Cardinality(1 .. n) = n
    BY <1>1, IntervalSize
  <2> QED BY <2>1, <2>2, FS_Injection
<1> DEFINE s == [i \in 1 .. n |-> CHOOSE e \in C : rank[e] = i]
<1>8. ASSUME NEW i \in 1 .. n PROVE s[i] \in C /\ rank[s[i]] = i
  <2>1. \E e \in C : rank[e] = i
    BY <1>7 DEF Surjection
  <2> QED BY <2>1
<1>9. DOMAIN s = 1 .. n /\ s \in [1 .. n -> C]
  BY <1>8
<1> HIDE DEF s
<1>10. s \in SetToSeqs(C)
  BY <1>8, <1>9 DEF SetToSeqs
<1>11. ASSUME NEW i \in 1 .. n, NEW j \in 1 .. n, i < j
       PROVE  Precedes(s[i], s[j], query)
  <2>1. s[i] \in C /\ s[j] \in C /\ rank[s[i]] = i /\ rank[s[j]] = j
    BY <1>8
  <2>2. s[i] # s[j]
    BY <1>1, <1>11, <2>1
  <2>3. ~ Precedes(s[j], s[i], query)
    BY <1>1, <1>5, <1>11, <2>1
  <2> QED BY <2>1, <2>2, <2>3 DEF InOrder
<1> QED BY <1>9, <1>10, <1>11 DEF Sorted

\* What Relevant gives back of the candidates C.
Best(edits, C, query) ==
    LET returned == ToSet(edits)
    IN  /\ edits \in Seq(Edits) /\ returned \subseteq C
        /\ Cardinality(returned) = Len(edits)
        /\ Len(edits) = MaxPromptEdits \/ C \ returned = {}
        /\ \A e \in returned, f \in C \ returned : Precedes(e, f, query)
        /\ Sorted(edits, query)

LEMMA RankedFacts ==
    ASSUME NEW h, Limited(h), NEW query \in Queries
    PROVE  LET C == Candidates(h, query)
               s == Ranked(h, query)
           IN  /\ C \in SUBSET Edits /\ IsFiniteSet(C)
               /\ s \in SetToSeqs(C) /\ Sorted(s, query)
<1> DEFINE C == Candidates(h, query)
           s == Ranked(h, query)
<1>1. C \subseteq EditsOf(h) /\ EditsOf(h) \subseteq Edits /\ Timed(EditsOf(h))
  BY HistoryFacts DEF Candidates, Limited
<1>2. C \in SUBSET Edits /\ Timed(C) /\ IsFiniteSet(C)
  BY <1>1, TimedSubset DEF Timed
<1>3. \E t \in SetToSeqs(C) : Sorted(t, query)
  <2> HIDE DEF C
  <2> QED BY <1>2, PrecedesInOrder, SortedExists
<1>4. s = CHOOSE t \in SetToSeqs(C) : Sorted(t, query)
  BY DEF Ranked, Sorted
<1> HIDE DEF C, s
<1>5. s \in SetToSeqs(C) /\ Sorted(s, query)
  BY <1>3, <1>4, Zenon
<1> QED BY <1>2, <1>5 DEF C, s

LEMMA CutIsBest ==
    ASSUME NEW C \in SUBSET Edits, IsFiniteSet(C), NEW query,
           NEW s \in SetToSeqs(C), Sorted(s, query)
    PROVE  Best(SubSeq(s, 1, Least({MaxPromptEdits, Len(s)})), C, query)
<1> DEFINE n == Len(s)
           k == Least({MaxPromptEdits, Len(s)})
           r == SubSeq(s, 1, k)
<1>1. /\ n \in Nat /\ s \in Seq(C) /\ DOMAIN s = 1 .. n
      /\ {s[i] : i \in 1 .. n} = C
      /\ \A i, j \in 1 .. n : s[i] = s[j] => i = j
  BY SeqsOfSet
<1>2. MaxPromptEdits \in Nat
  BY HistoryAssumption
<1>3. k \in Nat /\ k <= n /\ (k = MaxPromptEdits \/ k = n)
  <2> DEFINE P == {MaxPromptEdits, Len(s)}
  <2>1. P \in SUBSET Nat /\ P # {} /\ n \in P
    BY <1>1, <1>2
  <2> HIDE DEF P
  <2>2. Least(P) \in P /\ \A x \in P : Least(P) <= x
    BY <2>1, LeastInSet
  <2>3. k = Least(P) /\ k \in P /\ k <= n
    BY <2>1, <2>2 DEF P
  <2> HIDE DEF k, n
  <2> QED BY <1>1, <1>2, <2>1, <2>3 DEF P, n
<1> HIDE DEF k
<1>4. /\ r \in Seq(Edits) /\ Len(r) = k /\ DOMAIN r = 1 .. k
      /\ \A i \in 1 .. k : r[i] = s[i]
  <2> DEFINE one == 1
  <2>1. \A i \in one .. k : s[i] \in Edits
    <3>1. \A i \in one .. k : i \in 1 .. n
      <4> HIDE DEF n
      <4> QED BY <1>1, <1>3 DEF one
    <3>2. \A i \in 1 .. n : s[i] \in Edits
      BY <1>1
    <3> HIDE DEF one, n
    <3> QED BY <3>1, <3>2
  <2>2. one \in Int /\ k \in Int /\ (IF one <= k THEN k - one + 1 ELSE 0) = k
    BY <1>3
  <2> HIDE DEF one
  <2> DEFINE t == SubSeq(s, one, k)
  <2>3. /\ t \in Seq(Edits)
        /\ Len(t) = IF one <= k THEN k - one + 1 ELSE 0
        /\ \A i \in 1 .. k - one + 1 : t[i] = s[one + i - 1]
    BY <2>1, <2>2, SubSeqProperties
  <2> HIDE DEF t
  <2>4. t \in Seq(Edits) /\ Len(t) = k /\ DOMAIN t = 1 .. k
    BY <2>2, <2>3, LenProperties
  <2>5. \A i \in 1 .. k : t[i] = s[i]
    BY <1>3, <2>3 DEF one
  <2> QED BY <2>4, <2>5 DEF t, one
<1> HIDE DEF r, n
<1>5. \A i \in 1 .. k : i \in 1 .. n
  BY <1>1, <1>3
<1>6. ToSet(r) = {s[i] : i \in 1 .. k} /\ ToSet(r) \subseteq C
  BY <1>1, <1>4, <1>5 DEF ToSet
<1>7. Cardinality(ToSet(r)) = k
  <2>1. r \in [1 .. k -> ToSet(r)]
    BY <1>4, SeqDef DEF ToSet
  <2>2. \A i, j \in 1 .. k : r[i] = r[j] => i = j
    BY <1>1, <1>4, <1>5
  <2>3. r \in Injection(1 .. k, ToSet(r))
    BY <2>1, <2>2 DEF Injection, IsInjective
  <2>4. r \in Surjection(1 .. k, ToSet(r))
    BY <1>4, <2>1 DEF Surjection, ToSet
  <2>5. ExistsBijection(1 .. k, ToSet(r))
    BY <2>3, <2>4 DEF ExistsBijection, Bijection
  <2> QED BY <1>3, <2>5, FS_CountingElements
<1>8. ASSUME NEW f \in C, f \notin ToSet(r) PROVE \E j \in 1 .. n : f = s[j] /\ k < j
  <2>1. PICK j \in 1 .. n : f = s[j]
    BY <1>1
  <2>2. ~ (j \in 1 .. k)
    BY <1>6, <1>8, <2>1
  <2> QED BY <1>1, <1>3, <2>1, <2>2
<1>9. ASSUME NEW e \in ToSet(r), NEW f \in C \ ToSet(r) PROVE Precedes(e, f, query)
  <2>1. PICK i \in 1 .. k : e = s[i]
    BY <1>6
  <2>2. PICK j \in 1 .. n : f = s[j] /\ k < j
    BY <1>8
  <2>3. i < j
    BY <1>1, <1>3, <2>2
  <2> QED BY <1>1, <1>5, <2>1, <2>2, <2>3 DEF Sorted
<1>10. k = n => C \ ToSet(r) = {}
  BY <1>1, <1>8
<1>11. Sorted(r, query)
  BY <1>1, <1>4, <1>5 DEF Sorted
<1>12. Best(r, C, query)
  BY <1>3, <1>4, <1>6, <1>7, <1>9, <1>10, <1>11 DEF Best
<1> QED BY <1>12 DEF r, k

-----------------------------------------------------------------------------
\* Besides what is Sound, no edit is from the future, and an answer is the
\* best of the edits that are still stored.
IInv ==
    /\ Sound
    /\ cursorLines \in [Paths -> Lines \cup {NoLine}]
    /\ contents \in [Paths -> Texts \cup {NoText}]
    /\ now \in 0 .. MaxNow
    /\ \A e \in Stored \cup Pending : e.at <= now
    /\ answer # NoAnswer =>
          /\ Pending = {}
          /\ Best(answer.edits, Candidates(files, answer.query), answer.query)

LEMMA InitInv == Init => IInv
<1> SUFFICES ASSUME Init PROVE IInv
  OBVIOUS
<1>1. \A p \in Paths : files[p] = <<>> /\ pending[p] = NoEdit
  BY DEF Init
<1>2. ToSet(<<>>) = {} /\ Len(<<>>) = 0
  BY DEF ToSet
<1>3. EditsOf(files) = {} /\ Stored = {} /\ Pending = {}
  BY <1>1, <1>2 DEF EditsOf, Stored, Pending
<1>4. files \in [Paths -> Seq(Edits)]
  BY EmptySeq DEF Init
<1>5. \A p \in Paths : DOMAIN files[p] = {}
  BY <1>1
<1>6. IsHistory(files)
  BY <1>3, <1>4, <1>5 DEF IsHistory, Ordered
<1>7. Limited(files)
  <2>1. Cardinality(EditsOf(files)) = 0
    BY <1>3, FS_EmptySet
  <2> QED BY <1>1, <1>2, <1>6, <2>1, HistoryAssumption DEF Limited
<1>8. Timed(Stored \cup Pending)
  BY <1>3, FS_EmptySet DEF Timed
<1>9. Sound
  BY <1>1, <1>7, <1>8 DEF Sound, Init
<1> QED BY <1>3, <1>9, HistoryAssumption DEF IInv, Init

\* An update that gives file p the new edit e, the files Q flushed before.
LEMMA UpdateStep ==
    ASSUME IInv, NEW p \in Paths, NEW e \in Edits, e.path = p, e.at = now + 1,
           NEW Q \in SUBSET {p}, Flushing(files', Q),
           pending' = [pending EXCEPT ![p] = e]
    PROVE  Sound' /\ \A x \in (Stored \cup Pending)' : x.at <= now + 1
<1> DEFINE All == Stored \cup Pending
<1>1. Sound /\ Timed(All) /\ now \in Nat /\ \A x \in All : x.at \in Nat /\ x.at <= now
  BY HistoryAssumption DEF IInv, Sound, Timed
<1>2. /\ Limited(files') /\ IsHistory(files')
      /\ Stored' \subseteq Gathered(Q)
  BY DEF Flushing, Limited, IsNewest, Stored
<1>3. /\ \A f \in Gathered(Q) : f \in Stored \/ (f \in Pending /\ f.path = p)
      /\ Stored' \subseteq All
  BY <1>1, <1>2, GatheredFacts
<1>4. /\ pending \in [Paths -> Edits \cup {NoEdit}]
      /\ pending' \in [Paths -> Edits \cup {NoEdit}] /\ pending'[p] = e
      /\ \A q \in Paths : q # p => pending'[q] = pending[q]
  BY DEF IInv, Sound
<1>5. Pending' \subseteq Pending \cup {e}
  BY <1>4 DEF Pending
<1>6. (Stored \cup Pending)' \subseteq All \cup {e}
  BY <1>3, <1>5
<1> HIDE DEF All
<1>7. Timed(All \cup {e}) /\ \A x \in All \cup {e} : x.at <= now + 1
  <2>1. IsFiniteSet(All \cup {e})
    BY <1>1, FS_AddElement DEF Timed
  <2>2. \A x \in All : x.at # e.at
    BY <1>1
  <2>3. \A x, y \in All : x.at = y.at => x = y
    BY <1>1 DEF Timed
  <2>4. \A x, y \in All \cup {e} : x.at = y.at => x = y
    BY <2>2, <2>3
  <2>5. \A x \in All \cup {e} : x.at \in Nat
    BY <1>1
  <2> QED BY <1>1, <2>1, <2>4, <2>5 DEF Timed
<1>8. Timed((Stored \cup Pending)')
  BY <1>6, <1>7, TimedSubset
<1>9. ASSUME NEW q \in Paths, pending'[q] # NoEdit
      PROVE  /\ pending'[q].path = q
             /\ \A f \in ToSet(files'[q]) : f.at < pending'[q].at
  <2>1. ToSet(files'[q]) = {f \in Stored' : f.path = q}
    BY <1>2, FileOfHistory DEF Stored
  <2>2. CASE q = p
    <3>1. ASSUME NEW f \in Stored' PROVE f.at < e.at
      <4>1. f.at \in Nat /\ f.at <= now
        BY <1>1, <1>3 DEF All
      <4> QED BY <1>1, <4>1
    <3> QED BY <1>4, <2>1, <2>2, <3>1
  <2>3. CASE q # p
    <3>1. pending'[q] = pending[q]
      BY <1>4, <2>3
    <3>2. ASSUME NEW f \in ToSet(files'[q]) PROVE f \in ToSet(files[q])
      <4>1. f \in Stored /\ f.path = q
        BY <1>2, <1>3, <2>1, <2>3
      <4>2. ToSet(files[q]) = {x \in Stored : x.path = q}
        BY <1>1, FileOfHistory DEF Sound, Limited, Stored
      <4> QED BY <4>1, <4>2
    <3> QED BY <1>1, <1>9, <3>1, <3>2 DEF Sound
  <2> QED BY <2>2, <2>3
<1>10. Sound'
  <2>1. Timed(Stored' \cup Pending')
    BY <1>8
  <2> QED BY <1>2, <1>4, <1>9, <2>1 DEF Sound
<1> QED BY <1>6, <1>7, <1>10

\* The edits that an update makes.
LEMMA NewEdits ==
    ASSUME IInv, NEW p \in GoPaths, NEW text \in Texts, contents[p] # NoText, now < MaxNow,
           NEW e, e = DiffEdit(p, contents[p], text, now + 1), e # NoEdit
    PROVE  LET f == MergeEdits(pending[p], e, contents[p], text, now + 1)
           IN  /\ e \in Edits /\ e.path = p /\ e.at = now + 1
               /\ StandsIn(e, text)
               /\ <<>> \notin {e.before, e.after} => Undoes(e, text, contents[p])
               /\ pending[p] # NoEdit =>
                     f \in Edits /\ f.path = p /\ f.at = now + 1 /\ StandsIn(f, text)
<1> DEFINE old == contents[p]
           f == MergeEdits(pending[p], e, old, text, now + 1)
           at == now + 1
<1>1. p \in Paths /\ at \in 1 .. MaxNow
  BY HistoryAssumption DEF IInv
<1>2. old \in Texts
  BY <1>1 DEF IInv
<1>3. \A t \in Texts : t \in Seq(Characters)
  <2>1. \A t \in Texts : t \in Seq(ToSet(t)) /\ ToSet(t) \subseteq Characters
    BY HistoryAssumption DEF Characters
  <2> QED BY <2>1, SeqMonotonic
<1>4. old \in Seq(Characters) /\ text \in Seq(Characters)
  BY <1>2, <1>3
<1> HIDE DEF at, old
<1>5. e = DiffEdit(p, old, text, at)
  BY DEF at, old
<1>6. /\ e = Edit(p, e.start, e.end, e.before, e.after, at)
      /\ HunkOver(Characters, e) /\ StandsIn(e, text)
      /\ <<>> \notin {e.before, e.after} => Undoes(e, text, old)
  BY <1>4, <1>5, DiffEditFacts
<1>7. ASSUME NEW x, x = Edit(p, x.start, x.end, x.before, x.after, at), HunkOver(Characters, x)
      PROVE  x \in Edits /\ x.path = p /\ x.at = at
  BY <1>1, <1>7 DEF Edits, Edit, HunkOver
<1>8. e \in Edits /\ e.path = p /\ e.at = at
  BY <1>6, <1>7
<1>9. ASSUME pending[p] # NoEdit
      PROVE  f \in Edits /\ f.path = p /\ f.at = at /\ StandsIn(f, text)
  <2>1. HunkOver(Characters, pending[p])
    BY <1>1, <1>9, EditFields DEF IInv, Sound
  <2>2. /\ f = Edit(e.path, f.start, f.end, f.before, f.after, at)
        /\ HunkOver(Characters, f) /\ StandsIn(f, text)
    BY <1>4, <1>6, <2>1, MergeEditsFacts DEF at
  <2> HIDE DEF f
  <2> QED BY <1>7, <1>8, <2>2
<1> QED BY <1>6, <1>8, <1>9 DEF at, old

LEMMA OpenInv ==
    ASSUME IInv, NEW p \in Paths, NEW text \in Texts, Open(p, text)
    PROVE  IInv'
<1>1. /\ files' = files /\ pending' = pending /\ now' = now /\ answer' = NoAnswer
      /\ cursorLines' = cursorLines /\ contents' = [contents EXCEPT ![p] = text]
  BY DEF Open
<1>2. Stored' = Stored /\ Pending' = Pending
  BY <1>1 DEF Stored, Pending, EditsOf
<1>3. Sound'
  BY <1>1, <1>2 DEF IInv, Sound
<1>4. contents' \in [Paths -> Texts \cup {NoText}]
  BY <1>1 DEF IInv
<1> QED BY <1>1, <1>2, <1>3, <1>4 DEF IInv

LEMMA TickInv ==
    ASSUME IInv, Tick
    PROVE  IInv'
<1>1. /\ files' = files /\ pending' = pending /\ now' = now + 1 /\ answer' = NoAnswer
      /\ cursorLines' = cursorLines /\ contents' = contents /\ now < MaxNow
  BY DEF Tick
<1>2. Stored' = Stored /\ Pending' = Pending
  BY <1>1 DEF Stored, Pending, EditsOf
<1>3. Sound'
  BY <1>1, <1>2 DEF IInv, Sound
<1>4. now' \in 0 .. MaxNow
  BY <1>1, HistoryAssumption DEF IInv
<1>5. ASSUME NEW e \in Stored \cup Pending PROVE e.at <= now'
  <2>1. e.at \in Nat /\ e.at <= now /\ now \in Nat
    BY HistoryAssumption DEF IInv, Sound, Timed
  <2> QED BY <1>1, <2>1
<1> QED BY <1>1, <1>2, <1>3, <1>4, <1>5 DEF IInv

\* The three cases of an update: nothing for the history, a merge into the
\* pending edit, a new pending edit in place of a stored one.
LEMMA ObserveCases ==
    ASSUME IInv, NEW p \in Paths, NEW text \in Texts, ObserveFileUpdate(p, text)
    PROVE  \/ files' = files /\ pending' = pending
           \/ /\ p \in GoPaths /\ files' = files
              /\ \E f \in Edits : /\ f.path = p /\ f.at = now + 1 /\ StandsIn(f, text)
                                  /\ pending[p] # NoEdit
                                  /\ pending' = [pending EXCEPT ![p] = f]
           \/ /\ p \in GoPaths /\ files' = StorePending(files, p)
              /\ \E e \in Edits : /\ e.path = p /\ e.at = now + 1 /\ StandsIn(e, text)
                                  /\ <<>> \notin {e.before, e.after} =>
                                        Undoes(e, text, contents[p])
                                  /\ pending' = [pending EXCEPT ![p] = e]
<1> DEFINE e == DiffEdit(p, contents[p], text, now + 1)
           f == MergeEdits(pending[p], e, contents[p], text, now + 1)
<1>1. contents[p] # NoText /\ now < MaxNow
  BY DEF ObserveFileUpdate
<1>2. CASE ~ (Tracked(p, text) /\ e # NoEdit)
  BY <1>2 DEF ObserveFileUpdate
<1>3. CASE Tracked(p, text) /\ e # NoEdit
  <2>1. p \in GoPaths
    BY <1>3 DEF Tracked
  <2>2. /\ e \in Edits /\ e.path = p /\ e.at = now + 1
        /\ StandsIn(e, text)
        /\ <<>> \notin {e.before, e.after} => Undoes(e, text, contents[p])
        /\ pending[p] # NoEdit =>
              f \in Edits /\ f.path = p /\ f.at = now + 1 /\ StandsIn(f, text)
    BY <1>1, <1>3, <2>1, NewEdits
  <2>3. CASE Merges(p, e)
    <3>1. pending[p] # NoEdit
      BY <2>3 DEF Merges
    <3>2. files' = files /\ pending' = [pending EXCEPT ![p] = f]
      BY <1>3, <2>3 DEF ObserveFileUpdate
    <3> HIDE DEF e, f
    <3> QED BY <2>1, <2>2, <3>1, <3>2
  <2>4. CASE ~ Merges(p, e)
    <3>1. files' = StorePending(files, p) /\ pending' = [pending EXCEPT ![p] = e]
      BY <1>3, <2>4 DEF ObserveFileUpdate
    <3> HIDE DEF e, f
    <3> QED BY <2>1, <2>2, <3>1
  <2> QED BY <2>3, <2>4
<1> QED BY <1>2, <1>3

LEMMA NothingFlushed == Sound => Flushing(files, {})
<1> SUFFICES ASSUME Sound PROVE Flushing(files, {})
  OBVIOUS
<1>1. Gathered({}) = EditsOf(files)
  BY DEF Gathered, EditsOf
<1> QED BY <1>1 DEF Flushing, Sound, Limited, IsNewest

LEMMA OneFlushed ==
    ASSUME Sound, NEW p \in Paths
    PROVE  Flushing(StorePending(files, p), {p})
<1>1. Flushing(StorePending(files, p), {} \cup {p})
  <2> DEFINE none == {}
  <2>1. none \in SUBSET Paths /\ p \notin none /\ Flushing(files, none)
    BY NothingFlushed
  <2> HIDE DEF none
  <2>2. Flushing(StorePending(files, p), none \cup {p})
    BY <2>1, FlushStep
  <2> QED BY <2>2 DEF none
<1>2. {} \cup {p} = {p}
  OBVIOUS
<1> QED BY <1>1, <1>2

LEMMA ObserveInv ==
    ASSUME IInv, NEW p \in Paths, NEW text \in Texts, ObserveFileUpdate(p, text)
    PROVE  IInv'
<1>1. /\ now' = now + 1 /\ now < MaxNow /\ answer' = NoAnswer
      /\ cursorLines' = cursorLines /\ contents' = [contents EXCEPT ![p] = text]
  BY DEF ObserveFileUpdate
<1>2. Sound /\ now \in Nat /\ now' \in 0 .. MaxNow
  BY <1>1, HistoryAssumption DEF IInv
<1>3. contents' \in [Paths -> Texts \cup {NoText}]
  BY <1>1 DEF IInv
<1>4. Sound' /\ \A e \in (Stored \cup Pending)' : e.at <= now + 1
  <2>1. CASE files' = files /\ pending' = pending
    <3>1. Stored' = Stored /\ Pending' = Pending
      BY <2>1 DEF Stored, Pending, EditsOf
    <3>2. Sound'
      BY <1>2, <2>1, <3>1 DEF Sound
    <3>3. ASSUME NEW e \in Stored \cup Pending PROVE e.at <= now + 1
      <4>1. e.at \in Nat /\ e.at <= now
        BY DEF IInv, Sound, Timed
      <4> QED BY <1>2, <4>1
    <3> QED BY <3>1, <3>2, <3>3
  <2>2. ASSUME NEW e \in Edits, e.path = p, e.at = now + 1, files' = files,
               pending' = [pending EXCEPT ![p] = e]
        PROVE  Sound' /\ \A x \in (Stored \cup Pending)' : x.at <= now + 1
    <3> DEFINE none == {}
    <3>1. none \in SUBSET {p} /\ Flushing(files', none)
      BY <1>2, <2>2, NothingFlushed
    <3> HIDE DEF none
    <3> QED BY <2>2, <3>1, UpdateStep
  <2>3. ASSUME NEW e \in Edits, e.path = p, e.at = now + 1, files' = StorePending(files, p),
               pending' = [pending EXCEPT ![p] = e]
        PROVE  Sound' /\ \A x \in (Stored \cup Pending)' : x.at <= now + 1
    <3> DEFINE Q == {p}
    <3>1. Q \in SUBSET {p} /\ Flushing(files', Q)
      BY <1>2, <2>3, OneFlushed
    <3> HIDE DEF Q
    <3> QED BY <2>3, <3>1, UpdateStep
  <2> QED BY <2>1, <2>2, <2>3, ObserveCases
<1> QED BY <1>1, <1>2, <1>3, <1>4 DEF IInv

LEMMA CompleteInv ==
    ASSUME IInv, NEW query \in Queries, CompleteAtCursor(query)
    PROVE  IInv'
<1>1. PICK order \in SetToSeqs(GoPaths) :
        /\ cursorLines' = IF query.path \in GoPaths
                          THEN [cursorLines EXCEPT ![query.path] = query.line]
                          ELSE cursorLines
        /\ files' = Flushed(order)
        /\ pending' = [p \in Paths |-> NoEdit]
        /\ answer' = [query |-> query,
                      edits |-> SubSeq(Ranked(files', query), 1,
                                       Least({MaxPromptEdits, Len(Ranked(files', query))}))]
        /\ contents' = contents /\ now' = now
  BY DEF CompleteAtCursor
<1>2. Sound /\ now \in Nat
  BY HistoryAssumption DEF IInv
<1>3. Limited(files') /\ Stored' \subseteq Gathered(GoPaths)
  BY <1>1, <1>2, FlushedFacts DEF IsNewest, Stored
<1>4. Pending' = {}
  BY <1>1 DEF Pending
<1>5. Stored' \cup Pending' \subseteq Stored \cup Pending
  <2>1. GoPaths \in SUBSET Paths
    BY HistoryAssumption
  <2> QED BY <1>2, <1>3, <1>4, <2>1, GatheredFacts
<1>6. Sound'
  <2>1. Timed(Stored' \cup Pending')
    BY <1>2, <1>5, TimedSubset DEF Sound
  <2> QED BY <1>1, <1>3, <2>1 DEF Sound
<1>7. cursorLines' \in [Paths -> Lines \cup {NoLine}]
  BY <1>1 DEF IInv, Queries
<1>8. answer'.query = query
      /\ Best(answer'.edits, Candidates(files', query), query)
  <2> DEFINE C == Candidates(files', query)
             s == Ranked(files', query)
  <2>1. /\ C \in SUBSET Edits /\ IsFiniteSet(C)
        /\ s \in SetToSeqs(C) /\ Sorted(s, query)
    BY <1>3, RankedFacts
  <2>2. /\ answer'.query = query
        /\ answer'.edits = SubSeq(s, 1, Least({MaxPromptEdits, Len(s)}))
    BY <1>1
  <2> HIDE DEF C, s
  <2>3. Best(SubSeq(s, 1, Least({MaxPromptEdits, Len(s)})), C, query)
    BY <2>1, CutIsBest
  <2> QED BY <2>2, <2>3 DEF C
<1>9. now' \in 0 .. MaxNow /\ contents' \in [Paths -> Texts \cup {NoText}]
  BY <1>1 DEF IInv
<1>10. \A e \in Stored' \cup Pending' : e.at <= now'
  BY <1>1, <1>5 DEF IInv
<1>11. answer' # NoAnswer =>
          /\ Pending' = {}
          /\ Best(answer'.edits, Candidates(files', answer'.query), answer'.query)
  BY <1>4, <1>8
<1> QED BY <1>6, <1>7, <1>9, <1>10, <1>11 DEF IInv

LEMMA StutterInv ==
    ASSUME IInv, UNCHANGED vars
    PROVE  IInv'
<1>1. /\ files' = files /\ pending' = pending /\ now' = now /\ answer' = answer
      /\ cursorLines' = cursorLines /\ contents' = contents
  BY DEF vars
<1>2. Stored' = Stored /\ Pending' = Pending
  BY <1>1 DEF Stored, Pending, EditsOf
<1>3. Sound'
  BY <1>1, <1>2 DEF IInv, Sound
<1> QED BY <1>1, <1>2, <1>3 DEF IInv

LEMMA StepInv == IInv /\ [Next]_vars => IInv'
BY OpenInv, ObserveInv, CompleteInv, TickInv, StutterInv DEF Next

LEMMA InvFacts ==
    IInv => TypeOK /\ Limits /\ Chronological /\ FlushOrderIrrelevant /\ AnswerIsBest
<1> SUFFICES ASSUME IInv
             PROVE  TypeOK /\ Limits /\ Chronological /\ FlushOrderIrrelevant /\ AnswerIsBest
  OBVIOUS
<1>1. Sound /\ Limited(files) /\ IsHistory(files)
  BY DEF IInv, Sound, Limited
<1>2. TypeOK
  <2>1. answer # NoAnswer => answer.edits \in Seq(Edits)
    BY DEF IInv, Best
  <2> QED BY <1>1, <2>1 DEF IInv, Sound, IsHistory, TypeOK
<1>3. Limits
  BY <1>1, HistoryFacts DEF Limits, Limited
<1>4. Chronological
  <2>1. ASSUME NEW p \in Paths, NEW i \in DOMAIN files[p], pending[p] # NoEdit
        PROVE  files[p][i].at < pending[p].at
    BY <1>1, <2>1 DEF Sound, ToSet
  <2>2. \A p \in Paths : \A i, j \in DOMAIN files[p] : i < j => files[p][i].at < files[p][j].at
    BY <1>1 DEF IsHistory, Ordered
  <2> QED BY <2>1, <2>2 DEF Chronological
<1>5. FlushOrderIrrelevant
  BY <1>1, SoundOrderIrrelevant
<1>6. AnswerIsBest
  <2> SUFFICES ASSUME answer # NoAnswer PROVE AnswerIsBest
    BY DEF AnswerIsBest
  <2> DEFINE C == Candidates(files, answer.query)
             returned == ToSet(answer.edits)
  <2>1. Pending = {} /\ Best(answer.edits, C, answer.query)
    BY DEF IInv
  <2>2. C = {e \in Stored : ~ UnderCursor(e, answer.query)}
    BY DEF Candidates, Stored
  <2>3. /\ returned \subseteq C
        /\ Cardinality(returned) = Len(answer.edits)
        /\ Len(answer.edits) = MaxPromptEdits \/ C \ returned = {}
        /\ \A e \in returned, f \in C \ returned : Precedes(e, f, answer.query)
        /\ \A i, j \in DOMAIN answer.edits :
              i < j => Precedes(answer.edits[i], answer.edits[j], answer.query)
    BY <2>1 DEF Best, Sorted
  <2> HIDE DEF returned
  <2>4. returned \subseteq Stored /\ \A e \in returned : ~ UnderCursor(e, answer.query)
    BY <2>2, <2>3
  <2> HIDE DEF C
  <2> QED BY <2>1, <2>2, <2>3, <2>4 DEF AnswerIsBest, returned
<1> QED BY <1>2, <1>3, <1>4, <1>5, <1>6

LEMMA Invariance == Spec => []IInv
BY InitInv, StepInv, PTL DEF Spec

(***************************************************************************)
(* history.go: every variable keeps its type, and every edit is filed      *)
(* under its own path.                                                     *)
(***************************************************************************)
THEOREM TypeCorrect == Spec => []TypeOK
BY Invariance, InvFacts, PTL

(***************************************************************************)
(* storeLocked keeps the limit of each file and that of the project.       *)
(***************************************************************************)
THEOREM LimitsHold == Spec => []Limits
BY Invariance, InvFacts, PTL

(***************************************************************************)
(* What enforceFileLimitLocked and enforceProjectLimitLocked take for the  *)
(* oldest edit is the oldest: edits are filed in the order of their times. *)
(***************************************************************************)
THEOREM InTheOrderOfTime == Spec => []Chronological
BY Invariance, InvFacts, PTL

(***************************************************************************)
(* flushAllPendingLocked ranges over a map: whatever the order, the same   *)
(* edits remain.                                                           *)
(***************************************************************************)
THEOREM MapOrderIrrelevant == Spec => []FlushOrderIrrelevant
BY Invariance, InvFacts, PTL

(***************************************************************************)
(* Relevant returns the best edits, ranked, and none that is better is     *)
(* left out.                                                               *)
(***************************************************************************)
THEOREM BestAnswer == Spec => []AnswerIsBest
BY Invariance, InvFacts, PTL

-----------------------------------------------------------------------------
LEMMA NewestSurviveStep ==
    ASSUME IInv, [Next]_vars, NEW p \in Paths, NEW e \in ToSet(files[p]) \ ToSet(files'[p])
    PROVE  Forgotten(files', p, e)
<1>1. Sound /\ Sound'
  BY StepInv DEF IInv
<1>2. ASSUME NEW Q \in SUBSET Paths, Flushing(files', Q)
      PROVE  Forgotten(files', p, e)
  BY <1>1, <1>2, FlushForgetsOldest
<1>3. CASE files' = files
  BY <1>3
<1>4. ASSUME NEW q \in Paths, files' = StorePending(files, q)
      PROVE  Forgotten(files', p, e)
  <2> DEFINE Q == {q}
  <2>1. Q \in SUBSET Paths /\ Flushing(files', Q)
    BY <1>1, <1>4, OneFlushed
  <2> HIDE DEF Q
  <2> QED BY <1>2, <2>1
<1>5. ASSUME NEW query \in Queries, CompleteAtCursor(query)
      PROVE  Forgotten(files', p, e)
  <2>1. PICK order \in SetToSeqs(GoPaths) : files' = Flushed(order)
    BY <1>5 DEF CompleteAtCursor
  <2>2. GoPaths \in SUBSET Paths /\ Flushing(files', GoPaths)
    BY <1>1, <2>1, FlushedFacts, HistoryAssumption DEF Flushing
  <2> QED BY <1>2, <2>2
<1>6. ASSUME NEW q \in Paths, NEW text \in Texts, ObserveFileUpdate(q, text)
      PROVE  files' = files \/ files' = StorePending(files, q)
  BY <1>6, ObserveCases
<1>7. ASSUME NEW q \in Paths, NEW text \in Texts, Open(q, text) PROVE files' = files
  BY <1>7 DEF Open
<1> QED BY <1>3, <1>4, <1>5, <1>6, <1>7 DEF Next, Tick, vars

(***************************************************************************)
(* storeLocked and its two limits: what is forgotten is older than all     *)
(* that stays in its file or, at the project's limit, than all that stays. *)
(***************************************************************************)
THEOREM OldestGoFirst == Spec => NewestSurvive
<1>1. IInv /\ [Next]_vars =>
         [\A p \in Paths : \A e \in ToSet(files[p]) \ ToSet(files'[p]) :
             \/ /\ Len(files'[p]) = MaxEditsPerFile
                /\ \A f \in ToSet(files'[p]) : e.at < f.at
             \/ /\ Total(files') = MaxEditsPerProject
                /\ \A q \in Paths : \A f \in ToSet(files'[q]) : e.at < f.at]_vars
  BY NewestSurviveStep DEF Forgotten
<1> QED BY <1>1, Invariance, PTL DEF NewestSurvive, Spec

LEMMA HunkFitsStep ==
    ASSUME IInv, [Next]_vars, NEW p \in Paths, pending'[p] \notin {pending[p], NoEdit}
    PROVE  /\ StandsIn(pending'[p], contents'[p])
           /\ ~ (pending[p] # NoEdit /\ files' = files)
              => (<<>> \notin {pending'[p].before, pending'[p].after} =>
                     Undoes(pending'[p], contents'[p], contents[p]))
<1>1. ASSUME NEW q \in Paths, NEW text \in Texts, ObserveFileUpdate(q, text)
      PROVE  /\ StandsIn(pending'[p], contents'[p])
             /\ ~ (pending[p] # NoEdit /\ files' = files)
                => (<<>> \notin {pending'[p].before, pending'[p].after} =>
                       Undoes(pending'[p], contents'[p], contents[p]))
  <2>1. contents' = [contents EXCEPT ![q] = text] /\ pending' # pending
    BY <1>1 DEF ObserveFileUpdate
  <2>2. DOMAIN contents = Paths /\ DOMAIN pending = Paths
    BY DEF IInv, Sound
  <2>3. ASSUME NEW f \in Edits, pending' = [pending EXCEPT ![q] = f]
        PROVE  p = q /\ pending'[p] = f /\ contents'[p] = text
    BY <2>1, <2>2, <2>3
  <2>4. CASE /\ files' = files
             /\ \E f \in Edits : /\ StandsIn(f, text) /\ pending[q] # NoEdit
                                 /\ pending' = [pending EXCEPT ![q] = f]
    <3>1. PICK f \in Edits : /\ StandsIn(f, text) /\ pending[q] # NoEdit
                             /\ pending' = [pending EXCEPT ![q] = f]
      BY <2>4
    <3>2. p = q /\ pending'[p] = f /\ contents'[p] = text
      BY <2>3, <3>1
    <3>3. StandsIn(pending'[p], contents'[p])
      BY <3>1, <3>2
    <3> QED BY <2>4, <3>1, <3>2, <3>3
  <2>5. CASE \E f \in Edits : /\ StandsIn(f, text)
                              /\ <<>> \notin {f.before, f.after} =>
                                    Undoes(f, text, contents[q])
                              /\ pending' = [pending EXCEPT ![q] = f]
    <3>1. PICK f \in Edits : /\ StandsIn(f, text)
                             /\ <<>> \notin {f.before, f.after} =>
                                   Undoes(f, text, contents[q])
                             /\ pending' = [pending EXCEPT ![q] = f]
      BY <2>5
    <3>2. p = q /\ pending'[p] = f /\ contents'[p] = text
      BY <2>3, <3>1
    <3>3. StandsIn(pending'[p], contents'[p])
      BY <3>1, <3>2
    <3>4. <<>> \notin {pending'[p].before, pending'[p].after} =>
             Undoes(pending'[p], contents'[p], contents[p])
      BY <3>1, <3>2
    <3> QED BY <3>3, <3>4
  <2> QED BY <1>1, <2>1, <2>4, <2>5, ObserveCases
<1>2. ASSUME NEW query \in Queries, CompleteAtCursor(query) PROVE pending'[p] = NoEdit
  BY <1>2 DEF CompleteAtCursor
<1>3. ASSUME NEW q \in Paths, NEW text \in Texts, Open(q, text) PROVE pending' = pending
  BY <1>3 DEF Open
<1> QED BY <1>1, <1>2, <1>3 DEF Next, Tick, vars

(***************************************************************************)
(* diffEdit and mergeEdits: an edit becomes pending with the text of its   *)
(* own lines, and an edit that was not merged and has both sides undoes    *)
(* the update.                                                             *)
(***************************************************************************)
THEOREM HunksFit == Spec => HunkFits
<1>1. IInv /\ [Next]_vars =>
         [\A p \in Paths : pending'[p] \notin {pending[p], NoEdit} =>
             LET e == pending'[p]
                 new == contents'[p]
                 from == OffsetForLine(new, e.start)
                 to == from + Len(e.after)
                 merged == pending[p] # NoEdit /\ files' = files
             IN  /\ Slice(new, from, to) = e.after
                 /\ ~ merged /\ <<>> \notin {e.before, e.after} =>
                       Slice(new, 0, from) \o e.before \o Slice(new, to, Len(new))
                           = contents[p]]_vars
  BY HunkFitsStep DEF StandsIn, Undoes
<1> QED BY <1>1, Invariance, PTL DEF HunkFits, Spec
=============================================================================
