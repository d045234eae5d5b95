----------------------- MODULE SuggestionCacheProofs ------------------------
(***************************************************************************)
(* The properties of both caches, proved for any number of contexts and    *)
(* texts, any limit, any lifetime and any number of calls.                 *)
(***************************************************************************)
EXTENDS SuggestionCache, FiniteSetTheorems, WellFoundedInduction, TLAPS

\* removeExpiredLocked only drops entries.
LEMMA UnexpiredSubset ==
    ASSUME NEW cache, NEW time
    PROVE  Unexpired(cache, time) \subseteq cache
BY DEF Unexpired

\* What removeExpiredLocked dropped stays dropped as time passes.
LEMMA UnexpiredShrinks ==
    ASSUME NEW cache \in Caches, NEW time \in Nat
    PROVE  Unexpired(cache, time + 1) \subseteq Unexpired(cache, time)
BY CacheAssumption DEF Unexpired, Caches, Entries

\* A second removeExpiredLocked at the same time changes nothing.
LEMMA UnexpiredTwice ==
    ASSUME NEW cache, NEW time
    PROVE  Unexpired(Unexpired(cache, time), time) = Unexpired(cache, time)
BY DEF Unexpired

\* Every set of naturals that is not empty has a least element.
LEMMA LeastNatural ==
    ASSUME NEW S \in SUBSET Nat, S # {}
    PROVE  \E x \in S : \A y \in S : x <= y
<1>1. \E x \in S : \A y \in S : <<y, x>> \notin OpToRel(<, Nat)
  BY NatLessThanWellFounded, WFMin
<1>2. \A x, y \in Nat : <<y, x>> \notin OpToRel(<, Nat) => x <= y
  BY DEF OpToRel
<1> QED
  BY <1>1, <1>2

\* The oldest entry of a set of entries.
LEMMA OldestEntry ==
    ASSUME NEW S \in Caches, S # {}
    PROVE  \E e \in S : \A f \in S : e.place <= f.place
<1> DEFINE places == {e.place : e \in S}
<1>1. places \in SUBSET Nat /\ places # {}
  BY DEF Caches, Entries
<1>2. \E x \in places : \A y \in places : x <= y
  BY <1>1, LeastNatural
<1> QED
  BY <1>2

\* The entry appended last, where last bounds the places.
LEMMA LatestEntry ==
    ASSUME NEW S \in Caches, S # {}, NEW last \in Nat, \A e \in S : e.place <= last
    PROVE  \E e \in S : \A f \in S : f.place <= e.place
<1> DEFINE ages == {last - e.place : e \in S}
<1>1. \A e \in S : e.place \in Nat /\ last - e.place \in Nat
  BY DEF Caches, Entries
<1>2. ages \in SUBSET Nat /\ ages # {}
  BY <1>1
<1>3. PICK x \in ages : \A y \in ages : x <= y
  BY <1>2, LeastNatural
<1>4. PICK e \in S : x = last - e.place
  BY <1>3
<1>5. \A f \in S : last - e.place <= last - f.place
  BY <1>3, <1>4
<1> QED
  BY <1>1, <1>5

-----------------------------------------------------------------------------
(***************************************************************************)
(* Cutting the slice.                                                      *)
(***************************************************************************)
Later(cache, e) == {f \in cache : f.place > e.place}

\* What was appended after an entry is finite.
LEMMA LaterIsSmaller ==
    ASSUME NEW cache, IsFiniteSet(cache), NEW e
    PROVE  IsFiniteSet(Later(cache, e)) /\ Cardinality(Later(cache, e)) \in Nat
BY FS_Subset, FS_CardinalityType DEF Later

\* The cut leaves no more than the limit.
LEMMA NewestIsBounded ==
    ASSUME NEW cache \in Caches, IsFiniteSet(cache), OnePlace(cache)
    PROVE  AtMost(Newest(cache))
<1> DEFINE kept == Newest(cache)
<1>1. kept \subseteq cache /\ kept \in Caches /\ IsFiniteSet(kept)
  BY FS_Subset DEF Newest, Caches
<1>2. CASE kept = {}
  BY <1>2, FS_EmptySet, CacheAssumption DEF AtMost
<1>3. CASE kept # {}
  <2>1. PICK e \in kept : \A f \in kept : e.place <= f.place
    BY <1>1, <1>3, OldestEntry
  <2>2. kept \ {e} \subseteq Later(cache, e)
    BY <1>1, <2>1 DEF OnePlace, Later, Caches, Entries
  <2>3. Cardinality(Later(cache, e)) < MaxEntries
    BY <2>1 DEF Newest, Later
  <2>4. Cardinality(kept \ {e}) <= Cardinality(Later(cache, e))
    BY <2>2, LaterIsSmaller, FS_Subset
  <2>5. Cardinality(kept \ {e}) = Cardinality(kept) - 1 /\ Cardinality(kept) \in Nat
    BY <1>1, <2>1, FS_RemoveElement, FS_CardinalityType
  <2> QED
    BY <1>1, <2>3, <2>4, <2>5, LaterIsSmaller, CacheAssumption DEF AtMost
<1> QED
  BY <1>2, <1>3

\* What the cut drops has a limit's worth of entries behind it that stay.
LEMMA DroppedIsDue ==
    ASSUME NEW cache \in Caches, IsFiniteSet(cache),
           NEW last \in Nat, \A f \in cache : f.place <= last,
           NEW e \in cache, e \notin Newest(cache)
    PROVE  Cardinality(Later(Newest(cache), e)) >= MaxEntries
<1> DEFINE kept == Newest(cache)
           dropped == cache \ kept
<1>1. kept \subseteq cache /\ dropped \in Caches /\ dropped # {} /\ IsFiniteSet(kept)
  BY FS_Subset DEF Newest, Caches
<1>2. PICK d \in dropped : \A f \in dropped : f.place <= d.place
  BY <1>1, LatestEntry
<1>3. \A f \in cache : f.place \in Nat
  BY DEF Caches, Entries
<1>4. Later(cache, d) \subseteq Later(kept, e)
  BY <1>2, <1>3 DEF Later
<1>5. Cardinality(Later(cache, d)) >= MaxEntries
  <2>1. ~(Cardinality(Later(cache, d)) < MaxEntries)
    BY <1>2 DEF Newest, Later
  <2>2. Cardinality(Later(cache, d)) \in Nat
    BY LaterIsSmaller
  <2> QED
    BY <2>1, <2>2, CacheAssumption
<1>6. Cardinality(Later(cache, d)) <= Cardinality(Later(kept, e))
  BY <1>1, <1>4, LaterIsSmaller, FS_Subset
<1> QED
  BY <1>1, <1>5, <1>6, LaterIsSmaller, CacheAssumption

-----------------------------------------------------------------------------
(***************************************************************************)
(* The shape of one cache, with last a bound of its places.                *)
(***************************************************************************)
Shape(cache, last) ==
    /\ cache \in Caches
    /\ AtMost(cache)
    /\ OnePlace(cache)
    /\ \A e \in cache : e.place <= last

Entry(k, t, at, place) == [key |-> k, text |-> t, createdAt |-> at, place |-> place]

\* Dropping entries leaves the shape.
LEMMA SubsetShape ==
    ASSUME NEW cache, NEW last, Shape(cache, last), NEW part \in SUBSET cache
    PROVE  Shape(part, last)
<1>1. IsFiniteSet(part) /\ Cardinality(part) <= Cardinality(cache)
  BY FS_Subset DEF Shape, AtMost
<1>2. Cardinality(part) \in Nat /\ Cardinality(cache) \in Nat
  BY <1>1, FS_CardinalityType DEF Shape, AtMost
<1> QED
  BY <1>1, <1>2, CacheAssumption DEF Shape, AtMost, OnePlace, Caches

\* Appending under a new place leaves the shape.
LEMMA AppendedShape ==
    ASSUME NEW cache, NEW last \in Nat, Shape(cache, last),
           NEW k \in Keys, NEW t \in Texts, NEW at \in Nat
    PROVE  Shape(Appended(cache, k, t, at, last + 1), last + 1)
<1> DEFINE new == Entry(k, t, at, last + 1)
           all == cache \cup {new}
<1>1. new \in Entries /\ new.place = last + 1
  BY DEF Entry, Entries
<1>2. all \in Caches /\ IsFiniteSet(all)
  BY <1>1, FS_AddElement DEF Shape, AtMost, Caches
<1>3. OnePlace(all) /\ \A e \in all : e.place <= last + 1
  BY <1>1 DEF Shape, OnePlace, Caches, Entries
<1> HIDE DEF new
<1>4. AtMost(Newest(all))
  BY <1>2, <1>3, NewestIsBounded
<1>5. Newest(all) \subseteq all
  BY DEF Newest
<1>6. Newest(all) = Appended(cache, k, t, at, last + 1)
  BY DEF Appended, new, Entry
<1>7. Shape(Newest(all), last + 1)
  BY <1>2, <1>3, <1>4, <1>5 DEF Shape, OnePlace, Caches
<1> QED
  BY <1>6, <1>7

\* A refresh of the only match replaces it and keeps its key and place.
LEMMA RefreshedOne ==
    ASSUME NEW cache \in Caches, NEW f \in cache, NEW t, NEW at
    PROVE  Refreshed(cache, {f}, t, at) =
             (cache \ {f}) \cup {Entry(f.key, t, at, f.place)}
<1>1. f \in Entries /\ f.place <= f.place
  BY DEF Caches, Entries
<1>2. {e \in {f} : \A g \in {f} : e.place <= g.place} = {f}
  BY <1>1
<1>3. [f EXCEPT !.text = t, !.createdAt = at] = Entry(f.key, t, at, f.place)
  <2> SUFFICES ASSUME NEW e, e = [f EXCEPT !.text = t, !.createdAt = at]
               PROVE  e = [key |-> f.key, text |-> t, createdAt |-> at, place |-> f.place]
    BY DEF Entry
  <2> QED
    BY <1>1 DEF Entries
<1> QED
  BY <1>2, <1>3 DEF Refreshed

\* Refreshing in place leaves the shape.
LEMMA RefreshedShape ==
    ASSUME NEW cache, NEW last \in Nat, Shape(cache, last), NEW f \in cache,
           NEW t \in Texts, NEW at \in Nat
    PROVE  Shape(Refreshed(cache, {f}, t, at), last)
<1> DEFINE new == Entry(f.key, t, at, f.place)
           others == cache \ {f}
<1>1. f \in Entries /\ new \in Entries /\ new.place = f.place
  BY DEF Shape, Caches, Entry, Entries
<1> HIDE DEF new
<1>2. /\ IsFiniteSet(others) /\ Cardinality(others) = Cardinality(cache) - 1
      /\ Cardinality(cache) \in Nat
  BY FS_RemoveElement, FS_CardinalityType DEF Shape, AtMost
<1>3. /\ IsFiniteSet(others \cup {new})
      /\ Cardinality(others \cup {new}) \in {Cardinality(others), Cardinality(others) + 1}
  BY <1>2, FS_AddElement
<1>4. AtMost(others \cup {new})
  BY <1>2, <1>3, CacheAssumption DEF Shape, AtMost
<1>5. OnePlace(others \cup {new})
  BY <1>1 DEF Shape, OnePlace
<1>6. Shape(others \cup {new}, last)
  BY <1>1, <1>4, <1>5 DEF Shape, Caches
<1> QED
  BY <1>6, RefreshedOne DEF Shape, new

\* One entry per key, and one per pair of key and text.
OnePerKey(cache) == \A e, f \in cache : e.key = f.key => e = f

OnePerPair(cache) == \A e, f \in cache : e.key = f.key /\ e.text = f.text => e = f

-----------------------------------------------------------------------------
(***************************************************************************)
(* The two Store methods, for a text that is not empty.                    *)
(***************************************************************************)
\* What the stores leave: entries they found unexpired, and the one they
\* stored, which has the place of the entry it refreshes or a new one.
LEMMA AppendedHasNew ==
    ASSUME NEW cache, NEW last \in Nat, Shape(cache, last),
           NEW k \in Keys, NEW t \in Texts, NEW at \in Nat
    PROVE  Entry(k, t, at, last + 1) \in Appended(cache, k, t, at, last + 1)
<1> DEFINE new == Entry(k, t, at, last + 1)
           all == cache \cup {new}
<1>1. new.place = last + 1
  BY DEF Entry
<1>2. {f \in all : f.place > new.place} = {}
  BY <1>1 DEF Shape, Caches, Entries
<1>3. Cardinality({f \in all : f.place > new.place}) < MaxEntries
  <2>1. Cardinality({f \in all : f.place > new.place}) = 0
    BY <1>2, FS_EmptySet, Zenon
  <2> QED
    BY <2>1, CacheAssumption
<1>4. new \in Newest(all)
  BY <1>3 DEF Newest
<1> QED
  BY <1>4 DEF Appended, Entry

\* What is stored now has not expired.
LEMMA NowIsUnexpired ==
    ASSUME NEW cache, NEW k, NEW t, NEW at \in Nat, NEW place,
           Entry(k, t, at, place) \in cache
    PROVE  Entry(k, t, at, place) \in Unexpired(cache, at)
<1>1. at - Entry(k, t, at, place).createdAt = 0
  BY DEF Entry
<1> QED
  BY <1>1, CacheAssumption DEF Unexpired

\* AcceptanceCache.Store: the text is found under its key, all else was there
\* before, and what has lost its place has a limit's worth of entries behind it.
LEMMA StoreAcceptedKeeps ==
    ASSUME NEW cache, NEW last \in Nat, Shape(cache, last), OnePerKey(cache),
           NEW k \in Keys, NEW t \in Texts, NEW at \in Nat
    PROVE  LET after == StoreAccepted(cache, k, t, at, last + 1) IN
           /\ Shape(after, last + 1) /\ OnePerKey(after)
           /\ \E e \in Unexpired(after, at) : e.key = k /\ e.text = t
           /\ \A e \in after : e \in Unexpired(cache, at) \/ (e.key = k /\ e.text = t)
           /\ \A e \in Unexpired(cache, at) :
                 \/ \E f \in after : f.place = e.place
                 \/ Cardinality(Later(after, e)) >= MaxEntries
<1> DEFINE kept  == Unexpired(cache, at)
           after == StoreAccepted(cache, k, t, at, last + 1)
<1>1. Shape(kept, last) /\ OnePerKey(kept) /\ cache \in Caches /\ kept \in Caches
  <2>1. kept \subseteq cache
    BY UnexpiredSubset
  <2> QED
    BY <2>1, SubsetShape DEF OnePerKey, Shape
<1>2. ASSUME NEW f \in kept, f.key = k, after = Refreshed(kept, {f}, t, at)
      PROVE  /\ Shape(after, last + 1) /\ OnePerKey(after)
             /\ \E e \in Unexpired(after, at) : e.key = k /\ e.text = t
             /\ \A e \in after : e \in kept \/ (e.key = k /\ e.text = t)
             /\ \A e \in kept : \E g \in after : g.place = e.place
  <2> DEFINE new == Entry(k, t, at, f.place)
  <2>1. /\ after = (kept \ {f}) \cup {new}
        /\ new.key = k /\ new.text = t /\ new.place = f.place
    BY <1>1, <1>2, RefreshedOne DEF Entry
  <2> HIDE DEF kept, after
  <2>2. Shape(after, last)
    BY <1>1, <1>2, RefreshedShape
  <2>3. Shape(after, last + 1)
    BY <2>2 DEF Shape, Caches, Entries
  <2>4. new \in Unexpired(after, at)
    BY <2>1, NowIsUnexpired
  <2> HIDE DEF new
  <2>5. OnePerKey(after)
    BY <1>1, <1>2, <2>1 DEF OnePerKey
  <2>6. \E e \in Unexpired(after, at) : e.key = k /\ e.text = t
    BY <2>1, <2>4
  <2>7. \A e \in after : e \in kept \/ (e.key = k /\ e.text = t)
    BY <2>1
  <2>8. \A e \in kept : \E g \in after : g.place = e.place
    BY <2>1
  <2> QED
    BY <2>3, <2>5, <2>6, <2>7, <2>8
<1>3. ASSUME \A f \in kept : f.key # k,
             after = Appended(kept, k, t, at, last + 1)
      PROVE  /\ Shape(after, last + 1) /\ OnePerKey(after)
             /\ \E e \in Unexpired(after, at) : e.key = k /\ e.text = t
             /\ \A e \in after : e \in kept \/ (e.key = k /\ e.text = t)
             /\ \A e \in kept :
                   \/ e \in after
                   \/ Cardinality(Later(after, e)) >= MaxEntries
  <2> DEFINE new == Entry(k, t, at, last + 1)
             all == kept \cup {new}
  <2>1. after = Newest(all) /\ new.key = k /\ new.text = t /\ new.place = last + 1
    BY <1>3 DEF Appended, Entry
  <2>2. new \in Entries
    BY DEF Entry, Entries
  <2> HIDE DEF kept, after
  <2>3. Shape(after, last + 1)
    BY <1>1, <1>3, AppendedShape
  <2>4. new \in after /\ new \in Unexpired(after, at)
    BY <1>1, <1>3, AppendedHasNew, NowIsUnexpired
  <2> HIDE DEF new
  <2>5. after \subseteq all
    BY <2>1 DEF Newest
  <2>6. OnePerKey(after)
    BY <1>1, <1>3, <2>1, <2>5 DEF OnePerKey
  <2>7. /\ all \in Caches /\ IsFiniteSet(all)
        /\ \A f \in all : f.place <= last + 1
    BY <1>1, <2>1, <2>2, FS_AddElement DEF Shape, AtMost, Caches, Entries
  <2>8. \A e \in all : e \notin after => Cardinality(Later(after, e)) >= MaxEntries
    BY <2>1, <2>7, DroppedIsDue
  <2>9. \E e \in Unexpired(after, at) : e.key = k /\ e.text = t
    BY <2>1, <2>4
  <2>10. \A e \in after : e \in kept \/ (e.key = k /\ e.text = t)
    BY <2>1, <2>5
  <2> QED
    BY <2>3, <2>6, <2>8, <2>9, <2>10
<1>4. \/ \E f \in kept : f.key = k /\ after = Refreshed(kept, {f}, t, at)
      \/ /\ \A f \in kept : f.key # k
         /\ after = Appended(kept, k, t, at, last + 1)
  <2> DEFINE match == {f \in kept : f.key = k}
  <2>1. t # NoText
    BY CacheAssumption
  <2>2. CASE match = {}
    BY <2>1, <2>2 DEF StoreAccepted
  <2>3. CASE match # {}
    <3>1. PICK f \in match : TRUE
      BY <2>3
    <3>2. match = {f}
      BY <1>1, <3>1 DEF OnePerKey
    <3>3. after = Refreshed(kept, match, t, at)
      BY <2>1, <2>3 DEF StoreAccepted
    <3> QED
      BY <3>1, <3>2, <3>3
  <2> QED
    BY <2>2, <2>3
<1> HIDE DEF kept, after
<1>5. /\ Shape(after, last + 1) /\ OnePerKey(after)
      /\ \E e \in Unexpired(after, at) : e.key = k /\ e.text = t
      /\ \A e \in after : e \in kept \/ (e.key = k /\ e.text = t)
      /\ \A e \in kept :
            \/ \E f \in after : f.place = e.place
            \/ Cardinality(Later(after, e)) >= MaxEntries
  BY <1>2, <1>3, <1>4
<1> QED
  BY <1>5 DEF kept, after

\* DismissalCache.Store: likewise, by pairs.
LEMMA StoreDismissedKeeps ==
    ASSUME NEW cache, NEW last \in Nat, Shape(cache, last), OnePerPair(cache),
           NEW k \in Keys, NEW t \in Texts, NEW at \in Nat
    PROVE  LET after == StoreDismissed(cache, k, t, at, last + 1) IN
           /\ Shape(after, last + 1) /\ OnePerPair(after)
           /\ \E e \in Unexpired(after, at) : e.key = k /\ e.text = t
           /\ \A e \in after : e \in Unexpired(cache, at) \/ (e.key = k /\ e.text = t)
           /\ \A e \in Unexpired(cache, at) :
                 \/ \E f \in after : f.place = e.place
                 \/ Cardinality(Later(after, e)) >= MaxEntries
<1> DEFINE kept  == Unexpired(cache, at)
           after == StoreDismissed(cache, k, t, at, last + 1)
<1>1. Shape(kept, last) /\ OnePerPair(kept) /\ cache \in Caches /\ kept \in Caches
  <2>1. kept \subseteq cache
    BY UnexpiredSubset
  <2> QED
    BY <2>1, SubsetShape DEF OnePerPair, Shape
<1>2. ASSUME NEW f \in kept, f.key = k, f.text = t, after = Refreshed(kept, {f}, t, at)
      PROVE  /\ Shape(after, last + 1) /\ OnePerPair(after)
             /\ \E e \in Unexpired(after, at) : e.key = k /\ e.text = t
             /\ \A e \in after : e \in kept \/ (e.key = k /\ e.text = t)
             /\ \A e \in kept : \E g \in after : g.place = e.place
  <2> DEFINE new == Entry(k, t, at, f.place)
  <2>1. /\ after = (kept \ {f}) \cup {new}
        /\ new.key = k /\ new.text = t /\ new.place = f.place
    BY <1>1, <1>2, RefreshedOne DEF Entry
  <2> HIDE DEF kept, after
  <2>2. Shape(after, last)
    BY <1>1, <1>2, RefreshedShape
  <2>3. Shape(after, last + 1)
    BY <2>2 DEF Shape, Caches, Entries
  <2>4. new \in Unexpired(after, at)
    BY <2>1, NowIsUnexpired
  <2> HIDE DEF new
  <2>5. OnePerPair(after)
    <3>1. \A e \in kept \ {f} : ~(e.key = k /\ e.text = t)
      BY <1>1, <1>2 DEF OnePerPair
    <3> QED
      BY <1>1, <2>1, <3>1 DEF OnePerPair
  <2>6. \E e \in Unexpired(after, at) : e.key = k /\ e.text = t
    BY <2>1, <2>4
  <2>7. \A e \in after : e \in kept \/ (e.key = k /\ e.text = t)
    BY <2>1
  <2>8. \A e \in kept : \E g \in after : g.place = e.place
    BY <2>1
  <2> QED
    BY <2>3, <2>5, <2>6, <2>7, <2>8
<1>3. ASSUME \A f \in kept : ~(f.key = k /\ f.text = t),
             after = Appended(kept, k, t, at, last + 1)
      PROVE  /\ Shape(after, last + 1) /\ OnePerPair(after)
             /\ \E e \in Unexpired(after, at) : e.key = k /\ e.text = t
             /\ \A e \in after : e \in kept \/ (e.key = k /\ e.text = t)
             /\ \A e \in kept :
                   \/ e \in after
                   \/ Cardinality(Later(after, e)) >= MaxEntries
  <2> DEFINE new == Entry(k, t, at, last + 1)
             all == kept \cup {new}
  <2>1. after = Newest(all) /\ new.key = k /\ new.text = t /\ new.place = last + 1
    BY <1>3 DEF Appended, Entry
  <2>2. new \in Entries
    BY DEF Entry, Entries
  <2> HIDE DEF kept, after
  <2>3. Shape(after, last + 1)
    BY <1>1, <1>3, AppendedShape
  <2>4. new \in after /\ new \in Unexpired(after, at)
    BY <1>1, <1>3, AppendedHasNew, NowIsUnexpired
  <2> HIDE DEF new
  <2>5. after \subseteq all
    BY <2>1 DEF Newest
  <2>6. OnePerPair(after)
    BY <1>1, <1>3, <2>1, <2>5 DEF OnePerPair
  <2>7. /\ all \in Caches /\ IsFiniteSet(all)
        /\ \A f \in all : f.place <= last + 1
    BY <1>1, <2>1, <2>2, FS_AddElement DEF Shape, AtMost, Caches, Entries
  <2>8. \A e \in all : e \notin after => Cardinality(Later(after, e)) >= MaxEntries
    BY <2>1, <2>7, DroppedIsDue
  <2>9. \E e \in Unexpired(after, at) : e.key = k /\ e.text = t
    BY <2>1, <2>4
  <2>10. \A e \in after : e \in kept \/ (e.key = k /\ e.text = t)
    BY <2>1, <2>5
  <2> QED
    BY <2>3, <2>6, <2>8, <2>9, <2>10
<1>4. \/ \E f \in kept : f.key = k /\ f.text = t /\ after = Refreshed(kept, {f}, t, at)
      \/ /\ \A f \in kept : ~(f.key = k /\ f.text = t)
         /\ after = Appended(kept, k, t, at, last + 1)
  <2> DEFINE match == {f \in kept : f.key = k /\ f.text = t}
  <2>1. t # NoText
    BY CacheAssumption
  <2>2. CASE match = {}
    BY <2>1, <2>2 DEF StoreDismissed
  <2>3. CASE match # {}
    <3>1. PICK f \in match : TRUE
      BY <2>3
    <3>2. match = {f}
      BY <1>1, <3>1 DEF OnePerPair
    <3>3. after = Refreshed(kept, match, t, at)
      BY <2>1, <2>3 DEF StoreDismissed
    <3> QED
      BY <3>1, <3>2, <3>3
  <2> QED
    BY <2>2, <2>3
<1> HIDE DEF kept, after
<1>5. /\ Shape(after, last + 1) /\ OnePerPair(after)
      /\ \E e \in Unexpired(after, at) : e.key = k /\ e.text = t
      /\ \A e \in after : e \in kept \/ (e.key = k /\ e.text = t)
      /\ \A e \in kept :
            \/ \E f \in after : f.place = e.place
            \/ Cardinality(Later(after, e)) >= MaxEntries
  BY <1>2, <1>3, <1>4
<1> QED
  BY <1>5 DEF kept, after

-----------------------------------------------------------------------------
(***************************************************************************)
(* The inductive invariant.  A place is never used twice because it is the *)
(* number of the call that appended it, so no place exceeds calls.         *)
(***************************************************************************)
CacheInv ==
    /\ now \in 0 .. MaxNow
    /\ calls \in 0 .. MaxCalls
    /\ Shape(accepted, calls)
    /\ Shape(dismissed, calls)
    /\ OnePerKey(accepted)
    /\ OnePerPair(dismissed)

\* Reading a cache drops entries and leaves what remains in shape.
LEMMA ReadKeeps ==
    ASSUME NEW cache, NEW last, Shape(cache, last), NEW at
    PROVE  /\ Shape(Unexpired(cache, at), last)
           /\ OnePerKey(cache) => OnePerKey(Unexpired(cache, at))
           /\ OnePerPair(cache) => OnePerPair(Unexpired(cache, at))
<1>1. Unexpired(cache, at) \subseteq cache
  BY UnexpiredSubset
<1> QED
  BY <1>1, SubsetShape DEF OnePerKey, OnePerPair

\* A greater bound of the places is one too.
LEMMA ShapeLater ==
    ASSUME NEW cache, NEW last \in Nat, Shape(cache, last)
    PROVE  Shape(cache, last + 1)
BY DEF Shape, Caches, Entries

\* Both caches start empty.
LEMMA InitInv == Init => CacheInv
<1> SUFFICES ASSUME Init PROVE CacheInv
  OBVIOUS
<1>1. Shape({}, 0)
  BY FS_EmptySet, CacheAssumption DEF Shape, AtMost, OnePlace, Caches
<1> QED
  BY <1>1, BoundAssumption DEF Init, CacheInv, OnePerKey, OnePerPair

\* Every call of either cache, and time, keep the invariant.
LEMMA StepInv == CacheInv /\ [Next]_vars => CacheInv'
<1> SUFFICES ASSUME CacheInv, [Next]_vars PROVE CacheInv'
  OBVIOUS
<1>1. now \in Nat /\ calls \in Nat /\ MaxNow \in Nat /\ MaxCalls \in Nat
  BY BoundAssumption DEF CacheInv
<1>2. ASSUME NEW k \in Keys, LookUp(k) PROVE CacheInv'
  BY <1>2, ReadKeeps DEF LookUp, CacheInv
<1>3. ASSUME NEW k \in Keys, NEW t \in Texts \cup {NoText}, Accept(k, t)
      PROVE  CacheInv'
  <2>1. calls' \in 0 .. MaxCalls /\ calls' = calls + 1
    BY <1>1, <1>3 DEF Accept
  <2>2. Shape(dismissed, calls + 1)
    BY <1>1, ShapeLater DEF CacheInv
  <2>3. Shape(StoreAccepted(accepted, k, t, now, calls + 1), calls + 1)
        /\ OnePerKey(StoreAccepted(accepted, k, t, now, calls + 1))
    <3>1. CASE t = NoText
      BY <1>1, <3>1, ShapeLater DEF CacheInv, StoreAccepted
    <3>2. CASE t \in Texts
      BY <1>1, <3>2, StoreAcceptedKeeps DEF CacheInv
    <3> QED
      BY <3>1, <3>2
  <2> QED
    BY <1>3, <2>1, <2>2, <2>3 DEF Accept, CacheInv
<1>4. ASSUME NEW k \in Keys, NEW t \in Texts \cup {NoText}, Dismiss(k, t)
      PROVE  CacheInv'
  <2>1. calls' \in 0 .. MaxCalls /\ calls' = calls + 1
    BY <1>1, <1>4 DEF Dismiss
  <2>2. Shape(accepted, calls + 1)
    BY <1>1, ShapeLater DEF CacheInv
  <2>3. Shape(StoreDismissed(dismissed, k, t, now, calls + 1), calls + 1)
        /\ OnePerPair(StoreDismissed(dismissed, k, t, now, calls + 1))
    <3>1. CASE t = NoText
      BY <1>1, <3>1, ShapeLater DEF CacheInv, StoreDismissed
    <3>2. CASE t \in Texts
      BY <1>1, <3>2, StoreDismissedKeeps DEF CacheInv
    <3> QED
      BY <3>1, <3>2
  <2> QED
    BY <1>4, <2>1, <2>2, <2>3 DEF Dismiss, CacheInv
<1>5. ASSUME NEW k \in Keys, NEW t \in Texts \cup {NoText}, CheckDismissed(k, t)
      PROVE  CacheInv'
  BY <1>5, ReadKeeps DEF CheckDismissed, CacheInv
<1>6. CASE Tick
  BY <1>1, <1>6 DEF Tick, CacheInv
<1>7. CASE UNCHANGED vars
  BY <1>7 DEF vars, CacheInv
<1> QED
  BY <1>2, <1>3, <1>4, <1>5, <1>6, <1>7 DEF Next

\* The invariant holds whatever the calls and however long.
THEOREM CacheInvariant == Spec => []CacheInv
BY InitInv, StepInv, PTL DEF Spec

\* The caches and the clock keep their types.
THEOREM CacheTypeCorrect == Spec => []TypeOK
<1>1. CacheInv => TypeOK
  BY DEF CacheInv, TypeOK, Shape
<1> QED
  BY <1>1, CacheInvariant, PTL

\* Both caches stay within their limit, with one entry per key or pair.
THEOREM CacheShapeAlways == Spec => []CacheShape
<1>1. CacheInv => CacheShape
  BY DEF CacheInv, CacheShape, Shape, OneMatch, OnePerKey, OnePerPair
<1> QED
  BY <1>1, CacheInvariant, PTL

-----------------------------------------------------------------------------
(***************************************************************************)
(* An entry goes only when it is due.                                      *)
(***************************************************************************)
\* What a read drops outlived TTL.
LEMMA ReadDropsDue ==
    ASSUME NEW cache \in Caches, NEW at \in Nat,
           NEW e \in cache, e \notin Unexpired(cache, at)
    PROVE  at - e.createdAt > TTL
BY CacheAssumption DEF Unexpired, Caches, Entries

\* An entry that is still there is not gone.
LEMMA StaysPut ==
    ASSUME NEW cache, NEW e \in cache
    PROVE  ~Gone(e, cache)
BY DEF Gone

\* What a Store drops is due: the accepted entries.
LEMMA StoreAcceptedDropsDue ==
    ASSUME CacheInv, NEW k \in Keys, NEW t \in Texts \cup {NoText}, NEW e \in accepted,
           Gone(e, StoreAccepted(accepted, k, t, now, calls + 1))
    PROVE  Due(e, StoreAccepted(accepted, k, t, now, calls + 1))
<1> DEFINE after == StoreAccepted(accepted, k, t, now, calls + 1)
<1>1. now \in Nat /\ calls \in Nat /\ accepted \in Caches
  BY DEF CacheInv, Shape
<1>2. CASE t = NoText
  BY <1>2 DEF StoreAccepted, Gone
<1>3. CASE t \in Texts /\ e \notin Unexpired(accepted, now)
  BY <1>1, <1>3, ReadDropsDue DEF Due
<1>4. CASE t \in Texts /\ e \in Unexpired(accepted, now)
  <2>1. \/ \E f \in after : f.place = e.place
        \/ Cardinality(Later(after, e)) >= MaxEntries
    BY <1>1, <1>4, StoreAcceptedKeeps DEF CacheInv
  <2> QED
    BY <2>1 DEF Gone, Due, Later
<1> QED
  BY <1>2, <1>3, <1>4

\* The dismissed entries likewise.
LEMMA StoreDismissedDropsDue ==
    ASSUME CacheInv, NEW k \in Keys, NEW t \in Texts \cup {NoText}, NEW e \in dismissed,
           Gone(e, StoreDismissed(dismissed, k, t, now, calls + 1))
    PROVE  Due(e, StoreDismissed(dismissed, k, t, now, calls + 1))
<1> DEFINE after == StoreDismissed(dismissed, k, t, now, calls + 1)
<1>1. now \in Nat /\ calls \in Nat /\ dismissed \in Caches
  BY DEF CacheInv, Shape
<1>2. CASE t = NoText
  BY <1>2 DEF StoreDismissed, Gone
<1>3. CASE t \in Texts /\ e \notin Unexpired(dismissed, now)
  BY <1>1, <1>3, ReadDropsDue DEF Due
<1>4. CASE t \in Texts /\ e \in Unexpired(dismissed, now)
  <2>1. \/ \E f \in after : f.place = e.place
        \/ Cardinality(Later(after, e)) >= MaxEntries
    BY <1>1, <1>4, StoreDismissedKeeps DEF CacheInv
  <2> QED
    BY <2>1 DEF Gone, Due, Later
<1> QED
  BY <1>2, <1>3, <1>4

\* Whatever the step, an entry that goes is due.
LEMMA StepDue ==
    CacheInv /\ Next =>
       /\ \A e \in accepted : Gone(e, accepted') => Due(e, accepted')
       /\ \A e \in dismissed : Gone(e, dismissed') => Due(e, dismissed')
<1> SUFFICES ASSUME CacheInv, Next
             PROVE  /\ \A e \in accepted : Gone(e, accepted') => Due(e, accepted')
                    /\ \A e \in dismissed : Gone(e, dismissed') => Due(e, dismissed')
  OBVIOUS
<1>1. now \in Nat /\ accepted \in Caches /\ dismissed \in Caches
  BY DEF CacheInv, Shape
<1>2. ASSUME accepted' = Unexpired(accepted, now), NEW e \in accepted, Gone(e, accepted')
      PROVE  Due(e, accepted')
  BY <1>1, <1>2, ReadDropsDue, StaysPut DEF Due
<1>3. ASSUME dismissed' = Unexpired(dismissed, now), NEW e \in dismissed, Gone(e, dismissed')
      PROVE  Due(e, dismissed')
  BY <1>1, <1>3, ReadDropsDue, StaysPut DEF Due
<1>4. CASE \E k \in Keys : LookUp(k)
  BY <1>2, <1>4, StaysPut DEF LookUp
<1>5. CASE \E k \in Keys, t \in Texts \cup {NoText} : Accept(k, t)
  BY <1>5, StoreAcceptedDropsDue, StaysPut DEF Accept
<1>6. CASE \E k \in Keys, t \in Texts \cup {NoText} : Dismiss(k, t)
  BY <1>6, StoreDismissedDropsDue, StaysPut DEF Dismiss
<1>7. CASE \E k \in Keys, t \in Texts \cup {NoText} : CheckDismissed(k, t)
  BY <1>3, <1>7, StaysPut DEF CheckDismissed
<1>8. CASE Tick
  BY <1>8, StaysPut DEF Tick
<1> QED
  BY <1>4, <1>5, <1>6, <1>7, <1>8 DEF Next

\* No text is forgotten while it is young and few entries came after it.
THEOREM ForgetsOnlyWhenDueAlways == Spec => ForgetsOnlyWhenDue
BY CacheInvariant, StepDue, PTL DEF Spec, ForgetsOnlyWhenDue

-----------------------------------------------------------------------------
(***************************************************************************)
(* The caches implement the memory.                                        *)
(***************************************************************************)
\* Lookup returns the text of the only unexpired entry of the key.
LEMMA LookupFinds ==
    ASSUME NEW cache \in Caches, OnePerKey(cache), NEW k, NEW at,
           NEW e \in Unexpired(cache, at), e.key = k
    PROVE  Lookup(cache, k, at) = e.text
<1>1. e \in cache /\ e.place <= e.place
  BY UnexpiredSubset DEF Caches, Entries
<1>2. \A f \in Unexpired(cache, at) : f.key = k => f = e
  BY <1>1, UnexpiredSubset DEF OnePerKey
<1>3. Hits(cache, k, at) = {e}
  BY <1>1, <1>2 DEF Hits
<1> QED
  BY <1>3 DEF Lookup

\* Lookup returns nothing where the key has no unexpired entry.
LEMMA LookupMisses ==
    ASSUME NEW cache, NEW k, NEW at, \A e \in Unexpired(cache, at) : e.key # k
    PROVE  Lookup(cache, k, at) = NoText
BY DEF Lookup, Hits

\* Where every unexpired entry of a key was there before, a lookup of the key
\* answers as before or not at all.
LEMMA LookupForgets ==
    ASSUME NEW before \in Caches, OnePerKey(before), NEW at,
           NEW after \in Caches, OnePerKey(after), NEW later, NEW k,
           \A e \in Unexpired(after, later) : e.key = k => e \in Unexpired(before, at)
    PROVE  Lookup(after, k, later) \in {Lookup(before, k, at), NoText}
<1>1. CASE \E e \in Unexpired(after, later) : e.key = k
  <2>1. PICK e \in Unexpired(after, later) : e.key = k
    BY <1>1
  <2>2. Lookup(after, k, later) = e.text /\ Lookup(before, k, at) = e.text
    BY <2>1, LookupFinds
  <2> QED
    BY <2>2
<1>2. CASE \A e \in Unexpired(after, later) : e.key # k
  BY <1>2, LookupMisses
<1> QED
  BY <1>1, <1>2

\* Lookup returns a text or nothing.
LEMMA LookupYields ==
    ASSUME NEW cache \in Caches, OnePerKey(cache), NEW k, NEW at
    PROVE  Lookup(cache, k, at) \in Texts \cup {NoText}
<1>1. ASSUME NEW e \in Unexpired(cache, at), e.key = k
      PROVE  Lookup(cache, k, at) \in Texts \cup {NoText}
  <2>1. e.text \in Texts
    BY UnexpiredSubset DEF Caches, Entries
  <2> QED
    BY <1>1, <2>1, LookupFinds
<1>2. CASE \A e \in Unexpired(cache, at) : e.key # k
  BY <1>2, LookupMisses
<1> QED
  BY <1>1, <1>2

\* The memory's two variables, as the refinement mapping gives them.
Known == [k \in Keys |-> Lookup(accepted, k, now)]

Refused == {p \in Keys \X Texts : IsDismissed(dismissed, p[1], p[2], now)}

\* Accept with a text is the memory's Accept.
LEMMA AcceptMaps ==
    ASSUME CacheInv, CacheInv', NEW k \in Keys, NEW t \in Texts, Accept(k, t)
    PROVE  /\ Known' \in [Keys -> Texts \cup {NoText}]
           /\ Known'[k] = t
           /\ \A q \in Keys \ {k} : Known'[q] \in {Known[q], NoText}
           /\ Refused' = Refused
<1>1. /\ now' = now /\ dismissed' = dismissed
      /\ accepted' = StoreAccepted(accepted, k, t, now, calls + 1)
  BY DEF Accept
<1>2. /\ now \in Nat /\ calls \in Nat /\ accepted \in Caches /\ accepted' \in Caches
      /\ OnePerKey(accepted) /\ OnePerKey(accepted') /\ Shape(accepted, calls)
  BY DEF CacheInv, Shape
<1>3. /\ \E e \in Unexpired(accepted', now) : e.key = k /\ e.text = t
      /\ \A e \in accepted' : e \in Unexpired(accepted, now) \/ (e.key = k /\ e.text = t)
  BY <1>1, <1>2, StoreAcceptedKeeps
<1>4. Lookup(accepted', k, now) = t
  BY <1>2, <1>3, LookupFinds
<1>5. ASSUME NEW q \in Keys \ {k}
      PROVE  Lookup(accepted', q, now) \in {Lookup(accepted, q, now), NoText}
  <2>1. \A e \in Unexpired(accepted', now) : e.key = q => e \in Unexpired(accepted, now)
    BY <1>3, UnexpiredSubset
  <2> QED
    BY <1>2, <2>1, LookupForgets
<1>6. Known' = [q \in Keys |-> Lookup(accepted', q, now)] /\ Refused' = Refused
  BY <1>1 DEF Known, Refused
<1>7. \A q \in Keys : Lookup(accepted', q, now) \in Texts \cup {NoText}
  BY <1>2, LookupYields
<1> QED
  BY <1>4, <1>5, <1>6, <1>7 DEF Known

\* Dismiss with a text is the memory's Dismiss.
LEMMA DismissMaps ==
    ASSUME CacheInv, NEW k \in Keys, NEW t \in Texts, Dismiss(k, t)
    PROVE  /\ <<k, t>> \in Refused'
           /\ Refused' \subseteq Refused \cup {<<k, t>>}
           /\ Known' = Known
<1>1. /\ now' = now /\ accepted' = accepted
      /\ dismissed' = StoreDismissed(dismissed, k, t, now, calls + 1)
  BY DEF Dismiss
<1>2. /\ now \in Nat /\ calls \in Nat
      /\ OnePerPair(dismissed) /\ Shape(dismissed, calls)
  BY DEF CacheInv
<1>3. /\ \E e \in Unexpired(dismissed', now) : e.key = k /\ e.text = t
      /\ \A e \in dismissed' : e \in Unexpired(dismissed, now) \/ (e.key = k /\ e.text = t)
  BY <1>1, <1>2, StoreDismissedKeeps
<1>4. Refused' = {p \in Keys \X Texts : IsDismissed(dismissed', p[1], p[2], now)}
  BY <1>1 DEF Refused
<1>5. <<k, t>> \in Refused'
  BY <1>3, <1>4 DEF IsDismissed
<1>6. ASSUME NEW p \in Refused', p \notin Refused PROVE p = <<k, t>>
  <2>1. PICK e \in Unexpired(dismissed', now) : e.key = p[1] /\ e.text = p[2]
    BY <1>4 DEF IsDismissed
  <2>2. p \in Keys \X Texts /\ e \notin Unexpired(dismissed, now)
    BY <1>4, <1>6, <2>1 DEF Refused, IsDismissed
  <2>3. e.key = k /\ e.text = t
    BY <1>3, <2>2, UnexpiredSubset
  <2>4. p = <<p[1], p[2]>>
    BY <2>2
  <2> QED
    BY <2>1, <2>3, <2>4
<1>7. Known' = Known
  BY <1>1 DEF Known
<1> QED
  BY <1>5, <1>6, <1>7

\* Time only forgets.
LEMMA TickMaps ==
    ASSUME CacheInv, Tick
    PROVE  /\ \A k \in Keys : Known'[k] \in {Known[k], NoText}
           /\ Refused' \subseteq Refused
           /\ Known' \in [Keys -> Texts \cup {NoText}]
<1>1. now' = now + 1 /\ accepted' = accepted /\ dismissed' = dismissed
  BY DEF Tick
<1>2. now \in Nat /\ accepted \in Caches /\ dismissed \in Caches /\ OnePerKey(accepted)
  BY DEF CacheInv, Shape
<1>3. /\ Unexpired(accepted, now + 1) \subseteq Unexpired(accepted, now)
      /\ Unexpired(dismissed, now + 1) \subseteq Unexpired(dismissed, now)
  BY <1>2, UnexpiredShrinks
<1>4. \A k \in Keys :
         Lookup(accepted, k, now + 1) \in {Lookup(accepted, k, now), NoText}
  BY <1>2, <1>3, LookupForgets
<1>5. \A k \in Keys : Lookup(accepted, k, now + 1) \in Texts \cup {NoText}
  BY <1>2, LookupYields
<1>6. Known' = [k \in Keys |-> Lookup(accepted, k, now + 1)]
  BY <1>1 DEF Known
<1>7. Refused' = {p \in Keys \X Texts : IsDismissed(dismissed, p[1], p[2], now + 1)}
  BY <1>1 DEF Refused
<1> QED
  BY <1>3, <1>4, <1>5, <1>6, <1>7 DEF Known, Refused, IsDismissed

\* A read is no step of the memory.
LEMMA ReadMaps ==
    ASSUME \/ \E k \in Keys : LookUp(k)
           \/ \E k \in Keys, t \in Texts \cup {NoText} : CheckDismissed(k, t)
    PROVE  Known' = Known /\ Refused' = Refused
<1>1. now' = now
  BY DEF LookUp, CheckDismissed
<1>2. Unexpired(accepted', now) = Unexpired(accepted, now)
  BY UnexpiredTwice DEF LookUp, CheckDismissed
<1>3. Unexpired(dismissed', now) = Unexpired(dismissed, now)
  BY UnexpiredTwice DEF LookUp, CheckDismissed
<1>4. \A k \in Keys : Lookup(accepted', k, now) = Lookup(accepted, k, now)
  BY <1>2 DEF Lookup, Hits
<1>5. \A k \in Keys, t \in Texts :
         IsDismissed(dismissed', k, t, now) = IsDismissed(dismissed, k, t, now)
  BY <1>3 DEF IsDismissed
<1>6. Known' = Known
  BY <1>1, <1>4 DEF Known
<1>7. Refused' = Refused
  BY <1>1, <1>5 DEF Refused
<1> QED
  BY <1>6, <1>7

\* Storing the empty text changes nothing.
LEMMA EmptyMaps ==
    ASSUME NEW k \in Keys, Accept(k, NoText) \/ Dismiss(k, NoText)
    PROVE  Known' = Known /\ Refused' = Refused
<1>1. now' = now /\ accepted' = accepted /\ dismissed' = dismissed
  BY DEF Accept, Dismiss, StoreAccepted, StoreDismissed
<1> QED
  BY <1>1 DEF Known, Refused

\* Empty caches are an empty memory.
LEMMA MemoryInit == Init => Memory!Init
<1> SUFFICES ASSUME Init PROVE Known = [k \in Keys |-> NoText] /\ Refused = {}
  BY DEF Memory!Init, Known, Refused
<1>1. Unexpired({}, now) = {}
  BY DEF Unexpired
<1>2. \A k \in Keys : Lookup({}, k, now) = NoText
  BY <1>1, LookupMisses
<1>3. Known = [k \in Keys |-> NoText]
  BY <1>2 DEF Init, Known
<1>4. Refused = {}
  BY <1>1 DEF Init, Refused, IsDismissed
<1> QED
  BY <1>3, <1>4

\* Every step of the caches is one of the memory, or none.
LEMMA MemoryStep ==
    CacheInv /\ CacheInv' /\ [Next]_vars => [Memory!Next]_(Memory!vars)
<1> SUFFICES ASSUME CacheInv, CacheInv', [Next]_vars
             PROVE  Memory!Next \/ (Known' = Known /\ Refused' = Refused)
  BY DEF Memory!vars, Known, Refused
<1>1. ASSUME NEW k \in Keys, NEW t \in Texts, Accept(k, t) PROVE Memory!Next
  <2>1. Memory!Accept(k, t)
    BY <1>1, AcceptMaps DEF Memory!Accept, Memory!OnlyForgets, Known, Refused
  <2> QED
    BY <2>1 DEF Memory!Next
<1>2. ASSUME NEW k \in Keys, NEW t \in Texts, Dismiss(k, t) PROVE Memory!Next
  <2>1. Memory!Dismiss(k, t)
    BY <1>2, DismissMaps DEF Memory!Dismiss, Known, Refused
  <2> QED
    BY <2>1 DEF Memory!Next
<1>3. CASE Tick
  <2>1. Memory!Forget
    BY <1>3, TickMaps DEF Memory!Forget, Memory!OnlyForgets, Known, Refused
  <2> QED
    BY <2>1 DEF Memory!Next
<1>4. CASE \E k \in Keys : LookUp(k)
  BY <1>4, ReadMaps
<1>5. CASE \E k \in Keys, t \in Texts \cup {NoText} : CheckDismissed(k, t)
  BY <1>5, ReadMaps
<1>6. CASE \E k \in Keys : Accept(k, NoText) \/ Dismiss(k, NoText)
  BY <1>6, EmptyMaps
<1>7. CASE UNCHANGED vars
  BY <1>7 DEF vars, Known, Refused
<1> QED
  BY <1>1, <1>2, <1>3, <1>4, <1>5, <1>6, <1>7 DEF Next

\* The caches never invent, mix up or bring back a suggestion.
THEOREM CachesImplementMemory == Spec => ImplementsMemory
BY CacheInvariant, MemoryInit, MemoryStep, PTL DEF Spec, ImplementsMemory, Memory!Spec
=============================================================================
