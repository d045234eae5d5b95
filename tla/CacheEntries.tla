---------------------------- MODULE CacheEntries ----------------------------
(***************************************************************************)
(* The entry list shared by AcceptanceCache and DismissalCache             *)
(* (inliner-core/internal/completion/cache.go), as operators on a value.   *)
(*                                                                         *)
(* The Go code keeps a slice in insertion order.  Here a cache is the set  *)
(* of its entries, each with the place it was appended at: an entry that   *)
(* is refreshed in place keeps its place, as it keeps its index in the     *)
(* slice.  A caller passes a place larger than every place it used before. *)
(***************************************************************************)
EXTENDS Naturals, FiniteSets

CONSTANTS
    Keys,        \* cacheKey: file and the text around the cursor
    Texts,       \* the suggestion texts, all non-empty
    NoText,      \* the empty string
    MaxEntries,  \* maxEntries
    TTL          \* ttl, in ticks of the caller's clock

\* resolveCacheOptions replaces a limit or a lifetime that is not positive.
ASSUME CacheAssumption ==
    /\ MaxEntries \in Nat \ {0}
    /\ TTL \in Nat \ {0}
    /\ NoText \notin Texts

Entries == [key : Keys, text : Texts, createdAt : Nat, place : Nat]

Caches == SUBSET Entries

(***************************************************************************)
(* removeExpiredLocked: every call of a cache starts by dropping what is   *)
(* older than the lifetime.  An entry exactly as old as TTL is kept.       *)
(***************************************************************************)
\* Mutant: an entry is dropped one tick early.
UnexpiredEarly(cache, now) == {e \in cache : now - e.createdAt < TTL}

Unexpired(cache, now) == {e \in cache : now - e.createdAt <= TTL}

\* Mutant: the slice bound is off by one.
NewestOffByOne(cache) ==
    {e \in cache : Cardinality({f \in cache : f.place > e.place}) <= MaxEntries}

\* entries[len(entries)-maxEntries:], the entries appended last.
Newest(cache) ==
    {e \in cache : Cardinality({f \in cache : f.place > e.place}) < MaxEntries}

Appended(cache, key, text, now, place) ==
    Newest(cache \cup
           {[key |-> key, text |-> text, createdAt |-> now, place |-> place]})

\* The loop over the slice stops at its first match and sets it anew in place.
Refreshed(cache, match, text, now) ==
    LET first == {e \in match : \A f \in match : e.place <= f.place} IN
    (cache \ first) \cup {[e EXCEPT !.text = text, !.createdAt = now] : e \in first}

(***************************************************************************)
(* AcceptanceCache.Store and Lookup: one text per key, the one accepted    *)
(* last.                                                                   *)
(***************************************************************************)
\* Mutant: the empty text is stored like any other.
StoreAcceptedEmpty(cache, key, text, now, place) ==
    Appended({e \in Unexpired(cache, now) : e.key # key}, key, text, now, place)

StoreAccepted(cache, key, text, now, place) ==
    LET kept  == Unexpired(cache, now)
        match == {e \in kept : e.key = key}
    IN  IF text = NoText THEN cache
        ELSE IF match # {} THEN Refreshed(kept, match, text, now)
        ELSE Appended(kept, key, text, now, place)

\* Mutant: the newest entry answers every key.
HitsAnyKey(cache, key, now) ==
    {e \in Unexpired(cache, now) :
        \A f \in Unexpired(cache, now) : f.place <= e.place}

\* Lookup scans from the end of the slice: the match appended last.
Hits(cache, key, now) ==
    {e \in Unexpired(cache, now) :
        /\ e.key = key
        /\ \A f \in Unexpired(cache, now) : f.key = key => f.place <= e.place}

Lookup(cache, key, now) ==
    IF Hits(cache, key, now) = {}
    THEN NoText
    ELSE (CHOOSE e \in Hits(cache, key, now) : TRUE).text

(***************************************************************************)
(* DismissalCache.Store and IsDismissed: a key may have many texts.        *)
(***************************************************************************)
StoreDismissed(cache, key, text, now, place) ==
    LET kept  == Unexpired(cache, now)
        match == {e \in kept : e.key = key /\ e.text = text}
    IN  IF text = NoText THEN cache
        ELSE IF match # {} THEN Refreshed(kept, match, text, now)
        ELSE Appended(kept, key, text, now, place)

IsDismissed(cache, key, text, now) ==
    \E e \in Unexpired(cache, now) : e.key = key /\ e.text = text
=============================================================================
