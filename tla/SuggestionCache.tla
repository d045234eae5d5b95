-------------------------- MODULE SuggestionCache ---------------------------
(***************************************************************************)
(* AcceptanceCache and DismissalCache as a state machine: every exported   *)
(* method is one action, atomic because it holds the cache's mutex from    *)
(* its first read to its return.  The clock moves between calls only       *)
(* (time.Now carries a monotonic reading, so it never goes back).          *)
(***************************************************************************)
EXTENDS CacheEntries

CONSTANTS
    MaxNow,    \* bound of the clock
    MaxCalls   \* bound of the calls that may append an entry

ASSUME BoundAssumption == MaxNow \in Nat /\ MaxCalls \in Nat

VARIABLES
    accepted,   \* AcceptanceCache.entries
    dismissed,  \* DismissalCache.entries
    now,        \* the clock
    calls       \* Store calls so far: the place of the next entry

vars == <<accepted, dismissed, now, calls>>

TypeOK ==
    /\ accepted \in Caches
    /\ dismissed \in Caches
    /\ now \in 0 .. MaxNow
    /\ calls \in 0 .. MaxCalls

Init ==
    /\ accepted = {}
    /\ dismissed = {}
    /\ now = 0
    /\ calls = 0

\* AcceptanceCache.Store
Accept(k, t) ==
    /\ calls < MaxCalls
    /\ calls' = calls + 1
    /\ accepted' = StoreAccepted(accepted, k, t, now, calls + 1)
    /\ UNCHANGED <<dismissed, now>>

\* AcceptanceCache.Lookup drops expired entries on its way.
LookUp(k) ==
    /\ accepted' = Unexpired(accepted, now)
    /\ UNCHANGED <<dismissed, now, calls>>

\* DismissalCache.Store
Dismiss(k, t) ==
    /\ calls < MaxCalls
    /\ calls' = calls + 1
    /\ dismissed' = StoreDismissed(dismissed, k, t, now, calls + 1)
    /\ UNCHANGED <<accepted, now>>

\* DismissalCache.IsDismissed, which returns at once for the empty text.
CheckDismissed(k, t) ==
    /\ t # NoText
    /\ dismissed' = Unexpired(dismissed, now)
    /\ UNCHANGED <<accepted, now, calls>>

Tick ==
    /\ now < MaxNow
    /\ now' = now + 1
    /\ UNCHANGED <<accepted, dismissed, calls>>

Next ==
    \/ \E k \in Keys : LookUp(k)
    \/ \E k \in Keys, t \in Texts \cup {NoText} :
          Accept(k, t) \/ Dismiss(k, t) \/ CheckDismissed(k, t)
    \/ Tick

Spec == Init /\ [][Next]_vars

-----------------------------------------------------------------------------
(***************************************************************************)
(* Refreshing in place, dropping what expired and cutting the slice keep   *)
(* both caches within their limit, with one accepted text per key and one  *)
(* entry per dismissed pair, so that a scan from the front (Store) and a   *)
(* scan from the back (Lookup) find the same entry.                        *)
(***************************************************************************)
AtMost(cache) == IsFiniteSet(cache) /\ Cardinality(cache) <= MaxEntries

OnePlace(cache) ==
    \A e, f \in cache : e.place = f.place => e = f

OneMatch ==
    /\ \A e, f \in accepted : e.key = f.key => e = f
    /\ \A e, f \in dismissed : e.key = f.key /\ e.text = f.text => e = f

CacheShape ==
    /\ AtMost(accepted) /\ AtMost(dismissed)
    /\ OnePlace(accepted) /\ OnePlace(dismissed)
    /\ OneMatch

(***************************************************************************)
(* An entry goes only when it is due: it outlived TTL, or the limit's      *)
(* worth of entries was appended behind it.  In particular a text stays    *)
(* known through any number of calls about the keys already cached.        *)
(***************************************************************************)
Gone(e, cache) == \A f \in cache : f.place # e.place

Due(e, cache) ==
    \/ now - e.createdAt > TTL
    \/ Cardinality({f \in cache : f.place > e.place}) >= MaxEntries

ForgetsOnlyWhenDue ==
    [][/\ \A e \in accepted : Gone(e, accepted') => Due(e, accepted')
       /\ \A e \in dismissed : Gone(e, dismissed') => Due(e, dismissed')]_vars

(***************************************************************************)
(* The two caches implement a memory that may forget but never invents or  *)
(* brings back a text: Lookup returns the text accepted last for that key  *)
(* or none, and IsDismissed is true only for a pair dismissed before.      *)
(***************************************************************************)
Memory ==
    INSTANCE SuggestionMemory WITH
        accepted  <- [k \in Keys |-> Lookup(accepted, k, now)],
        dismissed <- {p \in Keys \X Texts : IsDismissed(dismissed, p[1], p[2], now)}

ImplementsMemory == Memory!Spec
=============================================================================
