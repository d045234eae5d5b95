--------------------------- MODULE SessionProofs ----------------------------
(***************************************************************************)
(* The safety properties of Session, proved for any number of files, ids,  *)
(* contents, requests and inputs.  The argument is the inductive invariant *)
(* IInv: it holds initially, every action keeps it, and the properties are *)
(* among its conjuncts or follow from them.  It then carries the           *)
(* refinement of CompletionLifecycle: initial states map to initial        *)
(* states, and every step to a step of the lifecycle or to a stutter.      *)
(***************************************************************************)
EXTENDS Session, FiniteSetTheorems, TLAPS

(***************************************************************************)
(* What the cache operators return, for every cache, limit and lifetime.   *)
(***************************************************************************)

\* removeExpiredLocked only drops entries.
LEMMA UnexpiredSubset ==
    ASSUME NEW cache, NEW time
    PROVE  Unexpired(cache, time) \subseteq cache
BY DEF Unexpired

\* What removeExpiredLocked dropped stays dropped as time passes.
LEMMA UnexpiredShrinks ==
    ASSUME NEW cache \in Caches, NEW time \in Nat
    PROVE  Unexpired(cache, time + 1) \subseteq Unexpired(cache, time)
BY CacheAssumption DEF Unexpired, Caches, Entries

\* A second removeExpiredLocked at the same time changes nothing.
LEMMA UnexpiredTwice ==
    ASSUME NEW cache, NEW time
    PROVE  Unexpired(Unexpired(cache, time), time) = Unexpired(cache, time)
BY DEF Unexpired

\* What a Store leaves in the cache is an entry it kept, or has its new place.
LEMMA AppendedEntry ==
    ASSUME NEW cache, NEW k, NEW t, NEW time, NEW place,
           NEW e \in Appended(cache, k, t, time, place)
    PROVE  \/ e \in cache
           \/ e = [key |-> k, text |-> t, createdAt |-> time, place |-> place]
BY DEF Appended, Newest

\* A refreshed entry keeps its key and its place.
LEMMA RefreshedEntry ==
    ASSUME NEW cache \in Caches, NEW match \in SUBSET cache, NEW t, NEW time,
           NEW e \in Refreshed(cache, match, t, time)
    PROVE  \/ e \in cache
           \/ \E f \in match : e = [key |-> f.key, text |-> t,
                                    createdAt |-> time, place |-> f.place]
<1> DEFINE first == {f \in match : \A g \in match : f.place <= g.place}
<1>1. CASE e \in cache
  BY <1>1
<1>2. CASE e \notin cache
  <2>1. PICK f \in first : e = [f EXCEPT !.text = t, !.createdAt = time]
    BY <1>2 DEF Refreshed
  <2>2. f \in match /\ f \in Entries
    BY DEF Caches
  <2>3. e = [key |-> f.key, text |-> t, createdAt |-> time, place |-> f.place]
    BY <2>1, <2>2 DEF Entries
  <2> QED
    BY <2>2, <2>3
<1> QED
  BY <1>1, <1>2

\* AcceptanceCache.Store keeps entries as they are, but for one that has the
\* key it stores: that one is new, or keeps its place.
LEMMA StoreAcceptedEntry ==
    ASSUME NEW cache \in Caches, NEW k \in Keys, NEW t \in Texts \cup {NoText},
           NEW time \in Nat, NEW place \in Nat,
           NEW e \in StoreAccepted(cache, k, t, time, place)
    PROVE  \/ e \in cache
           \/ /\ t \in Texts
              /\ e \in Entries /\ e.key = k /\ e.text = t
              /\ e.place = place \/ \E f \in cache : e.place = f.place
<1> DEFINE kept  == Unexpired(cache, time)
           match == {f \in kept : f.key = k}
<1> kept \subseteq cache /\ kept \in Caches
  BY UnexpiredSubset DEF Caches
<1> HIDE DEF kept
<1>1. CASE t = NoText
  BY <1>1 DEF StoreAccepted
<1>2. CASE t # NoText /\ match # {}
  <2>1. e \in Refreshed(kept, match, t, time)
    BY <1>2 DEF StoreAccepted, kept
  <2>2. \/ e \in kept
        \/ \E f \in match : e = [key |-> f.key, text |-> t,
                                 createdAt |-> time, place |-> f.place]
    BY <2>1, RefreshedEntry
  <2> QED
    BY <1>2, <2>2 DEF Entries, Caches
<1>3. CASE t # NoText /\ match = {}
  <2>1. e \in Appended(kept, k, t, time, place)
    BY <1>3 DEF StoreAccepted, kept
  <2>2. \/ e \in kept
        \/ e = [key |-> k, text |-> t, createdAt |-> time, place |-> place]
    BY <2>1, AppendedEntry
  <2> QED
    BY <1>3, <2>2 DEF Entries
<1> QED
  BY <1>1, <1>2, <1>3

\* DismissalCache.Store: likewise, and a refreshed entry keeps its text too.
LEMMA StoreDismissedEntry ==
    ASSUME NEW cache \in Caches, NEW k \in Keys, NEW t \in Texts \cup {NoText},
           NEW time \in Nat, NEW place \in Nat,
           NEW e \in StoreDismissed(cache, k, t, time, place)
    PROVE  \/ e \in cache
           \/ /\ t \in Texts
              /\ e \in Entries /\ e.key = k /\ e.text = t
              /\ \/ e.place = place
                 \/ \E f \in Unexpired(cache, time) :
                       f.key = k /\ f.text = t /\ e.place = f.place
<1> DEFINE kept  == Unexpired(cache, time)
           match == {f \in kept : f.key = k /\ f.text = t}
<1> kept \subseteq cache /\ kept \in Caches
  BY UnexpiredSubset DEF Caches
<1> HIDE DEF kept
<1>1. CASE t = NoText
  BY <1>1 DEF StoreDismissed
<1>2. CASE t # NoText /\ match # {}
  <2>1. e \in Refreshed(kept, match, t, time)
    BY <1>2 DEF StoreDismissed, kept
  <2>2. \/ e \in kept
        \/ \E f \in match : e = [key |-> f.key, text |-> t,
                                 createdAt |-> time, place |-> f.place]
    BY <2>1, RefreshedEntry
  <2> QED
    BY <1>2, <2>2 DEF Entries, Caches, kept
<1>3. CASE t # NoText /\ match = {}
  <2>1. e \in Appended(kept, k, t, time, place)
    BY <1>3 DEF StoreDismissed, kept
  <2>2. \/ e \in kept
        \/ e = [key |-> k, text |-> t, createdAt |-> time, place |-> place]
    BY <2>1, AppendedEntry
  <2> QED
    BY <1>3, <2>2 DEF Entries
<1> QED
  BY <1>1, <1>2, <1>3

\* The stores return caches.
LEMMA StoreAcceptedType ==
    ASSUME NEW cache \in Caches, NEW k \in Keys, NEW t \in Texts \cup {NoText},
           NEW time \in Nat, NEW place \in Nat
    PROVE  StoreAccepted(cache, k, t, time, place) \in Caches
BY StoreAcceptedEntry DEF Caches

LEMMA StoreDismissedType ==
    ASSUME NEW cache \in Caches, NEW k \in Keys, NEW t \in Texts \cup {NoText},
           NEW time \in Nat, NEW place \in Nat
    PROVE  StoreDismissed(cache, k, t, time, place) \in Caches
BY StoreDismissedEntry DEF Caches

\* AcceptanceCache.Lookup returns a text that was stored, or none.
LEMMA LookupType ==
    ASSUME NEW cache \in Caches, NEW k, NEW time
    PROVE  Lookup(cache, k, time) \in Texts \cup {NoText}
<1>1. CASE Hits(cache, k, time) = {}
  BY <1>1 DEF Lookup
<1>2. CASE Hits(cache, k, time) # {}
  <2> DEFINE hit == CHOOSE e \in Hits(cache, k, time) : TRUE
  <2>1. hit \in Hits(cache, k, time)
    BY <1>2
  <2>2. hit \in Entries
    BY <2>1 DEF Hits, Unexpired, Caches
  <2>3. Lookup(cache, k, time) = hit.text
    BY <1>2 DEF Lookup
  <2> QED
    BY <2>2, <2>3 DEF Entries
<1> QED
  BY <1>1, <1>2

-----------------------------------------------------------------------------
LEMMA NumbersAreNat == Numbers \subseteq Nat /\ 0 \notin Numbers
BY DEF Numbers

LEMMA InitIInv == Init => IInv
<1> SUFFICES ASSUME Init PROVE IInv
  OBVIOUS
<1> USE SessionAssumption DEF Init
<1>1. TypeOK
  BY DEF TypeOK, LoopStates, Phases, Outcomes, RequestType, NotBegun, Numbers, Caches
<1>2. BegunInOrder
  BY DEF BegunInOrder, Numbers, NotBegun
<1>3. OutcomeOnceKnown /\ CachedByLoop /\ CancelsByPath /\ ErrorIsChecked
  BY DEF OutcomeOnceKnown, CachedByLoop, CancelsByPath, ErrorIsChecked
<1>4. EndingIsCancelled /\ PlacesInOrder
  BY DEF EndingIsCancelled, PlacesInOrder
<1>5. PendingIsRegistered /\ PendingSeesDocument
  BY DEF PendingIsRegistered, PendingSeesDocument, Pending
<1>6. VanishesOnlyCancelled /\ DismissedStaysHidden
  BY DEF VanishesOnlyCancelled, DismissedStaysHidden
<1> QED
  BY <1>1, <1>2, <1>3, <1>4, <1>5, <1>6 DEF IInv

-----------------------------------------------------------------------------
(***************************************************************************)
(* The steps of the read loop that change nothing but where it stands and  *)
(* the id it carries.                                                      *)
(***************************************************************************)
LEMMA MovesKeepIInv ==
    ASSUME IInv,
           UNCHANGED <<inputs, ioVars, now, documents, stateVars, beginVars,
                       cacheVars, workVars>>,
           newId' \in Ids,
           pc' \in LoopStates \ {"cached", "waiting", "panicked"},
           pc = "cached" => phase[started] = "finished",
           pc' \in {"closing", "returned"} /\ output = "open" =>
              Quiet /\ \A p \in Paths : cancels[p] = 0
    PROVE  IInv'
<1> USE DEF IInv, ioVars, stateVars, beginVars, cacheVars, workVars
<1>1. TypeOK'
  BY DEF TypeOK
<1>2. BegunInOrder' /\ OutcomeOnceKnown' /\ CancelsByPath' /\ ErrorIsChecked'
  BY DEF BegunInOrder, OutcomeOnceKnown, CancelsByPath, ErrorIsChecked
<1>3. CachedByLoop'
  BY DEF CachedByLoop
<1>4. EndingIsCancelled'
  BY DEF EndingIsCancelled, Quiet, LoopStates
<1>5. PlacesInOrder' /\ VanishesOnlyCancelled' /\ DismissedStaysHidden'
  BY DEF PlacesInOrder, VanishesOnlyCancelled, DismissedStaysHidden, Unexpired
<1>6. \A r \in Numbers : Pending(r)' => Pending(r)
  BY DEF Pending, ByLoop
<1>7. PendingIsRegistered'
  BY <1>6 DEF PendingIsRegistered
<1>8. PendingSeesDocument'
  BY <1>6 DEF PendingSeesDocument, Key
<1> QED
  BY <1>1, <1>2, <1>3, <1>4, <1>5, <1>7, <1>8

LEMMA LoopMoves ==
    ASSUME IInv,
           \/ ReadGreeting \/ ReadInvalid \/ ReadHealthRequest \/ ReadShutdown
           \/ \E id \in Ids : ReadStateUpdate(id)
           \/ RejectUpdate \/ EndUpdates \/ EndCachedAnswer
           \/ ReadFailure \/ SendError \/ SendHealthResponse
           \/ WaitWorkers \/ CloseTelemetry
    PROVE  IInv'
<1> USE SessionAssumption DEF dataVars, Receive, AfterSend
<1> pc \in LoopStates /\ newId \in Ids /\ output \in {"open", "broken"}
  BY DEF IInv, TypeOK
<1>1. CASE ReadGreeting \/ ReadInvalid \/ ReadHealthRequest \/ ReadShutdown
           \/ \E id \in Ids : ReadStateUpdate(id)
  BY <1>1, MovesKeepIInv
     DEF ReadGreeting, ReadInvalid, ReadHealthRequest, ReadShutdown, ReadStateUpdate, LoopStates
<1>2. CASE RejectUpdate \/ EndUpdates
  BY <1>2, MovesKeepIInv DEF RejectUpdate, EndUpdates, LoopStates
<1>3. CASE EndCachedAnswer
  BY <1>3, MovesKeepIInv DEF EndCachedAnswer, LoopStates
<1>4. CASE ReadFailure \/ SendError \/ SendHealthResponse
  BY <1>4, MovesKeepIInv DEF ReadFailure, SendError, SendHealthResponse, LoopStates
<1>5. CASE WaitWorkers
  <2>1. Quiet /\ \A p \in Paths : cancels[p] = 0
    BY <1>5 DEF WaitWorkers, IInv, EndingIsCancelled
  <2> QED
    BY <1>5, <2>1, MovesKeepIInv DEF WaitWorkers, LoopStates
<1>6. CASE CloseTelemetry
  <2>1. output = "open" => Quiet /\ \A p \in Paths : cancels[p] = 0
    BY <1>6 DEF CloseTelemetry, IInv, EndingIsCancelled
  <2> QED
    BY <1>6, <2>1, MovesKeepIInv DEF CloseTelemetry, LoopStates
<1> QED
  BY <1>1, <1>2, <1>3, <1>4, <1>5, <1>6

-----------------------------------------------------------------------------
(***************************************************************************)
(* The clock and the pipes.                                                *)
(***************************************************************************)
LEMMA TickKeepsIInv ==
    ASSUME IInv, Tick
    PROVE  IInv'
<1> USE SessionAssumption
        DEF IInv, Tick, ioVars, stateVars, beginVars, cacheVars, workVars
<1>1. TypeOK'
  BY DEF TypeOK
<1>2. BegunInOrder' /\ OutcomeOnceKnown' /\ CachedByLoop' /\ CancelsByPath'
  BY DEF BegunInOrder, OutcomeOnceKnown, CachedByLoop, CancelsByPath
<1>3. ErrorIsChecked' /\ EndingIsCancelled' /\ PlacesInOrder' /\ VanishesOnlyCancelled'
  BY DEF ErrorIsChecked, EndingIsCancelled, Quiet, PlacesInOrder, VanishesOnlyCancelled
<1>4. PendingIsRegistered' /\ PendingSeesDocument'
  BY DEF PendingIsRegistered, PendingSeesDocument, Pending, ByLoop, Key
<1>5. DismissedStaysHidden'
  <2>1. Unexpired(dismissed, now + 1) \subseteq Unexpired(dismissed, now)
    BY UnexpiredShrinks DEF TypeOK
  <2> QED
    BY <2>1 DEF DismissedStaysHidden
<1> QED
  BY <1>1, <1>2, <1>3, <1>4, <1>5

LEMMA PipesKeepIInv ==
    ASSUME IInv, FailInput \/ BreakOutput
    PROVE  IInv'
<1> USE DEF IInv, FailInput, BreakOutput, ioVars, stateVars, beginVars, cacheVars, workVars
<1>1. TypeOK'
  BY DEF TypeOK
<1>2. BegunInOrder' /\ OutcomeOnceKnown' /\ CachedByLoop' /\ CancelsByPath'
  BY DEF BegunInOrder, OutcomeOnceKnown, CachedByLoop, CancelsByPath
<1>3. ErrorIsChecked' /\ EndingIsCancelled' /\ PlacesInOrder' /\ VanishesOnlyCancelled'
  BY DEF ErrorIsChecked, EndingIsCancelled, Quiet, PlacesInOrder, VanishesOnlyCancelled
<1>4. PendingIsRegistered' /\ PendingSeesDocument' /\ DismissedStaysHidden'
  BY DEF PendingIsRegistered, PendingSeesDocument, Pending, ByLoop, Key,
         DismissedStaysHidden, Unexpired
<1> QED
  BY <1>1, <1>2, <1>3, <1>4

-----------------------------------------------------------------------------
(***************************************************************************)
(* Accepting and dismissing: only a cache changes.                         *)
(***************************************************************************)
\* An id that is known under a path names a request that has begun, so its
\* key is one a cache takes.
LEMMA KnownHasKey ==
    ASSUME IInv, NEW id \in Ids, NEW p \in Paths, Known(id, p)
    PROVE  request[requests[id]].key \in Keys
BY SessionAssumption DEF Known, IInv, TypeOK, BegunInOrder, Numbers

LEMMA AcceptKeepsIInv ==
    ASSUME IInv, NEW id \in Ids, NEW p \in Paths, NEW t \in Texts \cup {NoText},
           HandleAcceptUpdate(id, p, t)
    PROVE  IInv'
<1> USE SessionAssumption
        DEF HandleAcceptUpdate, Take, Receive, ioVars, stateVars, beginVars, workVars
<1>1. inputs \in Nat /\ inputs' = inputs + 1 /\ now \in Nat /\ accepted \in Caches
  BY DEF IInv, TypeOK
<1>2. \A e \in accepted' :
         \/ e \in accepted
         \/ e \in Entries /\ (e.place = inputs' \/ \E f \in accepted : e.place = f.place)
  <2>1. CASE Known(id, p)
    BY <1>1, <2>1, KnownHasKey, StoreAcceptedEntry
  <2>2. CASE ~Known(id, p)
    BY <2>2
  <2> QED
    BY <2>1, <2>2
<1>3. TypeOK'
  BY <1>1, <1>2 DEF IInv, TypeOK, Caches
<1>4. PlacesInOrder'
  BY <1>1, <1>2 DEF IInv, PlacesInOrder, TypeOK, Caches, Entries
<1>5. BegunInOrder' /\ OutcomeOnceKnown' /\ CachedByLoop' /\ CancelsByPath'
  BY <1>1 DEF IInv, BegunInOrder, OutcomeOnceKnown, CachedByLoop, CancelsByPath, TypeOK, RequestType
<1>6. ErrorIsChecked' /\ EndingIsCancelled' /\ VanishesOnlyCancelled'
  BY DEF IInv, ErrorIsChecked, EndingIsCancelled, Quiet, VanishesOnlyCancelled
<1>7. PendingIsRegistered' /\ PendingSeesDocument' /\ DismissedStaysHidden'
  BY DEF IInv, PendingIsRegistered, PendingSeesDocument, Pending, ByLoop, Key,
         DismissedStaysHidden, Unexpired
<1> QED
  BY <1>3, <1>4, <1>5, <1>6, <1>7 DEF IInv

LEMMA DismissKeepsIInv ==
    ASSUME IInv, NEW id \in Ids, NEW p \in Paths, NEW t \in Texts \cup {NoText},
           HandleDismissUpdate(id, p, t)
    PROVE  IInv'
<1> USE SessionAssumption
        DEF HandleDismissUpdate, Take, Receive, ioVars, stateVars, beginVars, workVars
<1>1. inputs \in Nat /\ inputs' = inputs + 1 /\ now \in Nat /\ dismissed \in Caches
  BY DEF IInv, TypeOK
<1> DEFINE k == request[requests[id]].key
<1>2. \A e \in dismissed' :
         \/ e \in dismissed
         \/ /\ e \in Entries /\ e.key = k /\ e.text = t
            /\ \/ e.place = inputs'
               \/ \E f \in Unexpired(dismissed, now) :
                     f.key = k /\ f.text = t /\ e.place = f.place
  <2>1. CASE Known(id, p)
    BY <1>1, <2>1, KnownHasKey, StoreDismissedEntry
  <2>2. CASE ~Known(id, p)
    BY <2>2
  <2> QED
    BY <2>1, <2>2
<1> HIDE DEF k
<1>3. TypeOK'
  BY <1>1, <1>2 DEF IInv, TypeOK, Caches
<1>4. PlacesInOrder'
  BY <1>1, <1>2, UnexpiredSubset DEF IInv, PlacesInOrder, TypeOK, Caches, Entries
<1>5. BegunInOrder' /\ OutcomeOnceKnown' /\ CachedByLoop' /\ CancelsByPath'
  BY <1>1 DEF IInv, BegunInOrder, OutcomeOnceKnown, CachedByLoop, CancelsByPath, TypeOK, RequestType
<1>6. ErrorIsChecked' /\ EndingIsCancelled' /\ VanishesOnlyCancelled'
  BY DEF IInv, ErrorIsChecked, EndingIsCancelled, Quiet, VanishesOnlyCancelled
<1>7. PendingIsRegistered' /\ PendingSeesDocument'
  BY DEF IInv, PendingIsRegistered, PendingSeesDocument, Pending, ByLoop, Key
<1>8. DismissedStaysHidden'
  <2> SUFFICES ASSUME NEW r \in Numbers, phase[r] = "respond", result[r] # NoText,
                      NEW e \in Unexpired(dismissed', now),
                      e.key = request[r].key, e.text = result[r]
               PROVE  e.place > request[r].order
    BY DEF DismissedStaysHidden
  <2>1. request[r].order \in Nat /\ request[r].order <= inputs
    BY DEF IInv, TypeOK, RequestType, BegunInOrder
  <2>2. CASE e \in dismissed
    BY <2>2 DEF IInv, DismissedStaysHidden, Unexpired
  <2>3. CASE e \notin dismissed
    BY <1>1, <1>2, <2>1, <2>3 DEF IInv, DismissedStaysHidden, Unexpired
  <2> QED
    BY <2>2, <2>3
<1> QED
  BY <1>3, <1>4, <1>5, <1>6, <1>7, <1>8 DEF IInv

-----------------------------------------------------------------------------
(***************************************************************************)
(* The steps that replace or cancel the active requests.                   *)
(***************************************************************************)
LEMMA CancelsAreNumbers ==
    ASSUME IInv
    PROVE  cancelled \subseteq Numbers /\ \A p \in Paths : cancels[p] \in Numbers \cup {0}
BY SessionAssumption DEF IInv, TypeOK, Numbers

LEMMA FileUpdateKeepsIInv ==
    ASSUME IInv, NEW p \in Paths, NEW c \in Contents, HandleFileUpdate(p, c)
    PROVE  IInv'
<1> USE SessionAssumption DEF HandleFileUpdate, Take, ioVars, beginVars, cacheVars, workVars
<1>1. /\ inputs \in Nat /\ inputs' = inputs + 1
      /\ cancelled' = cancelled \cup ({cancels[p]} \ {0})
      /\ cancels' = [cancels EXCEPT ![p] = 0]
      /\ latest' = [latest EXCEPT ![p] = EmptyId]
  BY DEF IInv, TypeOK, CancelPath
<1>2. TypeOK'
  <2>1. cancelled' \subseteq Numbers
    BY <1>1, CancelsAreNumbers
  <2> QED
    BY <1>1, <2>1 DEF IInv, TypeOK
<1>3. BegunInOrder'
  BY <1>1 DEF IInv, BegunInOrder, TypeOK, RequestType
<1>4. OutcomeOnceKnown' /\ CachedByLoop' /\ ErrorIsChecked' /\ EndingIsCancelled'
  BY DEF IInv, OutcomeOnceKnown, CachedByLoop, ErrorIsChecked, EndingIsCancelled
<1>5. CancelsByPath' /\ VanishesOnlyCancelled'
  BY <1>1 DEF IInv, CancelsByPath, VanishesOnlyCancelled, TypeOK
<1>6. PlacesInOrder' /\ DismissedStaysHidden'
  BY <1>1 DEF IInv, PlacesInOrder, DismissedStaysHidden, Unexpired, TypeOK, Caches, Entries
<1>7. ASSUME NEW r \in Numbers, Pending(r)', r \notin cancelled'
      PROVE  Pending(r) /\ r \notin cancelled /\ request[r].path # p
  BY <1>1, <1>7, NumbersAreNat DEF IInv, PendingIsRegistered, Pending, ByLoop
<1>8. PendingIsRegistered'
  BY <1>1, <1>7 DEF IInv, PendingIsRegistered, TypeOK
<1>9. PendingSeesDocument'
  BY <1>7 DEF IInv, PendingSeesDocument, Key, TypeOK
<1> QED
  BY <1>2, <1>3, <1>4, <1>5, <1>6, <1>8, <1>9 DEF IInv

LEMMA CancelAllKeepsIInv ==
    ASSUME IInv, CancelAllRequests
    PROVE  IInv'
<1> USE SessionAssumption DEF CancelAllRequests, CancelAll, ioVars, beginVars, cacheVars, workVars
<1>1. TypeOK'
  <2>1. cancelled' \subseteq Numbers
    BY CancelsAreNumbers
  <2> QED
    BY <2>1 DEF IInv, TypeOK, LoopStates
<1>2. BegunInOrder'
  BY DEF IInv, BegunInOrder, TypeOK
<1>3. OutcomeOnceKnown' /\ CachedByLoop' /\ ErrorIsChecked' /\ EndingIsCancelled'
  BY DEF IInv, OutcomeOnceKnown, CachedByLoop, ErrorIsChecked, EndingIsCancelled
<1>4. CancelsByPath' /\ VanishesOnlyCancelled' /\ PlacesInOrder' /\ DismissedStaysHidden'
  BY DEF IInv, CancelsByPath, VanishesOnlyCancelled, PlacesInOrder, DismissedStaysHidden, Unexpired
\* A pending request was registered, so it is now cancelled.
<1>5. \A r \in Numbers : Pending(r)' => r \in cancelled'
  <2> SUFFICES ASSUME NEW r \in Numbers, Pending(r)', r \notin cancelled
               PROVE  \E p \in Paths : cancels[p] = r
    BY NumbersAreNat
  <2>1. Pending(r) /\ r <= started
    BY DEF IInv, BegunInOrder, Pending, ByLoop, TypeOK, Numbers
  <2>2. request[r].path \in Paths /\ cancels[request[r].path] = r
    BY <2>1 DEF IInv, BegunInOrder, PendingIsRegistered
  <2> QED
    BY <2>2
<1>6. PendingIsRegistered' /\ PendingSeesDocument'
  BY <1>5 DEF PendingIsRegistered, PendingSeesDocument
<1> QED
  BY <1>1, <1>2, <1>3, <1>4, <1>6 DEF IInv

-----------------------------------------------------------------------------
(***************************************************************************)
(* Both ways a request begins.                                             *)
(***************************************************************************)
LEMMA KeyIsKey ==
    ASSUME IInv, NEW p \in Paths, NEW o \in Offsets, documents[p] # NoDocument
    PROVE  documents[p] \in Contents /\ Key(p, o) \in Keys
BY SessionAssumption DEF IInv, TypeOK, Key

\* What beginning request started + 1 does to the bookkeeping, c being what
\* the path's entry names then.
LEMMA BeginKeeps ==
    ASSUME IInv, NEW p \in Paths, NEW o \in Offsets, NEW c \in {0, started + 1},
           BeginRequest(p, o), ReplaceActiveRequest(p, newId, c),
           UNCHANGED <<newId, ioVars, now, documents, outcome>>,
           NEW ph \in Phases \ {"unused", "record", "report", "finished"},
           phase' = [phase EXCEPT ![started + 1] = ph]
    PROVE  /\ started + 1 \in Numbers /\ inputs' \in 0 .. MaxInputs
           /\ started' \in 0 .. MaxRequests
           /\ latest' \in [Paths -> Ids] /\ cancels' \in [Paths -> 0 .. MaxRequests]
           /\ requests' \in [Ids -> 0 .. MaxRequests]
           /\ request' \in [Numbers -> RequestType] /\ cancelled' \subseteq Numbers
           /\ phase' \in [Numbers -> Phases]
           /\ BegunInOrder' /\ OutcomeOnceKnown' /\ CancelsByPath'
           /\ VanishesOnlyCancelled'
           /\ started + 1 \notin cancelled'
           /\ \A r \in Numbers \ {started + 1} :
                 Pending(r)' /\ r \notin cancelled' =>
                    Pending(r) /\ r \notin cancelled /\ request[r].path # p
<1> USE SessionAssumption DEF BeginRequest, ReplaceActiveRequest, Take, ioVars
<1> DEFINE n == started + 1
<1>1. /\ started \in Nat /\ inputs \in Nat /\ n \in Numbers /\ started' \in 0 .. MaxRequests
      /\ inputs' \in 0 .. MaxInputs /\ inputs' = inputs + 1
  BY DEF IInv, TypeOK, Numbers
<1>2. /\ Key(p, o) \in Keys /\ newId \in Ids
      /\ request[n] \in RequestType
  BY <1>1, KeyIsKey DEF IInv, TypeOK
<1>3. /\ request' \in [Numbers -> RequestType]
      /\ request'[n] = [id |-> newId, path |-> p, key |-> Key(p, o), offset |-> o,
                        order |-> inputs + 1]
      /\ \A r \in Numbers \ {n} : request'[r] = request[r]
  BY <1>1, <1>2 DEF IInv, TypeOK, RequestType
<1>4. /\ latest' \in [Paths -> Ids] /\ cancels' \in [Paths -> 0 .. MaxRequests]
      /\ requests' \in [Ids -> 0 .. MaxRequests] /\ cancelled' \subseteq Numbers
      /\ phase' \in [Numbers -> Phases]
  <2>1. cancelled' \subseteq Numbers
    BY CancelsAreNumbers
  <2>2. latest' \in [Paths -> Ids] /\ phase' \in [Numbers -> Phases]
    BY <1>1, <1>2 DEF IInv, TypeOK
  <2>3. n \in 0 .. MaxRequests
    BY <1>1 DEF Numbers
  <2> QED
    BY <1>2, <2>1, <2>2, <2>3 DEF IInv, TypeOK
<1>5. n \notin cancelled'
  BY <1>1 DEF IInv, BegunInOrder, TypeOK
<1>6. BegunInOrder'
  <2>1. \A r \in Numbers : phase'[r] = "unused" <=> r > started'
    BY <1>1 DEF IInv, BegunInOrder, TypeOK, Numbers
  <2>2. \A r \in Numbers : r <= started' => /\ request'[r].path \in Paths
                                          /\ request'[r].key \in Keys
                                          /\ request'[r].offset \in Offsets
    BY <1>1, <1>2, <1>3 DEF IInv, BegunInOrder, Numbers
  <2>3. \A r \in Numbers : request'[r].order <= inputs'
    BY <1>1, <1>3 DEF IInv, BegunInOrder, TypeOK, RequestType
  <2>4. \A r \in Numbers : r \in cancelled' => r <= started'
    BY <1>1 DEF IInv, BegunInOrder, TypeOK, Numbers
  <2>5. \A q \in Paths : cancels'[q] <= started'
    BY <1>1 DEF IInv, BegunInOrder, TypeOK
  <2>6. \A i \in Ids : requests'[i] <= started'
    BY <1>1, <1>2 DEF IInv, BegunInOrder, TypeOK
  <2> QED
    BY <2>1, <2>2, <2>3, <2>4, <2>5, <2>6 DEF BegunInOrder
<1>7. OutcomeOnceKnown'
  BY <1>1 DEF IInv, OutcomeOnceKnown, BegunInOrder, TypeOK, Numbers
<1>8. CancelsByPath'
  BY <1>1, <1>3 DEF IInv, CancelsByPath, BegunInOrder, TypeOK, Numbers
<1>9. VanishesOnlyCancelled'
  BY DEF IInv, VanishesOnlyCancelled
<1>10. ASSUME NEW r \in Numbers \ {n}, Pending(r)', r \notin cancelled'
       PROVE  Pending(r) /\ r \notin cancelled /\ request[r].path # p
  <2>0. phase[r] = phase'[r] /\ phase[r] # "unused"
    BY <1>10 DEF IInv, Pending, TypeOK
  <2>1. phase[r] = phase'[r] /\ phase[r] # "unused" /\ r <= started /\ r # 0
    <3>1. r \in Nat /\ r # 0
      BY NumbersAreNat
    <3>2. ~(r > started)
      BY <2>0 DEF IInv, BegunInOrder
    <3> QED
      BY <1>1, <2>0, <3>1, <3>2
  <2>2. pc = "cached" => phase[started] \in {"respond", "record", "finished"}
    BY DEF IInv, CachedByLoop
  <2>3. Pending(r) /\ r \notin cancelled
    BY <1>1, <1>10, <2>1 DEF Pending, ByLoop
  <2> QED
    BY <1>1, <1>10, <2>1, <2>3 DEF IInv, PendingIsRegistered
<1> QED
  BY <1>1, <1>3, <1>4, <1>5, <1>6, <1>7, <1>8, <1>9, <1>10

LEMMA StartWorkerKeepsIInv ==
    ASSUME IInv, NEW p \in Paths, NEW o \in Offsets, StartWorker(p, o)
    PROVE  IInv'
<1> USE SessionAssumption DEF ioVars
<1> DEFINE n == started + 1
<1>1. /\ BeginRequest(p, o) /\ ReplaceActiveRequest(p, newId, n)
      /\ UNCHANGED <<pc, newId, ioVars, now, documents, dismissed, result, outcome>>
      /\ phase' = [phase EXCEPT ![n] = "provider"]
      /\ accepted' = Unexpired(accepted, now)
  BY DEF StartWorker
<1>2. /\ n \in Numbers /\ inputs' \in 0 .. MaxInputs /\ started' \in 0 .. MaxRequests
      /\ latest' \in [Paths -> Ids] /\ cancels' \in [Paths -> 0 .. MaxRequests]
      /\ requests' \in [Ids -> 0 .. MaxRequests]
      /\ request' \in [Numbers -> RequestType] /\ cancelled' \subseteq Numbers
      /\ phase' \in [Numbers -> Phases]
      /\ BegunInOrder' /\ OutcomeOnceKnown' /\ CancelsByPath' /\ VanishesOnlyCancelled'
      /\ \A r \in Numbers \ {n} : Pending(r)' /\ r \notin cancelled' =>
            Pending(r) /\ r \notin cancelled /\ request[r].path # p
  BY <1>1, BeginKeeps, Zenon DEF Phases
<1>3. /\ pc = "updates" /\ inputs' = inputs + 1 /\ documents[p] \in Contents
      /\ request'[n] = [id |-> newId, path |-> p, key |-> Key(p, o), offset |-> o,
                        order |-> inputs + 1]
      /\ \A r \in Numbers \ {n} : request'[r] = request[r] /\ phase'[r] = phase[r]
  BY <1>1, <1>2 DEF BeginRequest, Take, IInv, TypeOK
<1>4. accepted' \subseteq accepted
  BY <1>1, UnexpiredSubset
<1>5. TypeOK'
  BY <1>1, <1>2, <1>4 DEF IInv, TypeOK, Caches
<1>6. CachedByLoop' /\ EndingIsCancelled'
  BY <1>1, <1>3 DEF CachedByLoop, EndingIsCancelled
<1>7. ErrorIsChecked' /\ DismissedStaysHidden'
  <2>1. phase'[n] = "provider"
    BY <1>1, <1>2 DEF IInv, TypeOK
  <2> QED
    BY <1>1, <1>3, <2>1 DEF IInv, ErrorIsChecked, DismissedStaysHidden
<1>8. PlacesInOrder'
  BY <1>1, <1>3, <1>4 DEF IInv, PlacesInOrder, TypeOK, Caches, Entries
<1>9. PendingIsRegistered'
  <2>1. cancels'[p] = n /\ latest'[p] = newId
    BY <1>1 DEF ReplaceActiveRequest, IInv, TypeOK
  <2>2. \A q \in Paths \ {p} : cancels'[q] = cancels[q] /\ latest'[q] = latest[q]
    BY <1>1 DEF ReplaceActiveRequest, IInv, TypeOK
  <2> SUFFICES ASSUME NEW r \in Numbers, Pending(r)', r \notin cancelled'
               PROVE  cancels'[request'[r].path] = r /\ latest'[request'[r].path] = request'[r].id
    BY DEF PendingIsRegistered
  <2>3. CASE r = n
    BY <1>3, <2>1, <2>3
  <2>4. CASE r # n
    <3>1. Pending(r) /\ r \notin cancelled /\ request[r].path # p /\ request'[r] = request[r]
      BY <1>2, <1>3, <2>4
    <3>2. request[r].path \in Paths
      BY <3>1, NumbersAreNat DEF IInv, BegunInOrder, Pending, TypeOK
    <3> QED
      BY <2>2, <3>1, <3>2 DEF IInv, PendingIsRegistered
  <2> QED
    BY <2>3, <2>4
<1>10. PendingSeesDocument'
  <2> SUFFICES ASSUME NEW r \in Numbers, Pending(r)', r \notin cancelled'
               PROVE  /\ documents[request'[r].path] \in Contents
                      /\ request'[r].key = Key(request'[r].path, request'[r].offset)
    BY <1>1 DEF PendingSeesDocument, Key
  <2>1. CASE r = n
    BY <1>3, <2>1
  <2>2. CASE r # n
    BY <1>2, <1>3, <2>2 DEF IInv, PendingSeesDocument
  <2> QED
    BY <2>1, <2>2
<1> QED
  BY <1>2, <1>5, <1>6, <1>7, <1>8, <1>9, <1>10 DEF IInv

LEMMA AnswerFromCacheKeepsIInv ==
    ASSUME IInv, NEW p \in Paths, NEW o \in Offsets, AnswerFromCache(p, o)
    PROVE  IInv'
<1> USE SessionAssumption DEF ioVars
<1> DEFINE n == started + 1
           text == Lookup(accepted, Key(p, o), now)
           answer == IF IsDismissed(dismissed, Key(p, o), text, now) THEN NoText ELSE text
<1>1. /\ BeginRequest(p, o) /\ ReplaceActiveRequest(p, newId, 0)
      /\ UNCHANGED <<newId, ioVars, now, documents, outcome>>
      /\ pc' = "cached"
      /\ phase' = [phase EXCEPT ![n] = "respond"]
      /\ result' = [result EXCEPT ![n] = answer]
      /\ accepted' = Unexpired(accepted, now)
      /\ dismissed' = Unexpired(dismissed, now)
  BY DEF AnswerFromCache
<1>2. /\ n \in Numbers /\ inputs' \in 0 .. MaxInputs /\ started' \in 0 .. MaxRequests
      /\ latest' \in [Paths -> Ids] /\ cancels' \in [Paths -> 0 .. MaxRequests]
      /\ requests' \in [Ids -> 0 .. MaxRequests]
      /\ request' \in [Numbers -> RequestType] /\ cancelled' \subseteq Numbers
      /\ phase' \in [Numbers -> Phases]
      /\ BegunInOrder' /\ OutcomeOnceKnown' /\ CancelsByPath' /\ VanishesOnlyCancelled'
      /\ \A r \in Numbers \ {n} : Pending(r)' /\ r \notin cancelled' =>
            Pending(r) /\ r \notin cancelled /\ request[r].path # p
  BY <1>1, BeginKeeps, Zenon DEF Phases
<1>3. /\ inputs' = inputs + 1 /\ started' = n
      /\ request'[n] = [id |-> newId, path |-> p, key |-> Key(p, o), offset |-> o,
                        order |-> inputs + 1]
      /\ phase'[n] = "respond"
      /\ \A r \in Numbers \ {n} : /\ request'[r] = request[r] /\ phase'[r] = phase[r]
                                   /\ result'[r] = result[r]
  BY <1>1, <1>2 DEF BeginRequest, Take, IInv, TypeOK
<1>4. answer \in Texts \cup {NoText} /\ answer # Failure /\ result'[n] = answer
      /\ result' \in [Numbers -> Texts \cup {NoText, Failure}]
  <2>1. answer \in Texts \cup {NoText}
    BY LookupType DEF IInv, TypeOK
  <2> HIDE DEF answer
  <2> QED
    BY <1>1, <1>2, <2>1 DEF IInv, TypeOK
<1> HIDE DEF answer
<1>5. accepted' \subseteq accepted /\ dismissed' \subseteq dismissed
  BY <1>1, UnexpiredSubset
<1>6. TypeOK'
  BY <1>1, <1>2, <1>4, <1>5 DEF IInv, TypeOK, Caches, LoopStates
<1>7. CachedByLoop'
  <2>1. \A q \in Paths : cancels'[q] # n
    BY <1>1, <1>2 DEF ReplaceActiveRequest, IInv, TypeOK, BegunInOrder
  <2> QED
    BY <1>2, <1>3, <1>4, <2>1 DEF CachedByLoop
<1>8. ErrorIsChecked' /\ EndingIsCancelled'
  BY <1>1, <1>3, <1>4 DEF IInv, ErrorIsChecked, EndingIsCancelled
<1>9. PlacesInOrder'
  BY <1>1, <1>3, <1>5 DEF IInv, PlacesInOrder, TypeOK, Caches, Entries
<1>10. DismissedStaysHidden'
  <2> SUFFICES ASSUME NEW r \in Numbers, phase'[r] = "respond", result'[r] # NoText,
                      NEW e \in Unexpired(dismissed, now),
                      e.key = request'[r].key, e.text = result'[r]
               PROVE  e.place > request'[r].order
    BY <1>1, UnexpiredTwice DEF DismissedStaysHidden
  <2>1. CASE r = n
    BY <1>3, <1>4, <2>1 DEF IsDismissed, answer
  <2>2. CASE r # n
    BY <1>3, <2>2 DEF IInv, DismissedStaysHidden
  <2> QED
    BY <2>1, <2>2
\* The loop's own request is not a pending worker's.
<1>11. \A r \in Numbers : Pending(r)' => r # n
  BY <1>1, <1>3 DEF Pending, ByLoop
<1>12. PendingIsRegistered'
  <2>1. \A q \in Paths \ {p} : cancels'[q] = cancels[q] /\ latest'[q] = latest[q]
    BY <1>1 DEF ReplaceActiveRequest, IInv, TypeOK
  <2> SUFFICES ASSUME NEW r \in Numbers, Pending(r)', r \notin cancelled'
               PROVE  cancels'[request'[r].path] = r /\ latest'[request'[r].path] = request'[r].id
    BY DEF PendingIsRegistered
  <2>2. Pending(r) /\ r \notin cancelled /\ request[r].path # p /\ request'[r] = request[r]
    BY <1>2, <1>3, <1>11
  <2>3. request[r].path \in Paths
    BY <2>2, NumbersAreNat DEF IInv, BegunInOrder, Pending, TypeOK
  <2> QED
    BY <2>1, <2>2, <2>3 DEF IInv, PendingIsRegistered
<1>13. PendingSeesDocument'
  BY <1>1, <1>2, <1>3, <1>11 DEF IInv, PendingSeesDocument, Key
<1> QED
  BY <1>2, <1>6, <1>7, <1>8, <1>9, <1>10, <1>12, <1>13 DEF IInv

-----------------------------------------------------------------------------
(***************************************************************************)
(* The steps of a worker.  Each moves one request and at most drops        *)
(* expired entries of the dismissal cache.                                 *)
(***************************************************************************)
LEMMA WorkerKeeps ==
    ASSUME IInv, NEW r \in Numbers, UnchangedByWorker, UNCHANGED pc,
           NEW ph \in Phases \ {"unused"}, phase' = [phase EXCEPT ![r] = ph],
           phase[r] \notin {"unused", "finished"},
           ByLoop(r) => ph \in {"respond", "record", "finished"},
           ph \in {"provider", "context", "latest", "dismissal", "respond"} => Pending(r),
           dismissed' \subseteq dismissed
    PROVE  /\ phase' \in [Numbers -> Phases] /\ dismissed' \in Caches
           /\ BegunInOrder' /\ CancelsByPath' /\ EndingIsCancelled' /\ PlacesInOrder'
           /\ PendingIsRegistered' /\ PendingSeesDocument'
<1> USE DEF UnchangedByWorker, ioVars, stateVars, beginVars
<1>1. phase' \in [Numbers -> Phases] /\ dismissed' \in Caches
  BY DEF IInv, TypeOK, Caches
<1>2. BegunInOrder' /\ CancelsByPath' /\ PlacesInOrder'
  BY DEF IInv, BegunInOrder, CancelsByPath, PlacesInOrder, TypeOK
<1>3. EndingIsCancelled'
  BY DEF IInv, EndingIsCancelled, Quiet
<1>4. \A q \in Numbers : Pending(q)' => Pending(q)
  BY DEF IInv, TypeOK, Pending, ByLoop
<1>5. PendingIsRegistered' /\ PendingSeesDocument'
  BY <1>4 DEF IInv, PendingIsRegistered, PendingSeesDocument, Key
<1> QED
  BY <1>1, <1>2, <1>3, <1>5

LEMMA ProviderReturnsKeepsIInv ==
    ASSUME IInv, NEW r \in Numbers, NEW x \in Texts \cup {NoText, Failure},
           ProviderReturns(r, x)
    PROVE  IInv'
<1> USE DEF ProviderReturns, At, Move
<1>1. ~ByLoop(r) /\ Pending(r)
  BY DEF IInv, CachedByLoop, ByLoop, Pending
<1>2. /\ phase' \in [Numbers -> Phases] /\ dismissed' \in Caches
      /\ BegunInOrder' /\ CancelsByPath' /\ EndingIsCancelled' /\ PlacesInOrder'
      /\ PendingIsRegistered' /\ PendingSeesDocument'
  BY <1>1, WorkerKeeps DEF Phases
<1> USE DEF UnchangedByWorker, ioVars, stateVars, beginVars
<1>3. TypeOK'
  BY <1>2 DEF IInv, TypeOK
<1>4. OutcomeOnceKnown' /\ VanishesOnlyCancelled'
  BY DEF IInv, OutcomeOnceKnown, VanishesOnlyCancelled, TypeOK
<1>5. CachedByLoop'
  BY <1>1 DEF IInv, CachedByLoop, ByLoop, TypeOK
<1>6. ErrorIsChecked' /\ DismissedStaysHidden'
  BY DEF IInv, ErrorIsChecked, DismissedStaysHidden, Unexpired, TypeOK
<1> QED
  BY <1>2, <1>3, <1>4, <1>5, <1>6 DEF IInv

LEMMA CheckContextKeepsIInv ==
    ASSUME IInv, NEW r \in Numbers, CheckContext(r)
    PROVE  IInv'
<1> USE DEF CheckContext, At, Move, Drop
<1>1. ~ByLoop(r) /\ Pending(r)
  BY DEF IInv, CachedByLoop, ByLoop, Pending
<1>2. /\ phase' \in [Numbers -> Phases] /\ dismissed' \in Caches
      /\ BegunInOrder' /\ CancelsByPath' /\ EndingIsCancelled' /\ PlacesInOrder'
      /\ PendingIsRegistered' /\ PendingSeesDocument'
  BY <1>1, WorkerKeeps DEF Phases
<1> USE DEF UnchangedByWorker, ioVars, stateVars, beginVars
<1>3. TypeOK'
  BY <1>2 DEF IInv, TypeOK, Outcomes
<1>4. OutcomeOnceKnown' /\ VanishesOnlyCancelled'
  BY DEF IInv, OutcomeOnceKnown, VanishesOnlyCancelled, TypeOK
<1>5. CachedByLoop'
  BY <1>1 DEF IInv, CachedByLoop, ByLoop, TypeOK
<1>6. ErrorIsChecked' /\ DismissedStaysHidden'
  BY DEF IInv, ErrorIsChecked, DismissedStaysHidden, Unexpired, TypeOK
<1> QED
  BY <1>2, <1>3, <1>4, <1>5, <1>6 DEF IInv

\* A request that is not the latest has been cancelled, so that the status
\* "stale" is never recorded.
LEMMA CheckLatestKeepsIInv ==
    ASSUME IInv, NEW r \in Numbers, CheckLatest(r)
    PROVE  IInv'
<1> USE DEF CheckLatest, At, Move, Drop
<1>1. ~ByLoop(r) /\ Pending(r)
  BY DEF IInv, CachedByLoop, ByLoop, Pending
<1>2. /\ phase' \in [Numbers -> Phases] /\ dismissed' \in Caches
      /\ BegunInOrder' /\ CancelsByPath' /\ EndingIsCancelled' /\ PlacesInOrder'
      /\ PendingIsRegistered' /\ PendingSeesDocument'
  BY <1>1, WorkerKeeps DEF Phases
<1>3. ~IsLatest(r) => r \in cancelled
  BY <1>1 DEF IInv, PendingIsRegistered, IsLatest
<1> USE DEF UnchangedByWorker, ioVars, stateVars, beginVars
<1>4. TypeOK'
  BY <1>2 DEF IInv, TypeOK, Outcomes
<1>5. OutcomeOnceKnown'
  BY DEF IInv, OutcomeOnceKnown, TypeOK
<1>6. VanishesOnlyCancelled'
  BY <1>3 DEF IInv, VanishesOnlyCancelled, TypeOK
<1>7. CachedByLoop'
  BY <1>1 DEF IInv, CachedByLoop, ByLoop, TypeOK
<1>8. ErrorIsChecked' /\ DismissedStaysHidden'
  BY DEF IInv, ErrorIsChecked, DismissedStaysHidden, Unexpired, TypeOK
<1> QED
  BY <1>2, <1>4, <1>5, <1>6, <1>7, <1>8 DEF IInv

LEMMA CheckDismissalResult ==
    ASSUME IInv, NEW r \in Numbers, CheckDismissal(r)
    PROVE  /\ \/ result'[r] = NoText
              \/ /\ result'[r] = result[r]
                 /\ ~IsDismissed(dismissed, request[r].key, result[r], now)
           /\ \A q \in Numbers \ {r} : result'[q] = result[q]
           /\ result' \in [Numbers -> Texts \cup {NoText, Failure}]
<1> DEFINE hidden == IsDismissed(dismissed, request[r].key, result[r], now)
<1>1. result \in [Numbers -> Texts \cup {NoText, Failure}]
  BY DEF IInv, TypeOK
<1>2. \/ result' = result /\ result[r] = NoText
      \/ result' = [result EXCEPT ![r] = IF hidden THEN NoText ELSE result[r]]
  BY DEF CheckDismissal
<1> HIDE DEF hidden
<1>3. \/ result' = result /\ (result[r] = NoText \/ ~hidden)
      \/ result' = [result EXCEPT ![r] = NoText]
  BY <1>1, <1>2
<1>4. CASE result' = result /\ (result[r] = NoText \/ ~hidden)
  BY <1>1, <1>4 DEF hidden
<1>5. CASE result' = [result EXCEPT ![r] = NoText]
  <2>1. result'[r] = NoText /\ \A q \in Numbers \ {r} : result'[q] = result[q]
    BY <1>1, <1>5
  <2>2. result' \in [Numbers -> Texts \cup {NoText, Failure}]
    BY <1>1, <1>5
  <2> QED
    BY <2>1, <2>2
<1> QED
  BY <1>3, <1>4, <1>5

LEMMA CheckDismissalKeepsIInv ==
    ASSUME IInv, NEW r \in Numbers, CheckDismissal(r)
    PROVE  IInv'
<1>1. /\ \/ result'[r] = NoText
         \/ /\ result'[r] = result[r]
            /\ ~IsDismissed(dismissed, request[r].key, result[r], now)
      /\ \A q \in Numbers \ {r} : result'[q] = result[q]
      /\ result' \in [Numbers -> Texts \cup {NoText, Failure}]
  BY CheckDismissalResult
<1> USE SessionAssumption DEF CheckDismissal, At, Move
<1>2. ~ByLoop(r) /\ Pending(r)
  BY DEF IInv, CachedByLoop, ByLoop, Pending
<1>3. dismissed' \subseteq dismissed /\ Unexpired(dismissed', now) = Unexpired(dismissed, now)
  BY UnexpiredSubset, UnexpiredTwice
<1>4. /\ phase' \in [Numbers -> Phases] /\ dismissed' \in Caches
      /\ BegunInOrder' /\ CancelsByPath' /\ EndingIsCancelled' /\ PlacesInOrder'
      /\ PendingIsRegistered' /\ PendingSeesDocument'
  BY <1>2, <1>3, WorkerKeeps DEF Phases
<1> USE DEF UnchangedByWorker, ioVars, stateVars, beginVars
<1>5. TypeOK'
  BY <1>4, <1>1 DEF IInv, TypeOK
<1>6. OutcomeOnceKnown' /\ VanishesOnlyCancelled'
  BY DEF IInv, OutcomeOnceKnown, VanishesOnlyCancelled, TypeOK
<1>7. CachedByLoop'
  BY <1>2, <1>1 DEF IInv, CachedByLoop, ByLoop, TypeOK
<1>8. ErrorIsChecked'
  BY <1>1 DEF IInv, ErrorIsChecked, TypeOK
<1>9. DismissedStaysHidden'
  <2> SUFFICES ASSUME NEW q \in Numbers, phase'[q] = "respond", result'[q] # NoText,
                      NEW e \in Unexpired(dismissed, now),
                      e.key = request[q].key, e.text = result'[q]
               PROVE  e.place > request[q].order
    BY <1>3 DEF DismissedStaysHidden
  <2>1. CASE q = r
    BY <1>1, <2>1 DEF IsDismissed
  <2>2. CASE q # r
    BY <1>1, <2>2 DEF IInv, DismissedStaysHidden, TypeOK
  <2> QED
    BY <2>1, <2>2
<1> QED
  BY <1>4, <1>5, <1>6, <1>7, <1>8, <1>9 DEF IInv

LEMMA RespondKeepsIInv ==
    ASSUME IInv, NEW r \in Numbers, Respond(r)
    PROVE  IInv'
<1> USE DEF Respond, At, Move
<1>1. /\ phase' \in [Numbers -> Phases] /\ dismissed' \in Caches
      /\ BegunInOrder' /\ CancelsByPath' /\ EndingIsCancelled' /\ PlacesInOrder'
      /\ PendingIsRegistered' /\ PendingSeesDocument'
  BY WorkerKeeps DEF Phases
<1> USE DEF UnchangedByWorker, ioVars, stateVars, beginVars
<1>2. TypeOK'
  BY <1>1 DEF IInv, TypeOK, Outcomes
<1>3. OutcomeOnceKnown' /\ VanishesOnlyCancelled' /\ CachedByLoop'
  BY DEF IInv, OutcomeOnceKnown, VanishesOnlyCancelled, CachedByLoop, TypeOK
<1>4. ErrorIsChecked' /\ DismissedStaysHidden'
  BY DEF IInv, ErrorIsChecked, DismissedStaysHidden, Unexpired, TypeOK
<1> QED
  BY <1>1, <1>2, <1>3, <1>4 DEF IInv

\* Only a Run that gave up on a broken stdout returns with a worker left.
LEMMA RecordTelemetryKeepsIInv ==
    ASSUME IInv, NEW r \in Numbers, RecordTelemetry(r)
    PROVE  IInv'
<1> USE DEF RecordTelemetry, At, Move
<1>1. CASE pc = "returned"
  <2>1. output # "open"
    BY <1>1 DEF IInv, EndingIsCancelled, Quiet
  <2> USE DEF IInv, UnchangedByWorker, ioVars, stateVars, beginVars
  <2>2. TypeOK' /\ BegunInOrder' /\ OutcomeOnceKnown' /\ CachedByLoop' /\ CancelsByPath'
    BY <1>1 DEF TypeOK, LoopStates, BegunInOrder, OutcomeOnceKnown, CachedByLoop, CancelsByPath
  <2>3. ErrorIsChecked' /\ EndingIsCancelled' /\ PlacesInOrder' /\ VanishesOnlyCancelled'
    BY <1>1, <2>1 DEF ErrorIsChecked, EndingIsCancelled, PlacesInOrder, VanishesOnlyCancelled
  <2>4. PendingIsRegistered' /\ PendingSeesDocument' /\ DismissedStaysHidden'
    BY <1>1 DEF PendingIsRegistered, PendingSeesDocument, Pending, ByLoop, Key,
                DismissedStaysHidden, Unexpired
  <2> QED
    BY <2>2, <2>3, <2>4
<1>2. CASE pc # "returned"
  <2>1. PICK ph \in {"report", "finished"} :
           /\ phase' = [phase EXCEPT ![r] = ph]
           /\ ph = "report" => result[r] = Failure
           /\ UNCHANGED <<pc, result, outcome, dismissed>> /\ UnchangedByWorker
    BY <1>2
  <2>2. ByLoop(r) => ph = "finished"
    BY <2>1 DEF IInv, CachedByLoop, ByLoop
  <2>3. /\ phase' \in [Numbers -> Phases] /\ dismissed' \in Caches
        /\ BegunInOrder' /\ CancelsByPath' /\ EndingIsCancelled' /\ PlacesInOrder'
        /\ PendingIsRegistered' /\ PendingSeesDocument'
    BY <2>1, <2>2, WorkerKeeps DEF Phases
  <2> USE DEF UnchangedByWorker, ioVars, stateVars, beginVars
  <2>4. TypeOK'
    BY <2>1, <2>3 DEF IInv, TypeOK
  <2>5. OutcomeOnceKnown' /\ VanishesOnlyCancelled'
    BY <2>1 DEF IInv, OutcomeOnceKnown, VanishesOnlyCancelled, TypeOK
  <2>6. CachedByLoop'
    BY <2>1, <2>2 DEF IInv, CachedByLoop, ByLoop, TypeOK
  <2>7. ErrorIsChecked' /\ DismissedStaysHidden'
    BY <2>1 DEF IInv, ErrorIsChecked, DismissedStaysHidden, Unexpired, TypeOK
  <2> QED
    BY <2>3, <2>4, <2>5, <2>6, <2>7 DEF IInv
<1> QED
  BY <1>1, <1>2

LEMMA ReportErrorKeepsIInv ==
    ASSUME IInv, NEW r \in Numbers, ReportError(r)
    PROVE  IInv'
<1> USE DEF ReportError, At, Move
<1>1. /\ phase' \in [Numbers -> Phases] /\ dismissed' \in Caches
      /\ BegunInOrder' /\ CancelsByPath' /\ EndingIsCancelled' /\ PlacesInOrder'
      /\ PendingIsRegistered' /\ PendingSeesDocument'
  BY WorkerKeeps DEF Phases
<1> USE DEF UnchangedByWorker, ioVars, stateVars, beginVars
<1>2. TypeOK'
  BY <1>1 DEF IInv, TypeOK
<1>3. OutcomeOnceKnown' /\ VanishesOnlyCancelled' /\ CachedByLoop'
  BY DEF IInv, OutcomeOnceKnown, VanishesOnlyCancelled, CachedByLoop, TypeOK
<1>4. ErrorIsChecked' /\ DismissedStaysHidden'
  BY DEF IInv, ErrorIsChecked, DismissedStaysHidden, Unexpired, TypeOK
<1> QED
  BY <1>1, <1>2, <1>3, <1>4 DEF IInv

-----------------------------------------------------------------------------
(***************************************************************************)
(* The invariant and the properties.                                       *)
(***************************************************************************)
LEMMA WorkerStepKeepsIInv ==
    ASSUME IInv, NEW r \in Numbers, WorkerStep(r)
    PROVE  IInv'
BY CheckContextKeepsIInv, CheckLatestKeepsIInv, CheckDismissalKeepsIInv,
   RespondKeepsIInv, RecordTelemetryKeepsIInv, ReportErrorKeepsIInv DEF WorkerStep

LEMMA StutterKeepsIInv ==
    ASSUME IInv, UNCHANGED vars
    PROVE  IInv'
<1> USE DEF IInv, vars, dataVars, ioVars, stateVars, beginVars, cacheVars, workVars
<1>1. TypeOK' /\ BegunInOrder' /\ OutcomeOnceKnown' /\ CachedByLoop' /\ CancelsByPath'
  BY DEF TypeOK, BegunInOrder, OutcomeOnceKnown, CachedByLoop, CancelsByPath
<1>2. ErrorIsChecked' /\ EndingIsCancelled' /\ PlacesInOrder' /\ VanishesOnlyCancelled'
  BY DEF ErrorIsChecked, EndingIsCancelled, Quiet, PlacesInOrder, VanishesOnlyCancelled
<1>3. PendingIsRegistered' /\ PendingSeesDocument' /\ DismissedStaysHidden'
  BY DEF PendingIsRegistered, PendingSeesDocument, Pending, ByLoop, Key,
         DismissedStaysHidden, Unexpired
<1> QED
  BY <1>1, <1>2, <1>3

LEMMA NextKeepsIInv == IInv /\ [Next]_vars => IInv'
<1> SUFFICES ASSUME IInv, [Next]_vars PROVE IInv'
  OBVIOUS
<1>1. CASE ReadMessage
  <2>1. CASE \/ ReadGreeting \/ ReadInvalid \/ ReadHealthRequest \/ ReadShutdown
             \/ \E id \in Ids : ReadStateUpdate(id)
    BY <2>1, LoopMoves
  <2>2. CASE \E id \in Ids, p \in Paths, t \in Texts \cup {NoText} :
                HandleAcceptUpdate(id, p, t) \/ HandleDismissUpdate(id, p, t)
    BY <2>2, AcceptKeepsIInv, DismissKeepsIInv
  <2> QED
    BY <1>1, <2>1, <2>2 DEF ReadMessage
<1>2. CASE HandleItem
  BY <1>2, LoopMoves, FileUpdateKeepsIInv, AnswerFromCacheKeepsIInv, StartWorkerKeepsIInv
     DEF HandleItem
<1>3. CASE LoopStep
  BY <1>3, LoopMoves, CancelAllKeepsIInv DEF LoopStep
<1>4. CASE \E r \in Numbers, x \in Texts \cup {NoText, Failure} : ProviderReturns(r, x)
  BY <1>4, ProviderReturnsKeepsIInv
<1>5. CASE \E r \in Numbers : WorkerStep(r)
  BY <1>5, WorkerStepKeepsIInv
<1>6. CASE Environment
  BY <1>6, TickKeepsIInv, PipesKeepIInv DEF Environment
<1>7. CASE Over \/ UNCHANGED vars
  BY <1>7, StutterKeepsIInv DEF Over
<1> QED
  BY <1>1, <1>2, <1>3, <1>4, <1>5, <1>6, <1>7 DEF Next

\* The inductive invariant holds in every behaviour of the session.
THEOREM SessionInvariant == Spec => []IInv
<1>1. Init => IInv
  BY InitIInv
<1>2. IInv /\ [Next]_vars => IInv'
  BY NextKeepsIInv
<1> QED
  BY <1>1, <1>2, PTL DEF Spec

\* Every variable keeps its type: in particular both caches only ever hold
\* entries with a real key and a real text, whatever the editor accepts.
THEOREM TypeCorrect == Spec => []TypeOK
BY SessionInvariant, PTL DEF IInv

\* replaceActiveRequest, cancelPath and cancelAll never lose a worker.
THEOREM PendingAlwaysRegistered == Spec => []PendingIsRegistered
BY SessionInvariant, PTL DEF IInv

\* A worker that nobody cancelled completes the text the core holds now.
THEOREM PendingAlwaysSeesDocument == Spec => []PendingSeesDocument
BY SessionInvariant, PTL DEF IInv

\* runCompletion never finds its request replaced but its context live.
THEOREM OnlyCancelledVanish == Spec => []VanishesOnlyCancelled
BY SessionInvariant, PTL DEF IInv

\* shouldSuppressResponse keeps a dismissal made before the request.
THEOREM DismissedNeverShown == Spec => []DismissedStaysHidden
BY SessionInvariant, PTL DEF IInv

\* Run returns cleanly: no worker, no entry, no send on a closed channel.
THEOREM EndIsClean == Spec => []CleanEnd
<1>1. IInv => CleanEnd
  <2> SUFFICES ASSUME IInv, pc \in {"closing", "returned", "panicked"}, output = "open"
               PROVE  pc # "panicked" /\ Quiet /\ InFlightRequests = 0
    BY DEF CleanEnd
  <2>1. pc # "panicked" /\ Quiet /\ \A p \in Paths : cancels[p] = 0
    BY DEF IInv, EndingIsCancelled
  <2>2. {p \in Paths : cancels[p] # 0} = {}
    BY <2>1
  <2>3. InFlightRequests = 0
    BY <2>2, FS_EmptySet DEF InFlightRequests
  <2> QED
    BY <2>1, <2>3
<1> QED
  BY <1>1, SessionInvariant, PTL

-----------------------------------------------------------------------------
(***************************************************************************)
(* The session implements CompletionLifecycle.  That cancelling what the   *)
(* maps name supersedes exactly the requests of a file rests on            *)
(* PendingIsRegistered and CancelsByPath.                                  *)
(***************************************************************************)

\* The cases of Stage, apart from each other.
LEMMA StageCases ==
    ASSUME IInv, NEW r \in Numbers
    PROVE  /\ phase[r] = "unused" => Stage(r) = "unused"
           /\ phase[r] \in {"provider", "context"} =>
                 Stage(r) = IF r \in cancelled THEN "superseded" ELSE "current"
           /\ phase[r] \in {"latest", "dismissal", "respond"} =>
                 Stage(r) = IF r \in cancelled THEN "overtaken" ELSE "decided"
           /\ phase[r] \in {"record", "report", "finished"} =>
                 /\ outcome[r] = "answered" => Stage(r) = "answered"
                 /\ outcome[r] = "failed" => Stage(r) = "failed"
                 /\ outcome[r] = "dropped" => Stage(r) = "dropped"
BY DEF Stage, IInv, OutcomeOnceKnown

LEMMA InitRefines == Init => Lifecycle!Init
<1> SUFFICES ASSUME Init PROVE Lifecycle!Init
  OBVIOUS
<1>1. \A r \in Numbers : request[r].path = NoPath /\ Stage(r) = "unused"
  BY DEF Init, NotBegun, Stage
<1> QED
  BY <1>1 DEF Lifecycle!Init, Lifecycle!Numbers, Numbers

\* A step that moves no request, or moves it within its stage, is a stutter.
LEMMA StutterRefines ==
    ASSUME UNCHANGED request, \A r \in Numbers : Stage(r)' = Stage(r)
    PROVE  UNCHANGED Lifecycle!vars
BY DEF Lifecycle!vars

\* A step that only moves request r to another stage is a step Become.
LEMMA BecomeRefines ==
    ASSUME UNCHANGED request, NEW r \in Numbers, NEW st, Stage(r)' = st,
           \A q \in Numbers \ {r} : Stage(q)' = Stage(q)
    PROVE  Lifecycle!Become(r, st)
<1> DEFINE stage == [q \in Numbers |-> Stage(q)]
<1>1. stage' = [stage EXCEPT ![r] = st]
  OBVIOUS
<1>2. [q \in Numbers |-> request[q].path]' = [q \in Numbers |-> request[q].path]
  OBVIOUS
<1> QED
  BY <1>1, <1>2 DEF Lifecycle!Become

\* The same after a step, for which the invariant holds as well.
LEMMA StageCasesNext ==
    ASSUME IInv', NEW r \in Numbers
    PROVE  /\ phase'[r] = "unused" => Stage(r)' = "unused"
           /\ phase'[r] \in {"provider", "context"} =>
                 Stage(r)' = IF r \in cancelled' THEN "superseded" ELSE "current"
           /\ phase'[r] \in {"latest", "dismissal", "respond"} =>
                 Stage(r)' = IF r \in cancelled' THEN "overtaken" ELSE "decided"
           /\ phase'[r] \in {"record", "report", "finished"} =>
                 /\ outcome'[r] = "answered" => Stage(r)' = "answered"
                 /\ outcome'[r] = "failed" => Stage(r)' = "failed"
                 /\ outcome'[r] = "dropped" => Stage(r)' = "dropped"
BY DEF Stage, IInv, OutcomeOnceKnown

LEMMA StageFrame ==
    ASSUME NEW r \in Numbers, phase'[r] = phase[r], outcome'[r] = outcome[r],
           r \in cancelled' <=> r \in cancelled
    PROVE  Stage(r)' = Stage(r)
BY DEF Stage

\* A request is finished, or has begun and was not finished, or is unused.
LEMMA StageKnown ==
    ASSUME IInv, NEW r \in Numbers, phase[r] \in {"record", "report", "finished"}
    PROVE  Stage(r) \in {"answered", "failed", "dropped"}
<1>1. outcome[r] \in {"answered", "failed", "dropped"}
  BY DEF IInv, TypeOK, Outcomes, OutcomeOnceKnown, VanishesOnlyCancelled
<1> QED
  BY <1>1, StageCases

-----------------------------------------------------------------------------
(***************************************************************************)
(* Cancelling what the maps name for the files ps supersedes the current   *)
(* and the decided requests of these files, and no other.                  *)
(***************************************************************************)
LEMMA CancelSupersedes ==
    ASSUME IInv, NEW ps \in SUBSET Paths, pc # "cached",
           cancelled' = cancelled \cup ({cancels[p] : p \in ps} \ {0}),
           NEW q \in Numbers, phase'[q] = phase[q], outcome'[q] = outcome[q]
    PROVE  Stage(q)' = Lifecycle!After(q, ps)
<1>1. q # 0
  BY NumbersAreNat
<1>2. CASE request[q].path \notin ps
  <2>1. q \in cancelled' <=> q \in cancelled
    BY <1>1, <1>2 DEF IInv, CancelsByPath
  <2>2. Lifecycle!After(q, ps) = Stage(q)
    BY <1>2 DEF Lifecycle!After
  <2> QED
    BY <2>1, <2>2, StageFrame
<1>3. CASE request[q].path \in ps /\ Pending(q) /\ q \notin cancelled
  <2>1. cancels[request[q].path] = q
    BY <1>3 DEF IInv, PendingIsRegistered
  <2>2. q \in cancelled'
    BY <1>1, <1>3, <2>1
  <2>3. CASE phase[q] \in {"provider", "context"}
    <3>1. Stage(q) = "current"
      BY <1>3, <2>3, StageCases
    <3>2. Stage(q)' = "superseded"
      BY <1>3, <2>2, <2>3 DEF Stage, IInv, OutcomeOnceKnown
    <3> QED
      BY <1>3, <3>1, <3>2 DEF Lifecycle!After
  <2>4. CASE phase[q] \in {"latest", "dismissal", "respond"}
    <3>1. Stage(q) = "decided"
      BY <1>3, <2>4, StageCases
    <3>2. Stage(q)' = "overtaken"
      BY <1>3, <2>2, <2>4 DEF Stage, IInv, OutcomeOnceKnown
    <3> QED
      BY <1>3, <3>1, <3>2 DEF Lifecycle!After
  <2> QED
    BY <1>3, <2>3, <2>4 DEF Pending
<1>4. CASE request[q].path \in ps /\ ~(Pending(q) /\ q \notin cancelled)
  <2>1. Stage(q) \notin {"current", "decided"}
    <3>1. CASE phase[q] \in {"provider", "context", "latest", "dismissal", "respond"}
      BY <1>4, <3>1, StageCases DEF Pending, ByLoop
    <3>2. CASE phase[q] = "unused"
      BY <3>2, StageCases
    <3>3. CASE phase[q] \in {"record", "report", "finished"}
      BY <3>3, StageKnown
    <3> QED
      BY <3>1, <3>2, <3>3 DEF IInv, TypeOK, Phases
  <2>2. Lifecycle!After(q, ps) = Stage(q)
    BY <1>4, <2>1 DEF Lifecycle!After
  <2>3. Stage(q)' = Stage(q)
    <3>1. CASE q \in cancelled' <=> q \in cancelled
      BY <3>1, StageFrame
    <3>2. CASE phase[q] \in {"unused", "record", "report", "finished"}
      <4>1. phase[q] = "unused" \/ outcome[q] \in {"answered", "failed", "dropped"}
        BY <3>2 DEF IInv, TypeOK, Outcomes, OutcomeOnceKnown, VanishesOnlyCancelled
      <4> QED
        BY <4>1 DEF Stage
    <3>3. CASE phase[q] \in {"provider", "context", "latest", "dismissal", "respond"}
      BY <1>4, <3>3, StageFrame DEF Pending, ByLoop
    <3> QED
      BY <3>2, <3>3 DEF IInv, TypeOK, Phases
  <2> QED
    BY <2>2, <2>3
<1> QED
  BY <1>2, <1>3, <1>4

LEMMA FileUpdateRefines ==
    ASSUME IInv, NEW p \in Paths, NEW c \in Contents, HandleFileUpdate(p, c)
    PROVE  Lifecycle!Supersede({p})
<1>1. /\ cancelled' = cancelled \cup ({cancels[q] : q \in {p}} \ {0})
      /\ pc # "cached" /\ UNCHANGED <<request, phase, outcome>>
  BY DEF HandleFileUpdate, CancelPath, beginVars, workVars
<1>2. \A q \in Numbers : Stage(q)' = Lifecycle!After(q, {p})
  BY <1>1, CancelSupersedes
<1> QED
  BY <1>1, <1>2 DEF Lifecycle!Supersede, Lifecycle!Numbers, Numbers

LEMMA CancelAllRefines ==
    ASSUME IInv, CancelAllRequests
    PROVE  Lifecycle!Supersede(Paths)
<1>1. /\ cancelled' = cancelled \cup ({cancels[q] : q \in Paths} \ {0})
      /\ pc # "cached" /\ UNCHANGED <<request, phase, outcome>>
  BY DEF CancelAllRequests, CancelAll, beginVars, workVars
<1>2. \A q \in Numbers : Stage(q)' = Lifecycle!After(q, Paths)
  BY <1>1, CancelSupersedes
<1> QED
  BY <1>1, <1>2 DEF Lifecycle!Supersede, Lifecycle!Numbers, Numbers

\* Both ways to begin a request: with a worker it is current, with an answer
\* from the cache it is decided.
LEMMA BeginRefines ==
    ASSUME IInv, IInv', NEW p \in Paths, NEW o \in Offsets,
           AnswerFromCache(p, o) \/ StartWorker(p, o)
    PROVE  \E r \in Numbers, st \in {"current", "decided"} : Lifecycle!Begin(r, p, st)
<1> DEFINE n == started + 1
<1>1. PICK ph \in {"provider", "respond"} : phase' = [phase EXCEPT ![n] = ph]
  BY DEF AnswerFromCache, StartWorker
<1>2. /\ BeginRequest(p, o) /\ UNCHANGED outcome /\ pc # "cached"
      /\ cancelled' = cancelled \cup ({cancels[q] : q \in {p}} \ {0})
  BY DEF AnswerFromCache, StartWorker, BeginRequest, ReplaceActiveRequest
<1>3. n \in Numbers /\ started \in Nat /\ n > started
  BY <1>2 DEF BeginRequest, IInv, TypeOK, Numbers
<1>4. phase[n] = "unused" /\ phase'[n] = ph /\ n \notin cancelled'
  <2>1. phase[n] = "unused" /\ n \notin cancelled
    BY <1>3 DEF IInv, BegunInOrder
  <2>2. cancels[p] # n
    BY <1>3 DEF IInv, BegunInOrder, TypeOK
  <2> QED
    BY <1>1, <1>2, <1>3, <2>1, <2>2 DEF IInv, TypeOK
<1>5. Stage(n) = "unused"
  BY <1>3, <1>4, StageCases
<1> DEFINE st == IF ph = "provider" THEN "current" ELSE "decided"
<1>6. \A r \in Numbers : r = n => Stage(r)' = st
  BY <1>4, StageCasesNext
<1>7. \A q \in Numbers : q # n => Stage(q)' = Lifecycle!After(q, {p})
  BY <1>1, <1>2, <1>3, CancelSupersedes DEF IInv, TypeOK
<1>8. request' = [request EXCEPT ![n] =
                    [id |-> newId, path |-> p, key |-> Key(p, o), offset |-> o,
                     order |-> inputs + 1]]
  BY <1>2 DEF BeginRequest
<1>9. [r \in Numbers |-> request[r].path]' =
         [[r \in Numbers |-> request[r].path] EXCEPT ![n] = p]
  BY <1>3, <1>8 DEF IInv, TypeOK
<1>10. [r \in Numbers |-> Stage(r)]' =
          [q \in Numbers |-> IF q = n THEN st ELSE Lifecycle!After(q, {p})]
  BY <1>6, <1>7
<1>11. Lifecycle!Begin(n, p, st)
  BY <1>3, <1>5, <1>9, <1>10 DEF Lifecycle!Begin, Lifecycle!Numbers, Numbers
<1> QED
  BY <1>3, <1>11

-----------------------------------------------------------------------------
(***************************************************************************)
(* Every step of a worker is a step of the lifecycle or a stutter.         *)
(***************************************************************************)
LEMMA WorkerFrame ==
    ASSUME IInv, UnchangedByWorker, NEW r \in Numbers,
           \A q \in Numbers \ {r} : phase'[q] = phase[q] /\ outcome'[q] = outcome[q]
    PROVE  UNCHANGED request /\ \A q \in Numbers \ {r} : Stage(q)' = Stage(q)
BY StageFrame DEF UnchangedByWorker, beginVars, stateVars

LEMMA CheckContextRefines ==
    ASSUME IInv, IInv', NEW r \in Numbers, CheckContext(r)
    PROVE  Lifecycle!Decide(r) \/ Lifecycle!Drop(r)
<1> USE DEF CheckContext, At, Move, Drop
<1>1. UNCHANGED request /\ \A q \in Numbers \ {r} : Stage(q)' = Stage(q)
  BY WorkerFrame DEF IInv, TypeOK
<1>2. phase[r] = "context" /\ cancelled' = cancelled
  BY DEF UnchangedByWorker, stateVars
<1>3. CASE r \in cancelled
  <2>1. Stage(r) = "superseded"
    BY <1>2, <1>3, StageCases
  <2>2. phase'[r] = "record" /\ outcome'[r] = "dropped"
    BY <1>3 DEF IInv, TypeOK
  <2>3. Lifecycle!Become(r, "dropped")
    BY <1>1, <2>2, StageCasesNext, BecomeRefines
  <2> QED
    BY <2>1, <2>3 DEF Lifecycle!Drop
<1>4. CASE r \notin cancelled
  <2>1. Stage(r) = "current"
    BY <1>2, <1>4, StageCases
  <2>2. phase'[r] = "latest"
    BY <1>4 DEF IInv, TypeOK
  <2>3. Lifecycle!Become(r, "decided")
    BY <1>1, <1>2, <1>4, <2>2, StageCasesNext, BecomeRefines
  <2> QED
    BY <2>1, <2>3 DEF Lifecycle!Decide
<1> QED
  BY <1>3, <1>4

LEMMA CheckLatestRefines ==
    ASSUME IInv, IInv', NEW r \in Numbers, CheckLatest(r)
    PROVE  Lifecycle!Drop(r) \/ Lifecycle!Fail(r) \/ UNCHANGED Lifecycle!vars
<1> USE DEF CheckLatest, At, Move, Drop
<1>1. UNCHANGED request /\ \A q \in Numbers \ {r} : Stage(q)' = Stage(q)
  BY WorkerFrame DEF IInv, TypeOK
<1>2. phase[r] = "latest" /\ cancelled' = cancelled
  BY DEF UnchangedByWorker, stateVars
<1>3. Stage(r) = IF r \in cancelled THEN "overtaken" ELSE "decided"
  BY <1>2, StageCases
<1>4. CASE ~IsLatest(r)
  <2>1. r \in cancelled
    BY <1>2, <1>4 DEF IInv, PendingIsRegistered, Pending, ByLoop, IsLatest, CachedByLoop
  <2>2. phase'[r] = "record" /\ outcome'[r] = "dropped"
    BY <1>4, <2>1 DEF IInv, TypeOK
  <2>3. Lifecycle!Become(r, "dropped")
    BY <1>1, <2>2, StageCasesNext, BecomeRefines
  <2> QED
    BY <1>3, <2>1, <2>3 DEF Lifecycle!Drop
<1>5. CASE IsLatest(r) /\ result[r] = Failure
  <2>1. phase'[r] = "record" /\ outcome'[r] = "failed"
    BY <1>5 DEF IInv, TypeOK
  <2>2. Lifecycle!Become(r, "failed")
    BY <1>1, <2>1, StageCasesNext, BecomeRefines
  <2> QED
    BY <1>3, <2>2 DEF Lifecycle!Fail
<1>6. CASE IsLatest(r) /\ result[r] # Failure
  <2>1. phase'[r] = "dismissal"
    BY <1>6 DEF IInv, TypeOK
  <2>2. Stage(r)' = Stage(r)
    BY <1>2, <1>3, <2>1, StageCasesNext
  <2> QED
    BY <1>1, <2>2, StutterRefines
<1> QED
  BY <1>4, <1>5, <1>6

LEMMA RespondRefines ==
    ASSUME IInv, IInv', NEW r \in Numbers, Respond(r)
    PROVE  Lifecycle!Answer(r) \/ Lifecycle!Fail(r)
<1> USE DEF Respond, At, Move
<1>1. UNCHANGED request /\ \A q \in Numbers \ {r} : Stage(q)' = Stage(q)
  BY WorkerFrame DEF IInv, TypeOK
<1>2. Stage(r) \in {"decided", "overtaken"}
  BY StageCases
<1>3. phase'[r] = "record" /\ outcome'[r] \in {"answered", "failed"}
  BY DEF IInv, TypeOK
<1>4. Lifecycle!Become(r, "answered") \/ Lifecycle!Become(r, "failed")
  BY <1>1, <1>3, StageCasesNext, BecomeRefines
<1> QED
  BY <1>2, <1>4 DEF Lifecycle!Answer, Lifecycle!Fail

LEMMA ProviderReturnsRefines ==
    ASSUME IInv, IInv', NEW r \in Numbers, NEW x, ProviderReturns(r, x)
    PROVE  UNCHANGED Lifecycle!vars
<1> USE DEF ProviderReturns, At, Move
<1>1. UNCHANGED request /\ \A q \in Numbers \ {r} : Stage(q)' = Stage(q)
  BY WorkerFrame DEF IInv, TypeOK
<1>2. phase'[r] = "context" /\ cancelled' = cancelled
  BY DEF IInv, TypeOK, UnchangedByWorker, stateVars
<1>3. Stage(r)' = Stage(r)
  BY <1>2, StageCases, StageCasesNext
<1> QED
  BY <1>1, <1>3, StutterRefines

LEMMA CheckDismissalRefines ==
    ASSUME IInv, IInv', NEW r \in Numbers, CheckDismissal(r)
    PROVE  UNCHANGED Lifecycle!vars
<1> USE DEF CheckDismissal, At, Move
<1>1. UNCHANGED request /\ \A q \in Numbers \ {r} : Stage(q)' = Stage(q)
  BY WorkerFrame DEF IInv, TypeOK
<1>2. phase'[r] = "respond" /\ cancelled' = cancelled
  BY DEF IInv, TypeOK, UnchangedByWorker, stateVars
<1>3. Stage(r)' = Stage(r)
  BY <1>2, StageCases, StageCasesNext
<1> QED
  BY <1>1, <1>3, StutterRefines

\* What happens to a request after its outcome is known is not the editor's.
LEMMA AfterwardsRefines ==
    ASSUME IInv, IInv', NEW r \in Numbers, RecordTelemetry(r) \/ ReportError(r)
    PROVE  UNCHANGED Lifecycle!vars
<1> USE DEF RecordTelemetry, ReportError, At, Move
<1>1. /\ \A q \in Numbers \ {r} : phase'[q] = phase[q]
      /\ phase[r] \in {"record", "report"} /\ phase'[r] \in {"record", "report", "finished"}
      /\ UNCHANGED outcome /\ UnchangedByWorker
  BY DEF IInv, TypeOK
<1>2. UNCHANGED request /\ \A q \in Numbers \ {r} : Stage(q)' = Stage(q)
  BY <1>1, WorkerFrame DEF IInv, TypeOK
<1>3. outcome[r] \in {"answered", "failed", "dropped"}
  BY <1>1 DEF IInv, TypeOK, Outcomes, OutcomeOnceKnown, VanishesOnlyCancelled
<1>4. Stage(r)' = Stage(r)
  BY <1>1, <1>3, StageCases, StageCasesNext
<1> QED
  BY <1>2, <1>4, StutterRefines

-----------------------------------------------------------------------------
\* The loop's other steps and the environment's move no request.
LEMMA NoRequestMoves ==
    ASSUME UNCHANGED <<request, phase, outcome, cancelled>>
    PROVE  UNCHANGED Lifecycle!vars
BY StutterRefines DEF Stage

LEMMA OtherStepsRefine ==
    ASSUME \/ ReadMessage \/ RejectUpdate
           \/ LoopStep /\ ~CancelAllRequests
           \/ Environment \/ Over \/ UNCHANGED vars
    PROVE  UNCHANGED Lifecycle!vars
<1> DEFINE Still == UNCHANGED <<request, phase, outcome, cancelled>>
<1>1. ReadMessage => Still
  BY DEF ReadMessage, ReadGreeting, ReadInvalid, ReadHealthRequest, ReadShutdown,
         ReadStateUpdate, HandleAcceptUpdate, HandleDismissUpdate, dataVars,
         ioVars, cacheVars, stateVars, workVars, beginVars
<1>2. RejectUpdate \/ (LoopStep /\ ~CancelAllRequests) => Still
  BY DEF RejectUpdate, LoopStep, ReadFailure, SendError, EndUpdates, EndCachedAnswer,
         SendHealthResponse, WaitWorkers, CloseTelemetry, dataVars, ioVars,
         stateVars, workVars, beginVars
<1>3. Environment \/ Over \/ UNCHANGED vars => Still
  BY DEF Environment, Tick, FailInput, BreakOutput, Over, vars, dataVars, ioVars,
         stateVars, workVars, beginVars
<1>4. Still
  BY <1>1, <1>2, <1>3
<1> QED
  BY <1>4, NoRequestMoves

LEMMA NextRefines ==
    ASSUME IInv, IInv', [Next]_vars
    PROVE  [Lifecycle!Next]_(Lifecycle!vars)
<1>1. CASE ReadMessage \/ Environment \/ Over \/ UNCHANGED vars
  BY <1>1, OtherStepsRefine
<1>2. CASE HandleItem
  <2>1. CASE RejectUpdate
    BY <2>1, OtherStepsRefine
  <2>2. ASSUME NEW p \in Paths, NEW c \in Contents, HandleFileUpdate(p, c)
        PROVE  Lifecycle!Next
    BY <2>2, FileUpdateRefines DEF Lifecycle!Next
  <2>3. ASSUME NEW p \in Paths, NEW o \in Offsets, AnswerFromCache(p, o) \/ StartWorker(p, o)
        PROVE  Lifecycle!Next
    BY <2>3, BeginRefines DEF Lifecycle!Next, Lifecycle!Numbers, Numbers
  <2> QED
    BY <1>2, <2>1, <2>2, <2>3 DEF HandleItem
<1>3. CASE LoopStep
  <2>1. CASE CancelAllRequests
    BY <2>1, CancelAllRefines DEF Lifecycle!Next
  <2>2. CASE ~CancelAllRequests
    BY <1>3, <2>2, OtherStepsRefine
  <2> QED
    BY <2>1, <2>2
<1>4. CASE \E r \in Numbers, x \in Texts \cup {NoText, Failure} : ProviderReturns(r, x)
  BY <1>4, ProviderReturnsRefines
<1>5. ASSUME NEW r \in Numbers, WorkerStep(r)
      PROVE  [Lifecycle!Next]_(Lifecycle!vars)
  <2>1. CASE CheckContext(r)
    BY <2>1, CheckContextRefines DEF Lifecycle!Next, Lifecycle!Numbers, Numbers
  <2>2. CASE CheckLatest(r)
    BY <2>2, CheckLatestRefines DEF Lifecycle!Next, Lifecycle!Numbers, Numbers
  <2>3. CASE Respond(r)
    BY <2>3, RespondRefines DEF Lifecycle!Next, Lifecycle!Numbers, Numbers
  <2>4. CASE CheckDismissal(r)
    BY <2>4, CheckDismissalRefines
  <2>5. CASE RecordTelemetry(r) \/ ReportError(r)
    BY <2>5, AfterwardsRefines
  <2> QED
    BY <1>5, <2>1, <2>2, <2>3, <2>4, <2>5 DEF WorkerStep
<1> QED
  BY <1>1, <1>2, <1>3, <1>4, <1>5 DEF Next

\* The session keeps what CompletionLifecycle promises: at most one current
\* request per file, answers only for requests that were current when they
\* were decided, and silence only for requests that were superseded.
THEOREM SessionImplementsLifecycle == Spec => ImplementsLifecycle
<1>1. Init => Lifecycle!Init
  BY InitRefines
<1>2. IInv /\ IInv' /\ [Next]_vars => [Lifecycle!Next]_(Lifecycle!vars)
  BY NextRefines
<1> QED
  BY <1>1, <1>2, SessionInvariant, PTL DEF Spec, ImplementsLifecycle, Lifecycle!Spec

-----------------------------------------------------------------------------
\* What the lifecycle promises: a request that begins supersedes the current
\* one of its file, and no step makes a request current again.
LEMMA LifecycleKeepsOneCurrent ==
    ASSUME Lifecycle!OneCurrent, [Lifecycle!Next]_(Lifecycle!vars)
    PROVE  Lifecycle!OneCurrent'
<1> DEFINE file == [r \in Numbers |-> request[r].path]
           stage == [r \in Numbers |-> Stage(r)]
           Current(r) == stage[r] = "current"
<1>1. SUFFICES ASSUME NEW q \in Numbers, NEW r \in Numbers, Current(q)', Current(r)',
                      file'[q] = file'[r]
               PROVE  q = r
  BY DEF Lifecycle!OneCurrent, Lifecycle!Numbers, Numbers
<1>2. ASSUME NEW b \in Numbers, NEW p \in Paths, NEW st \in {"current", "decided"},
             Lifecycle!Begin(b, p, st)
      PROVE  q = r
  <2>1. /\ file' = [file EXCEPT ![b] = p]
        /\ stage' = [a \in Numbers |-> IF a = b THEN st ELSE Lifecycle!After(a, {p})]
    BY <1>2 DEF Lifecycle!Begin, Lifecycle!Numbers, Numbers
  <2>2. \A a \in Numbers \ {b} : Current(a)' => Current(a) /\ file'[a] = file[a] /\ file[a] # p
    BY <2>1 DEF Lifecycle!After
  <2>3. file'[b] = p
    BY <2>1
  <2> QED
    BY <1>1, <2>2, <2>3 DEF Lifecycle!OneCurrent, Lifecycle!Numbers, Numbers
<1>3. CASE \E ps \in SUBSET Paths : Lifecycle!Supersede(ps)
  <2>1. PICK ps \in SUBSET Paths : /\ stage' = [a \in Numbers |-> Lifecycle!After(a, ps)]
                                   /\ file' = file
    BY <1>3 DEF Lifecycle!Supersede, Lifecycle!Numbers, Numbers
  <2>2. \A a \in Numbers : Current(a)' => Current(a)
    BY <2>1 DEF Lifecycle!After
  <2> QED
    BY <1>1, <2>1, <2>2 DEF Lifecycle!OneCurrent, Lifecycle!Numbers, Numbers
<1>4. ASSUME NEW a \in Numbers,
             \/ Lifecycle!Decide(a) \/ Lifecycle!Answer(a)
             \/ Lifecycle!Fail(a) \/ Lifecycle!Drop(a)
      PROVE  q = r
  <2>1. PICK st \in {"decided", "answered", "failed", "dropped"} :
           stage' = [stage EXCEPT ![a] = st] /\ file' = file
    BY <1>4 DEF Lifecycle!Decide, Lifecycle!Answer, Lifecycle!Fail, Lifecycle!Drop,
                Lifecycle!Become
  <2>2. \A b \in Numbers : Current(b)' => Current(b)
    BY <2>1
  <2> QED
    BY <1>1, <2>1, <2>2 DEF Lifecycle!OneCurrent, Lifecycle!Numbers, Numbers
<1>5. CASE UNCHANGED Lifecycle!vars
  <2>1. stage' = stage /\ file' = file
    BY <1>5 DEF Lifecycle!vars
  <2> QED
    BY <1>1, <2>1 DEF Lifecycle!OneCurrent, Lifecycle!Numbers, Numbers
<1> QED
  BY <1>2, <1>3, <1>4, <1>5 DEF Lifecycle!Next, Lifecycle!Numbers, Numbers

\* No file ever has two requests that both may still be decided.
THEOREM OneCurrentRequest == Spec => []Lifecycle!OneCurrent
<1>1. Lifecycle!Init => Lifecycle!OneCurrent
  BY DEF Lifecycle!Init, Lifecycle!OneCurrent
<1>2. Lifecycle!OneCurrent /\ [Lifecycle!Next]_(Lifecycle!vars) => Lifecycle!OneCurrent'
  BY LifecycleKeepsOneCurrent
<1> QED
  BY <1>1, <1>2, SessionImplementsLifecycle, PTL DEF ImplementsLifecycle, Lifecycle!Spec
=============================================================================
