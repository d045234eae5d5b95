-------------------------- MODULE NvimClientProofs --------------------------
(***************************************************************************)
(* The properties of the Neovim plugin, proved for any buffers and any     *)
(* number of changes, waiting callbacks, state ids and core processes.     *)
(***************************************************************************)
EXTENDS NvimClient, FiniteSetTheorems, TLAPS

Pendings == [timer : Nat, file : BOOLEAN, expired : BOOLEAN]

\* The types of the functions among the variables, named so that a proof can
\* leave them unexpanded.
PendingMaps == [Buffers -> Pendings \cup {Nothing}]
SuggestionMaps(n) == [Buffers -> [id : 1..n, words : 1..MaxWords] \cup {Nothing}]
LatestMaps(n) == [Buffers -> 1..n \cup {Nothing}]
BufMaps(n) == [1..n -> Buffers]
SentMaps == [Buffers -> BOOLEAN]
CoreMaps == [Buffers -> Nat \cup {Nothing}]
TextMaps == [Buffers -> Nat]
Callbacks == {S \in SUBSET [timer : Nat, buf : Buffers] :
                IsFiniteSet(S) /\ Cardinality(S) <= MaxScheduled}

Typed ==
    /\ mode \in {"insert", "normal"} /\ current \in Buffers /\ text \in TextMaps
    /\ owed \in BOOLEAN /\ auto \in BOOLEAN /\ running \in BOOLEAN
    /\ seq \in 0..MaxSeq /\ bufOf \in BufMaps(seq) /\ latest \in LatestMaps(seq)
    /\ pending \in PendingMaps /\ scheduled \in Callbacks
    /\ suggestion \in SuggestionMaps(seq)
    /\ sent \in SentMaps /\ starts \in 0..MaxStarts /\ core \in CoreMaps
    /\ answerable \subseteq 1..seq /\ lapsed \subseteq Buffers

LEMMA TypedIsTypeOK == TypeOK <=> Typed
BY DEF TypeOK, Typed, PendingMaps, Pendings, SuggestionMaps, LatestMaps, BufMaps, SentMaps,
       CoreMaps, TextMaps, Callbacks

LEMMA TypedIsTypeOKNext == TypeOK' <=> Typed'
BY DEF TypeOK, Typed, PendingMaps, Pendings, SuggestionMaps, LatestMaps, BufMaps, SentMaps,
       CoreMaps, TextMaps, Callbacks

\* The bounds, one by one.
LEMMA Bounds ==
    /\ MaxScheduled \in Nat /\ MaxSeq \in Nat /\ MaxStarts \in Nat
    /\ MaxWords \in Nat /\ MaxWords > 0
BY BoundsAssumption

\* What becomes of the maps.
LEMMA EmptyMaps ==
    /\ [b \in Buffers |-> Nothing] \in PendingMaps
    /\ \A n : [b \in Buffers |-> Nothing] \in SuggestionMaps(n)
    /\ \A n : [b \in Buffers |-> Nothing] \in LatestMaps(n)
    /\ [b \in Buffers |-> Nothing] \in CoreMaps
    /\ [b \in Buffers |-> FALSE] \in SentMaps
    /\ [b \in Buffers |-> SentAfterStart(b)] \in SentMaps
    /\ [b \in Buffers |-> 0] \in TextMaps
BY DEF PendingMaps, SuggestionMaps, LatestMaps, CoreMaps, SentMaps, TextMaps, SentAfterStart

LEMMA ChangedMaps ==
    ASSUME NEW b \in Buffers
    PROVE  /\ \A f \in PendingMaps : [f EXCEPT ![b] = Nothing] \in PendingMaps
           /\ \A n : \A f \in SuggestionMaps(n) : [f EXCEPT ![b] = Nothing] \in SuggestionMaps(n)
           /\ \A f \in TextMaps : [f EXCEPT ![b] = f[b] + 1] \in TextMaps
BY DEF PendingMaps, SuggestionMaps, TextMaps

LEMMA LargerMaps ==
    ASSUME NEW n \in Nat
    PROVE  /\ SuggestionMaps(n) \subseteq SuggestionMaps(n + 1)
           /\ LatestMaps(n) \subseteq LatestMaps(n + 1)
<1>1. 1..n \subseteq 1..n + 1
  OBVIOUS
<1>2. [id : 1..n, words : 1..MaxWords] \subseteq [id : 1..n + 1, words : 1..MaxWords]
  BY <1>1
<1> QED
  BY <1>1, <1>2 DEF SuggestionMaps, LatestMaps

-----------------------------------------------------------------------------
\* The timers in use are fewer than the numbers a new one is taken from.
LEMMA NewTimerIsNew ==
    ASSUME TypeOK, NEW b \in Buffers
    PROVE  NewTimer(b) \in Nat /\ NewTimer(b) \notin TimersInUse(b)
<1> DEFINE waiting == {x \in scheduled : x.buf = b}
           timers  == {cb.timer : cb \in waiting}
           set     == IF pending[b] = Nothing THEN {} ELSE {pending[b].timer}
           fresh   == 1..MaxScheduled + 2
<1>1. IsFiniteSet(waiting) /\ Cardinality(waiting) <= MaxScheduled /\ Cardinality(waiting) \in Nat
  <2>1. waiting \in SUBSET scheduled
    OBVIOUS
  <2>2. IsFiniteSet(scheduled) /\ Cardinality(scheduled) <= MaxScheduled
    BY DEF TypeOK
  <2> HIDE DEF waiting
  <2>3. IsFiniteSet(waiting) /\ Cardinality(waiting) <= Cardinality(scheduled)
    BY <2>1, <2>2, FS_Subset
  <2>4. Cardinality(waiting) \in Nat /\ Cardinality(scheduled) \in Nat
    BY <2>2, <2>3, FS_CardinalityType
  <2> QED
    BY <2>2, <2>3, <2>4, Bounds
<1>2. IsFiniteSet(timers) /\ Cardinality(timers) <= Cardinality(waiting)
  <2> DEFINE f == [cb \in waiting |-> cb.timer]
  <2>1. f \in Surjection(waiting, timers)
    BY DEF Surjection
  <2> QED
    BY <1>1, <2>1, FS_Surjection
<1>3. IsFiniteSet(set) /\ Cardinality(set) <= 1 /\ Cardinality(set) \in Nat
  <2>1. CASE pending[b] = Nothing
    BY <2>1, FS_EmptySet
  <2>2. CASE pending[b] # Nothing
    <3>1. set = {pending[b].timer}
      BY <2>2
    <3>2. \E t : set = {t}
      BY <3>1
    <3>3. IsFiniteSet(set) /\ Cardinality(set) = 1
      <4> HIDE DEF set
      <4> QED
        BY <3>2, FS_Singleton
    <3> QED
      BY <3>3
  <2> QED
    BY <2>1, <2>2
<1>4. /\ IsFiniteSet(timers \cup set)
      /\ Cardinality(timers \cup set) \in Nat
      /\ Cardinality(timers \cup set) <= MaxScheduled + 1
  <2> HIDE DEF timers, set, waiting
  <2>1. /\ IsFiniteSet(timers \cup set)
        /\ Cardinality(timers \cup set)
             = Cardinality(timers) + Cardinality(set) - Cardinality(timers \cap set)
    BY <1>2, <1>3, FS_Union
  <2>2. IsFiniteSet(timers \cap set)
    BY <1>3, FS_Intersection
  <2>3. Cardinality(timers) \in Nat /\ Cardinality(timers \cap set) \in Nat
    BY <1>2, <2>2, FS_CardinalityType
  <2>4. Cardinality(timers) <= MaxScheduled
    BY <1>1, <1>2, <2>3, Bounds
  <2>5. Cardinality(timers \cup set) \in Nat
    BY <2>1, FS_CardinalityType
  <2> QED
    BY <1>3, <2>1, <2>3, <2>4, <2>5, Bounds
<1>5. \E t \in fresh : t \notin timers \cup set
  <2> SUFFICES ASSUME fresh \subseteq timers \cup set PROVE FALSE
    OBVIOUS
  <2> HIDE DEF timers, set
  <2>1. Cardinality(fresh) = MaxScheduled + 2
    BY FS_Interval, Bounds
  <2>2. Cardinality(fresh) <= Cardinality(timers \cup set)
    BY <1>4, FS_Subset
  <2> QED
    BY <1>4, <2>1, <2>2, Bounds
<1>6. TimersInUse(b) = timers \cup set
  BY DEF TimersInUse
<1>7. NewTimer(b) \in fresh /\ NewTimer(b) \notin TimersInUse(b)
  <2> HIDE DEF timers, set
  <2> QED
    BY <1>5, <1>6 DEF NewTimer
<1> QED
  BY <1>7, Bounds

\* A schedule sets a new timer, which the file flag of the old one outlives.
LEMMA ScheduleSets ==
    ASSUME TypeOK, NEW b \in Buffers, NEW file \in BOOLEAN, Schedule(b, file)
    PROVE  /\ pending' \in PendingMaps
           /\ pending'[b] # Nothing
           /\ pending'[b].timer \notin TimersInUse(b)
           /\ file \/ (pending[b] # Nothing /\ pending[b].file) => pending'[b].file
           /\ \A x \in Buffers \ {b} : pending'[x] = pending[x]
<1> DEFINE new == [timer |-> NewTimer(b), file |-> WithFile(b, file), expired |-> FALSE]
<1>1. pending \in PendingMaps
  BY TypedIsTypeOK DEF Typed
<1>2. WithFile(b, file) \in BOOLEAN
  BY <1>1 DEF WithFile, PendingMaps, Pendings
<1>3. new \in Pendings
  BY <1>2, NewTimerIsNew DEF Pendings
<1>4. new # Nothing
  BY <1>3, NothingAssumption DEF Pendings
<1>5. pending' = [pending EXCEPT ![b] = new]
  BY DEF Schedule
<1>6. /\ new.timer \notin TimersInUse(b)
      /\ file \/ (pending[b] # Nothing /\ pending[b].file) => new.file
  BY NewTimerIsNew DEF WithFile
<1> HIDE DEF new
<1> QED
  BY <1>1, <1>3, <1>4, <1>5, <1>6 DEF PendingMaps

\* What a schedule sets has no callback that waits.
LEMMA ScheduleKeepsOwn ==
    ASSUME TypeOK, OwnHasExpired, NEW b \in Buffers, UNCHANGED scheduled,
           \/ pending'[b] # Nothing => pending'[b].timer \notin TimersInUse(b)
           \/ pending'[b] = pending[b],
           \A x \in Buffers \ {b} : pending'[x] = pending[x] \/ pending'[x] = Nothing
    PROVE  OwnHasExpired'
<1> SUFFICES ASSUME NEW cb \in scheduled, IsOwn(cb)' PROVE pending'[cb.buf].expired
  BY DEF OwnHasExpired
<1>1. cb.buf \in Buffers
  BY DEF TypeOK
<1>2. CASE cb.buf = b
  BY <1>2 DEF IsOwn, TimersInUse, OwnHasExpired
<1>3. CASE cb.buf # b
  BY <1>1, <1>3 DEF IsOwn, OwnHasExpired
<1> QED
  BY <1>2, <1>3

\* Clearing keeps the suggestions what they are.
LEMMA ClearKeeps ==
    ASSUME TypeOK, NEW b \in Buffers, ClearSuggestion(b)
    PROVE  suggestion' \in SuggestionMaps(seq)
BY ChangedMaps, TypedIsTypeOK DEF ClearSuggestion, Typed

\* What a new id does to the ids.
LEMMA NextIdKeeps ==
    ASSUME TypeOK, NEW b \in Buffers, NextStateId(b)
    PROVE  /\ seq' \in 0..MaxSeq
           /\ latest' \in LatestMaps(seq')
           /\ bufOf' \in BufMaps(seq')
           /\ answerable' \subseteq 1..seq'
           /\ SuggestionMaps(seq) \subseteq SuggestionMaps(seq')
<1>1. MaxSeq \in Nat /\ seq \in Nat
  BY Bounds, TypedIsTypeOK DEF Typed
<1>2. seq' = seq + 1 /\ seq' \in 0..MaxSeq
  BY <1>1 DEF NextStateId
<1>3. latest' \in LatestMaps(seq')
  <2>1. latest \in LatestMaps(seq + 1)
    BY <1>1, LargerMaps, TypedIsTypeOK DEF Typed
  <2> QED
    BY <1>1, <1>2, <2>1 DEF NextStateId, LatestMaps
<1>4. bufOf' \in BufMaps(seq')
  <2>1. bufOf \in BufMaps(seq)
    BY TypedIsTypeOK DEF Typed
  <2> QED
    BY <1>1, <1>2, <2>1 DEF NextStateId, BufMaps
<1>5. answerable' \subseteq 1..seq'
  <2>1. answerable \subseteq 1..seq
    BY TypedIsTypeOK DEF Typed
  <2> QED
    BY <1>1, <1>2, <2>1 DEF NextStateId
<1>6. SuggestionMaps(seq) \subseteq SuggestionMaps(seq')
  BY <1>1, <1>2, LargerMaps
<1> QED
  BY <1>2, <1>3, <1>4, <1>5, <1>6

\* What an update sent does to the paths and the core.
LEMMA SendKeeps ==
    ASSUME TypeOK, NEW b \in Buffers, NEW file \in BOOLEAN, Sends(b, file)
    PROVE  /\ NextStateId(b) /\ lapsed' \subseteq Buffers
           /\ sent' \in SentMaps
           /\ core' \in CoreMaps
           /\ \A x \in Buffers \ {b} :
                /\ sent'[x] = sent[x] /\ core'[x] = core[x]
                /\ x \in lapsed => x \in lapsed'
           /\ file \/ ~ sent[b] => core'[b] = text[b]
           /\ core'[b] = text[b] \/ (sent[b] /\ core'[b] = core[b] /\ lapsed' = lapsed)
<1>1. text[b] \in Nat /\ lapsed \subseteq Buffers
  BY TypedIsTypeOK DEF Typed, TextMaps
<1>2. sent \in SentMaps /\ core \in CoreMaps
  BY TypedIsTypeOK DEF Typed
<1>3. sent' \in SentMaps /\ core' \in CoreMaps
  BY <1>1, <1>2 DEF Sends, SentMaps, CoreMaps
<1>4. NextStateId(b) /\ lapsed' \subseteq Buffers
  BY <1>1 DEF Sends
<1> QED
  BY <1>1, <1>2, <1>3, <1>4 DEF Sends, SentMaps, CoreMaps

\* An update that is suppressed sends nothing, and its buffer has lapsed if
\* the update had the file.
LEMMA SuppressedKeeps ==
    ASSUME TypeOK, NEW b \in Buffers, Suppressed(b)
    PROVE  /\ UNCHANGED <<seq, latest, bufOf, sent, core, answerable>>
           /\ lapsed' \subseteq Buffers
           /\ \A x \in Buffers : x \in lapsed => x \in lapsed'
           /\ pending[b] # Nothing /\ pending[b].file => b \in lapsed'
BY TypedIsTypeOK DEF Suppressed, Dropped, Typed, ids

\* What a core that is started, or not, leaves behind.
LEMMA StartKeeps ==
    ASSUME TypeOK, MaybeAutoStart \/ StartRaises \/ (StartCore /\ starts < MaxStarts)
    PROVE  /\ running' \in BOOLEAN /\ starts' \in 0..MaxStarts
           /\ sent' \in SentMaps /\ core' \in CoreMaps /\ lapsed' \subseteq Buffers
           /\ UNCHANGED <<process, lapsed>> \/ (\A b \in Buffers : ~ sent'[b])
<1>1. starts < MaxStarts => starts + 1 \in 0..MaxStarts
  BY Bounds, TypedIsTypeOK DEF Typed
<1>2. CASE UNCHANGED <<process, lapsed>>
  BY <1>2, TypedIsTypeOK DEF Typed, process
<1>3. CASE StartCore /\ starts < MaxStarts
  BY <1>1, <1>3, EmptyMaps DEF StartCore, SentAfterStart
<1>4. CASE StartRaises
  BY <1>4, EmptyMaps, TypedIsTypeOK DEF StartRaises, Typed
<1> QED
  BY <1>2, <1>3, <1>4 DEF MaybeAutoStart

-----------------------------------------------------------------------------
(* The types *)

LEMMA TypedInit == Init => TypeOK
<1> SUFFICES ASSUME Init PROVE Typed
  BY TypedIsTypeOK
<1>1. latest \in LatestMaps(0) /\ suggestion \in SuggestionMaps(0)
  BY EmptyMaps DEF Init
<1>2. bufOf \in BufMaps(0)
  BY DEF Init, BufMaps
<1>3. scheduled \in Callbacks
  BY Bounds, FS_EmptySet DEF Init, Callbacks
<1>4. pending \in PendingMaps /\ sent \in SentMaps /\ core \in CoreMaps /\ text \in TextMaps
  BY EmptyMaps DEF Init
<1>5. seq = 0 /\ seq \in 0..MaxSeq /\ starts \in 0..MaxStarts
  BY Bounds DEF Init
<1> QED
  BY <1>1, <1>2, <1>3, <1>4, <1>5 DEF Init, Typed

LEMMA TypedTimer ==
    ASSUME TypeOK, NEW b \in Buffers, TimerExpires(b)
    PROVE  pending' \in PendingMaps /\ scheduled' \in Callbacks
<1>1. pending \in PendingMaps /\ scheduled \in Callbacks
  BY TypedIsTypeOK DEF Typed
<1>2. pending[b] \in Pendings
  BY <1>1 DEF TimerExpires, PendingMaps
<1>3. pending' \in PendingMaps
  BY <1>1, <1>2 DEF TimerExpires, PendingMaps, Pendings
<1> DEFINE cb == [timer |-> pending[b].timer, buf |-> b]
<1>4. cb \in [timer : Nat, buf : Buffers]
  BY <1>2 DEF Pendings
<1>5. scheduled' = scheduled \cup {cb} /\ Cardinality(scheduled) < MaxScheduled
  BY DEF TimerExpires
<1> HIDE DEF cb
<1>6. IsFiniteSet(scheduled) /\ Cardinality(scheduled) \in Nat
  BY <1>1, FS_CardinalityType DEF Callbacks
<1>7. /\ IsFiniteSet(scheduled')
      /\ Cardinality(scheduled') = Cardinality(scheduled)
           \/ Cardinality(scheduled') = Cardinality(scheduled) + 1
  BY <1>5, <1>6, FS_AddElement
<1>8. Cardinality(scheduled') <= MaxScheduled
  BY <1>5, <1>6, <1>7, Bounds
<1> QED
  BY <1>1, <1>3, <1>4, <1>5, <1>7, <1>8 DEF Callbacks

LEMMA TypedCallbacks ==
    ASSUME TypeOK, NEW cb \in scheduled
    PROVE  scheduled \ {cb} \in Callbacks
<1>1. scheduled \in Callbacks
  BY TypedIsTypeOK DEF Typed
<1>2. IsFiniteSet(scheduled) /\ Cardinality(scheduled) <= MaxScheduled
  BY <1>1 DEF Callbacks
<1>3. IsFiniteSet(scheduled \ {cb}) /\ Cardinality(scheduled \ {cb}) <= Cardinality(scheduled)
  BY <1>2, FS_Subset
<1>4. Cardinality(scheduled) \in Nat /\ Cardinality(scheduled \ {cb}) \in Nat
  BY <1>2, <1>3, FS_CardinalityType
<1> QED
  BY <1>1, <1>2, <1>3, <1>4, Bounds DEF Callbacks

LEMMA TypedCallback ==
    ASSUME TypeOK, NEW cb \in scheduled, Callback(cb)
    PROVE  TypeOK'
<1>1. cb.buf \in Buffers /\ pending \in PendingMaps
  BY TypedIsTypeOK DEF Typed, Callbacks
<1>2. scheduled' \in Callbacks
  BY TypedCallbacks DEF Callback
<1>3. pending' \in PendingMaps
  BY <1>1, ChangedMaps DEF Callback, StopPending
<1> SUFFICES Typed'
  BY TypedIsTypeOKNext
<1>4. CASE IsOwn(cb) /\ auto /\ running
  <2>1. SendStateUpdate(cb.buf, pending[cb.buf].file)
    BY <1>4 DEF Callback
  <2>2. pending[cb.buf].file \in BOOLEAN
    BY <1>1, <1>4 DEF IsOwn, PendingMaps, Pendings
  <2>3. CASE Sends(cb.buf, pending[cb.buf].file) /\ UNCHANGED suggestion
    BY <1>1, <1>2, <1>3, <2>2, <2>3, SendKeeps, NextIdKeeps, TypedIsTypeOK
       DEF Callback, Typed, editor
  <2>4. CASE Suppressed(cb.buf) /\ ClearSuggestion(cb.buf)
    <3>1. suggestion' \in SuggestionMaps(seq)
      BY <1>1, <2>4, ClearKeeps
    <3> QED
      BY <1>1, <1>2, <1>3, <2>4, <3>1, SuppressedKeeps, TypedIsTypeOK
         DEF Callback, Typed, editor
  <2> QED
    BY <2>1, <2>3, <2>4 DEF SendStateUpdate
<1>5. CASE ~ (IsOwn(cb) /\ auto /\ running)
  BY <1>1, <1>2, <1>3, <1>5, TypedIsTypeOK DEF Callback, Typed, editor, ids, Dropped
<1> QED
  BY <1>4, <1>5

LEMMA TypedComplete ==
    ASSUME TypeOK, Complete
    PROVE  TypeOK'
<1>1. current \in Buffers /\ pending \in PendingMaps
  BY TypedIsTypeOK DEF Typed
<1>2. pending' \in PendingMaps /\ suggestion' \in SuggestionMaps(seq)
  BY <1>1, ChangedMaps, ClearKeeps DEF Complete, StopPending
<1> SUFFICES Typed'
  BY TypedIsTypeOKNext
<1>3. CASE running
  <2>1. (Sends(current, TRUE) \/ Suppressed(current)) /\ UNCHANGED <<running, starts>>
    BY <1>3 DEF Complete
  <2>2. CASE Sends(current, TRUE)
    BY <1>1, <1>2, <2>1, <2>2, SendKeeps, NextIdKeeps, TypedIsTypeOK DEF Complete, Typed, editor
  <2>3. CASE Suppressed(current)
    BY <1>1, <1>2, <2>1, <2>3, SuppressedKeeps, TypedIsTypeOK DEF Complete, Typed, editor
  <2> QED
    BY <2>1, <2>2, <2>3
<1>5. CASE ~ running /\ StartCore /\ UNCHANGED <<ids, answerable>>
  <2>1. starts < MaxStarts
    BY <1>5 DEF Complete
  <2> QED
    BY <1>1, <1>2, <1>5, <2>1, StartKeeps, TypedIsTypeOK DEF Complete, Typed, editor, ids
<1>4. CASE ~ running /\ ~ (StartCore /\ UNCHANGED <<ids, answerable>>)
  <2>1. NextStateId(current) /\ running' = TRUE /\ starts' = starts + 1 /\ starts < MaxStarts
        /\ lapsed' = {}
    BY <1>4 DEF Complete
  <2>2. sent' \in SentMaps
    BY <1>4 DEF Complete, SentMaps
  <2>3. core' \in CoreMaps
    BY <1>4, TypedIsTypeOK DEF Complete, CoreMaps, Typed, TextMaps
  <2>4. starts' \in 0..MaxStarts
    BY <2>1, Bounds, TypedIsTypeOK DEF Typed
  <2> QED
    BY <1>1, <1>2, <2>1, <2>2, <2>3, <2>4, NextIdKeeps, TypedIsTypeOK DEF Complete, Typed, editor
<1> QED
  BY <1>3, <1>4, <1>5

LEMMA TypedResponse ==
    ASSUME TypeOK, NEW id \in answerable, NEW words \in {0, MaxWords}, OnResponse(id, words)
    PROVE  suggestion' \in SuggestionMaps(seq)
<1>1. /\ id \in 1..seq /\ bufOf \in BufMaps(seq) /\ seq \in Nat
      /\ suggestion \in SuggestionMaps(seq)
  BY TypedIsTypeOK DEF Typed
<1>2. bufOf[id] \in Buffers
  BY <1>1 DEF BufMaps
<1>3. CASE suggestion' = suggestion
  BY <1>1, <1>3
<1>4. CASE suggestion' = [suggestion EXCEPT
             ![bufOf[id]] = IF words = 0 THEN Nothing ELSE [id |-> id, words |-> words]]
  <2>1. words # 0 => [id |-> id, words |-> words] \in [id : 1..seq, words : 1..MaxWords]
    BY <1>1, Bounds
  <2> QED
    BY <1>1, <1>2, <1>4, <2>1 DEF SuggestionMaps
<1> QED
  BY <1>3, <1>4 DEF OnResponse

LEMMA TypedAcceptWord ==
    ASSUME TypeOK, AcceptWord
    PROVE  suggestion' \in SuggestionMaps(seq)
<1>1. /\ suggestion \in SuggestionMaps(seq) /\ current \in Buffers /\ seq \in Nat
      /\ suggestion[current] # Nothing
  BY TypedIsTypeOK DEF Typed, AcceptWord
<1>2. suggestion[current] \in [id : 1..seq, words : 1..MaxWords]
  BY <1>1 DEF SuggestionMaps
<1>3. suggestion[current].words - 1 \in 1..MaxWords
  BY <1>2, Bounds DEF AcceptWord, WordsToSpare
<1> QED
  BY <1>1, <1>2, <1>3 DEF AcceptWord, SuggestionMaps

LEMMA TypedSwitch ==
    ASSUME TypeOK, NEW b \in Buffers, SwitchBuffer(b)
    PROVE  /\ pending' \in PendingMaps
           /\ \A x \in Buffers \ {b} : pending'[x] = pending[x] \/ pending'[x] = Nothing
           /\ \/ pending'[b] # Nothing /\ pending'[b].timer \notin TimersInUse(b)
              \/ pending'[b] = pending[b]
<1> DEFINE new == [timer |-> NewTimer(b), file |-> TRUE, expired |-> FALSE]
<1>1. pending \in PendingMaps /\ b # current /\ current \in Buffers
  BY TypedIsTypeOK DEF Typed, SwitchBuffer
<1>2. new \in Pendings
  BY NewTimerIsNew DEF Pendings
<1>3. new # Nothing
  BY <1>2, NothingAssumption DEF Pendings
<1>4. \/ pending' = [pending EXCEPT ![current] = Nothing, ![b] = new]
      \/ pending' = [pending EXCEPT ![current] = Nothing]
  BY DEF SwitchBuffer, StopPending
<1>5. new.timer \notin TimersInUse(b)
  BY NewTimerIsNew
<1> HIDE DEF new
<1> QED
  BY <1>1, <1>2, <1>3, <1>4, <1>5 DEF PendingMaps

LEMMA TypedChange ==
    ASSUME TypeOK, NEW b \in Buffers, Change(b)
    PROVE  text' \in TextMaps
BY ChangedMaps, TypedIsTypeOK DEF Change, Typed

LEMMA TypedNext == TypeOK /\ [Next]_vars => TypeOK'
<1> SUFFICES ASSUME TypeOK, [Next]_vars PROVE TypeOK'
  OBVIOUS
<1>0. Typed
  BY TypedIsTypeOK
<1>c. current \in Buffers
  BY <1>0 DEF Typed
<1>1. CASE Start
  BY <1>0, <1>1, StartKeeps, TypedIsTypeOKNext DEF Start, Typed, editor, ids, updates
<1>1a. CASE StartFails
  BY <1>0, <1>1a, StartKeeps, TypedIsTypeOKNext DEF StartFails, Typed, editor, ids, updates
<1>2. CASE Stop
  BY <1>0, <1>2, EmptyMaps, TypedIsTypeOKNext DEF Stop, Typed, editor, ids
<1>3. CASE CoreExits
  BY <1>0, <1>3, EmptyMaps, TypedIsTypeOKNext DEF CoreExits, Typed, editor, ids, updates
<1>4. ASSUME NEW b \in Buffers, TimerExpires(b) PROVE TypeOK'
  <2>1. pending' \in PendingMaps /\ scheduled' \in Callbacks
    BY <1>4, TypedTimer
  <2> QED
    BY <1>0, <1>4, <2>1, TypedIsTypeOKNext DEF TimerExpires, Typed, editor, ids, process
<1>5. ASSUME NEW b \in Buffers, SwitchBuffer(b) PROVE TypeOK'
  <2>1. pending' \in PendingMaps
    BY <1>5, TypedSwitch
  <2>2. suggestion' \in SuggestionMaps(seq)
    BY <1>c, <1>5, ClearKeeps DEF SwitchBuffer
  <2>3. MaybeAutoStart \/ StartRaises
    BY <1>5 DEF SwitchBuffer
  <2>4. /\ running' \in BOOLEAN /\ starts' \in 0..MaxStarts
        /\ sent' \in SentMaps /\ core' \in CoreMaps /\ lapsed' \subseteq Buffers
    BY <2>3, StartKeeps
  <2> QED
    BY <1>0, <1>5, <2>1, <2>2, <2>4, TypedIsTypeOKNext DEF SwitchBuffer, Typed, ids
<1>6. ASSUME NEW cb \in scheduled, Callback(cb) PROVE TypeOK'
  BY <1>6, TypedCallback
<1>7. ASSUME NEW id \in answerable, NEW words \in {0, MaxWords}, OnResponse(id, words)
      PROVE  TypeOK'
  <2>1. suggestion' \in SuggestionMaps(seq)
    BY <1>7, TypedResponse
  <2> QED
    BY <1>0, <1>7, <2>1, TypedIsTypeOKNext
       DEF OnResponse, Typed, editor, ids, updates, process
<1>8. CASE OnExpectedError
  <2>1. suggestion' \in SuggestionMaps(seq)
    BY <1>c, <1>8, ClearKeeps DEF OnExpectedError
  <2> QED
    BY <1>0, <1>8, <2>1, TypedIsTypeOKNext
       DEF OnExpectedError, Typed, editor, ids, updates, process
<1>9. CASE Complete
  BY <1>9, TypedComplete
<1>10. CASE Accept
  <2>1. suggestion' \in SuggestionMaps(seq) /\ pending' \in PendingMaps /\ text' \in TextMaps
    BY <1>c, <1>10, ClearKeeps, ScheduleSets, TypedChange DEF Accept
  <2> QED
    BY <1>0, <1>10, <2>1, TypedIsTypeOKNext DEF Accept, Typed, ids, process
<1>11. CASE AcceptWord
  <2>1. suggestion' \in SuggestionMaps(seq) /\ text' \in TextMaps
    BY <1>c, <1>11, TypedAcceptWord, TypedChange DEF AcceptWord
  <2> QED
    BY <1>0, <1>11, <2>1, TypedIsTypeOKNext DEF AcceptWord, Typed, ids, updates, process
<1>12. CASE Dismiss
  <2>1. suggestion' \in SuggestionMaps(seq)
    BY <1>c, <1>12, ClearKeeps DEF Dismiss
  <2> QED
    BY <1>0, <1>12, <2>1, TypedIsTypeOKNext DEF Dismiss, Typed, editor, ids, updates, process
<1>13. CASE Type
  <2>1. suggestion' \in SuggestionMaps(seq) /\ pending' \in PendingMaps /\ text' \in TextMaps
    BY <1>c, <1>13, ClearKeeps, ScheduleSets, TypedChange DEF Type, TextChanged
  <2> QED
    BY <1>0, <1>13, <2>1, TypedIsTypeOKNext DEF Type, Typed, ids, process
<1>14. CASE OwedEvents
  <2>1. suggestion' \in SuggestionMaps(seq) /\ pending' \in PendingMaps
    BY <1>c, <1>14, ClearKeeps, ScheduleSets DEF OwedEvents
  <2> QED
    BY <1>0, <1>14, <2>1, TypedIsTypeOKNext DEF OwedEvents, Typed, ids, process
<1>15. CASE Move
  <2>1. suggestion' \in SuggestionMaps(seq) /\ pending' \in PendingMaps
    BY <1>c, <1>15, ClearKeeps, ScheduleSets DEF Move
  <2> QED
    BY <1>0, <1>15, <2>1, TypedIsTypeOKNext DEF Move, Typed, editor, ids, process
<1>16. CASE NormalEdit
  <2>1. text' \in TextMaps
    BY <1>c, <1>16, TypedChange DEF NormalEdit
  <2> QED
    BY <1>0, <1>16, <2>1, TypedIsTypeOKNext DEF NormalEdit, Typed, ids, updates, process
<1>17. CASE InsertEnter
  <2>1. pending' \in PendingMaps
    BY <1>0, <1>c, <1>17, ScheduleSets DEF InsertEnter, Typed
  <2>2. MaybeAutoStart \/ StartRaises
    BY <1>17 DEF InsertEnter
  <2>3. /\ running' \in BOOLEAN /\ starts' \in 0..MaxStarts
        /\ sent' \in SentMaps /\ core' \in CoreMaps /\ lapsed' \subseteq Buffers
    BY <2>2, StartKeeps
  <2> QED
    BY <1>0, <1>17, <2>1, <2>3, TypedIsTypeOKNext DEF InsertEnter, Typed, ids
<1>18. CASE InsertLeave
  <2>1. suggestion' \in SuggestionMaps(seq) /\ pending' \in PendingMaps
    BY <1>0, <1>c, <1>18, ClearKeeps, ChangedMaps DEF InsertLeave, StopPending, Typed
  <2> QED
    BY <1>0, <1>18, <2>1, TypedIsTypeOKNext DEF InsertLeave, Typed, ids, process
<1>19. CASE Enable
  BY <1>0, <1>19, TypedIsTypeOKNext DEF Enable, Typed, editor, ids, updates, process
<1>20. CASE Disable
  <2>1. suggestion' \in SuggestionMaps(seq) /\ pending' \in PendingMaps
    BY <1>c, <1>20, ClearKeeps, EmptyMaps DEF Disable
  <2>2. lapsed' \subseteq Buffers
    BY <1>0, <1>20 DEF Disable, Typed, Dropped
  <2> QED
    BY <1>0, <1>20, <2>1, <2>2, TypedIsTypeOKNext DEF Disable, Typed, editor, ids, process
<1>21. CASE UNCHANGED vars
  BY <1>0, <1>21, TypedIsTypeOKNext DEF vars, Typed, editor, ids, updates, process
<1> QED
  BY <1>1, <1>1a, <1>2, <1>3, <1>4, <1>5, <1>6, <1>7, <1>8, <1>9, <1>10, <1>11, <1>12, <1>13, <1>14,
     <1>15, <1>16, <1>17, <1>18, <1>19, <1>20, <1>21 DEF Next

(* The variables keep their types, whatever the bounds: the ids that are     *)
(* latest, shown or still to be answered were handed out, and a suggestion   *)
(* that is shown has a word left to accept.                                  *)
THEOREM Types == Spec => []TypeOK
<1>1. Init => TypeOK
  BY TypedInit
<1>2. TypeOK /\ [Next]_vars => TypeOK'
  BY TypedNext
<1> QED
  BY <1>1, <1>2, PTL DEF Spec

-----------------------------------------------------------------------------
(* The paths the core knows *)

LEMMA KnownAfterSend ==
    ASSUME TypeOK, SentIsKnown, running, NEW b \in Buffers, NEW file \in BOOLEAN,
           Sends(b, file)
    PROVE  SentIsKnown'
<1>1. \A x \in Buffers : sent[x] => core[x] # Nothing
  BY DEF SentIsKnown
<1>2. text[b] # Nothing
  BY NothingAssumption, TypedIsTypeOK DEF Typed, TextMaps
<1>3. core'[b] # Nothing
  BY <1>1, <1>2, SendKeeps
<1>4. \A x \in Buffers \ {b} : sent'[x] => core'[x] # Nothing
  BY <1>1, SendKeeps
<1> QED
  BY <1>3, <1>4 DEF SentIsKnown

LEMMA KnownNext == TypeOK /\ SentIsKnown /\ [Next]_vars => SentIsKnown'
<1> SUFFICES ASSUME TypeOK, SentIsKnown, [Next]_vars PROVE SentIsKnown'
  OBVIOUS
<1>1. CASE UNCHANGED process
  BY <1>1 DEF process, SentIsKnown
<1>2. CASE Start \/ Stop \/ CoreExits \/ StartRaises
  BY <1>2 DEF Start, StartRaises, StartCore, SentAfterStart, Stop, CoreExits, SentIsKnown
<1>3. ASSUME NEW cb \in scheduled, Callback(cb) PROVE SentIsKnown'
  <2>1. CASE IsOwn(cb) /\ auto /\ running
    <3>1. cb.buf \in Buffers /\ pending[cb.buf].file \in BOOLEAN
      BY <2>1, TypedIsTypeOK DEF Typed, Callbacks, IsOwn, PendingMaps, Pendings
    <3>2. SendStateUpdate(cb.buf, pending[cb.buf].file) /\ running'
      BY <1>3, <2>1 DEF Callback
    <3>3. CASE Suppressed(cb.buf)
      BY <1>3, <3>1, <3>3, SuppressedKeeps DEF SentIsKnown, Callback
    <3> QED
      BY <2>1, <3>1, <3>2, <3>3, KnownAfterSend DEF SendStateUpdate
  <2>2. CASE ~ (IsOwn(cb) /\ auto /\ running)
    BY <1>3, <2>2 DEF Callback, SentIsKnown
  <2> QED
    BY <2>1, <2>2
<1>4. CASE Complete
  <2>1. current \in Buffers /\ \A b \in Buffers : text[b] # Nothing
    BY NothingAssumption, TypedIsTypeOK DEF Typed, TextMaps
  <2>2. CASE running /\ Sends(current, TRUE)
    BY <1>4, <2>1, <2>2, KnownAfterSend
  <2>4. CASE running /\ Suppressed(current)
    BY <1>4, <2>1, <2>4, SuppressedKeeps DEF Complete, SentIsKnown
  <2>3. CASE ~ running
    BY <1>4, <2>1, <2>3 DEF Complete, SentIsKnown, StartCore, SentAfterStart
  <2> QED
    BY <1>4, <2>2, <2>3, <2>4 DEF Complete
<1>5. CASE MaybeAutoStart
  BY <1>1, <1>5 DEF MaybeAutoStart, StartCore, SentAfterStart, SentIsKnown, process
<1>6. [Next]_vars => \/ UNCHANGED process \/ Start \/ Stop \/ CoreExits \/ Complete
                     \/ StartRaises \/ MaybeAutoStart \/ \E cb \in scheduled : Callback(cb)
  BY DEF Next, vars, StartFails, TimerExpires, SwitchBuffer, OnResponse, OnExpectedError, Accept, AcceptWord,
         Dismiss, Type, OwedEvents, Move, NormalEdit, InsertEnter, InsertLeave, Enable, Disable
<1> QED
  BY <1>1, <1>2, <1>3, <1>4, <1>5, <1>6

(* A running core has a text of every path the plugin takes for sent.        *)
THEOREM KnowsWhatIsSent == Spec => []SentIsKnown
<1>1. Init => TypeOK /\ SentIsKnown
  BY TypedInit DEF Init, SentIsKnown
<1>2. TypeOK /\ SentIsKnown /\ [Next]_vars => TypeOK' /\ SentIsKnown'
  BY TypedNext, KnownNext
<1> QED
  BY <1>1, <1>2, PTL DEF Spec

-----------------------------------------------------------------------------
(* The timers *)

LEMMA ExpiredNext == TypeOK /\ OwnHasExpired /\ [Next]_vars => OwnHasExpired'
<1> SUFFICES ASSUME TypeOK, OwnHasExpired, [Next]_vars PROVE OwnHasExpired'
  OBVIOUS
<1>c. current \in Buffers /\ pending \in PendingMaps
  BY TypedIsTypeOK DEF Typed
<1>b. \A cb \in scheduled : cb.buf \in Buffers
  BY TypedIsTypeOK DEF Typed, Callbacks
\* No update is set and no callback is added.
<1>1. CASE /\ \A x \in Buffers : pending'[x] = pending[x] \/ pending'[x] = Nothing
           /\ scheduled' \subseteq scheduled
  BY <1>1, <1>b DEF OwnHasExpired, IsOwn
<1>2. ASSUME NEW b \in Buffers, TimerExpires(b) PROVE OwnHasExpired'
  <2>1. pending[b] \in Pendings /\ pending[b] # Nothing
    BY <1>c, <1>2 DEF TimerExpires, PendingMaps
  <2>2. pending' = [pending EXCEPT ![b] = [pending[b] EXCEPT !.expired = TRUE]]
    BY <1>2 DEF TimerExpires
  <2>3. /\ pending'[b].expired
        /\ \A x \in Buffers \ {b} : pending'[x] = pending[x]
    BY <1>c, <2>1, <2>2 DEF PendingMaps, Pendings
  <2>4. \A cb \in scheduled' : cb \in scheduled \/ cb.buf = b
    BY <1>2 DEF TimerExpires
  <2> SUFFICES ASSUME NEW cb \in scheduled', IsOwn(cb)', cb.buf # b
               PROVE  pending'[cb.buf].expired
    BY <2>3 DEF OwnHasExpired
  <2> QED
    BY <1>b, <2>3, <2>4 DEF OwnHasExpired, IsOwn
<1>3. ASSUME NEW file \in BOOLEAN, Schedule(current, file), UNCHANGED scheduled
      PROVE  OwnHasExpired'
  BY <1>c, <1>3, ScheduleSets, ScheduleKeepsOwn
<1>4. ASSUME NEW b \in Buffers, SwitchBuffer(b) PROVE OwnHasExpired'
  <2>1. UNCHANGED scheduled
    BY <1>4 DEF SwitchBuffer
  <2> QED
    BY <1>4, <2>1, TypedSwitch, ScheduleKeepsOwn
<1>5. CASE Accept \/ Type \/ OwedEvents \/ Move \/ InsertEnter
  <2>1. \/ \E file \in BOOLEAN : Schedule(current, file) /\ UNCHANGED scheduled
        \/ UNCHANGED updates
    BY <1>5 DEF Accept, Type, TextChanged, OwedEvents, Move, InsertEnter, updates
  <2> QED
    BY <1>1, <1>3, <2>1 DEF updates
<1>6. CASE Stop \/ Disable \/ Complete \/ InsertLeave \/ (\E cb \in scheduled : Callback(cb))
  <2>1. \A b \in Buffers : StopPending(b) =>
            \A x \in Buffers : pending'[x] = pending[x] \/ pending'[x] = Nothing
    BY <1>c DEF StopPending, PendingMaps
  <2>2. CASE Stop \/ Disable
    BY <1>1, <2>2 DEF Stop, Disable
  <2>3. CASE Complete \/ InsertLeave
    BY <1>c, <1>1, <2>1, <2>3 DEF Complete, InsertLeave
  <2>4. ASSUME NEW cb \in scheduled, Callback(cb) PROVE OwnHasExpired'
    BY <1>b, <1>1, <2>1, <2>4 DEF Callback
  <2> QED
    BY <1>6, <2>2, <2>3, <2>4
<1>7. CASE Start \/ StartFails \/ CoreExits \/ OnExpectedError \/ AcceptWord \/ Dismiss \/ NormalEdit \/ Enable
           \/ (\E id \in answerable, words \in {0, MaxWords} : OnResponse(id, words))
           \/ UNCHANGED vars
  BY <1>1, <1>7 DEF Start, StartFails, CoreExits, OnExpectedError, AcceptWord, Dismiss, NormalEdit, Enable,
                    OnResponse, vars, updates
<1> QED
  BY <1>2, <1>4, <1>5, <1>6, <1>7 DEF Next

(* The waiting callback of a timer that was replaced never sends the update  *)
(* of its successor: an update goes out after the whole debounce.            *)
THEOREM QuietBeforeSend == Spec => SendsAfterQuiet
<1>1. Init => TypeOK /\ OwnHasExpired
  BY TypedInit DEF Init, OwnHasExpired
<1>2. TypeOK /\ OwnHasExpired /\ [Next]_vars => TypeOK' /\ OwnHasExpired'
  BY TypedNext, ExpiredNext
<1>3. OwnHasExpired =>
        \A cb \in scheduled :
            Callback(cb) /\ latest'[cb.buf] # latest[cb.buf] => pending[cb.buf].expired
  BY DEF OwnHasExpired, Callback, ids
<1> QED
  BY <1>1, <1>2, <1>3, PTL DEF Spec, SendsAfterQuiet

-----------------------------------------------------------------------------
(* The text that is typed *)

LEMMA PendingNext == TypeOK /\ TypedTextIsPending /\ [Next]_vars => TypedTextIsPending'
<1> SUFFICES ASSUME TypeOK, TypedTextIsPending, [Next]_vars,
                    mode' = "insert", running', core'[current'] # text'[current'], ~ owed',
                    sent'[current'], current' \notin lapsed'
             PROVE  pending'[current'] # Nothing /\ pending'[current'].file
  BY DEF TypedTextIsPending
<1>c. /\ current \in Buffers /\ pending \in PendingMaps /\ sent \in SentMaps
      /\ core \in CoreMaps /\ text \in TextMaps
  BY TypedIsTypeOK DEF Typed
\* The update that was pending still is, with its file.
<1>k. ASSUME mode = "insert", running, core[current] # text[current], ~ owed, sent[current],
             current \notin lapsed
      PROVE  pending[current] # Nothing /\ pending[current].file
  BY <1>k DEF TypedTextIsPending
<1>1. CASE Start \/ StartFails \/ Stop \/ CoreExits
  BY <1>1, <1>c DEF Start, StartFails, StartRaises, StartCore, SentAfterStart, Stop, CoreExits, editor
<1>2. ASSUME NEW b \in Buffers, TimerExpires(b)
      PROVE  pending'[current'] # Nothing /\ pending'[current'].file
  <2>1. UNCHANGED <<mode, current, text, owed, sent, running, core, lapsed>>
    BY <1>2 DEF TimerExpires, editor, process
  <2>2. pending[current] # Nothing /\ pending[current].file
    BY <1>k, <2>1
  <2>3. pending' = [pending EXCEPT ![b] = [pending[b] EXCEPT !.expired = TRUE]]
    BY <1>2 DEF TimerExpires
  <2>4. pending[b] \in Pendings
    BY <1>2, <1>c DEF TimerExpires, PendingMaps
  <2>5. [pending[b] EXCEPT !.expired = TRUE] # Nothing
    BY <2>4, NothingAssumption DEF Pendings
  <2> QED
    BY <1>c, <2>1, <2>2, <2>3, <2>4, <2>5 DEF PendingMaps, Pendings
<1>3. ASSUME NEW b \in Buffers, SwitchBuffer(b) PROVE FALSE
  BY <1>3 DEF SwitchBuffer
<1>4. ASSUME NEW cb \in scheduled, Callback(cb)
      PROVE  pending'[current'] # Nothing /\ pending'[current'].file
  <2>0. UNCHANGED <<mode, current, text, owed, running>> /\ cb.buf \in Buffers
    BY <1>4, TypedIsTypeOK DEF Callback, editor, Typed, Callbacks
  <2>1. CASE ~ IsOwn(cb)
    BY <1>k, <1>4, <2>0, <2>1 DEF Callback
  <2>2. CASE IsOwn(cb) /\ auto /\ running
    <3>1. SendStateUpdate(cb.buf, pending[cb.buf].file)
          /\ pending' = [pending EXCEPT ![cb.buf] = Nothing]
      BY <1>4, <2>2 DEF Callback, StopPending
    <3>2. pending[cb.buf] \in Pendings
      BY <1>c, <2>0, <2>2 DEF IsOwn, PendingMaps
    <3>5. CASE Suppressed(cb.buf)
      <4>1. UNCHANGED <<sent, core>> /\ (current \in lapsed => current \in lapsed')
            /\ (pending[cb.buf].file => cb.buf \in lapsed')
        BY <1>c, <2>0, <2>2, <3>5, SuppressedKeeps DEF IsOwn
      <4>2. pending[current] # Nothing /\ pending[current].file
        BY <1>c, <1>k, <2>0, <4>1
      <4>3. cb.buf # current
        BY <2>0, <4>1, <4>2
      <4> QED
        BY <1>c, <2>0, <3>1, <4>2, <4>3 DEF PendingMaps
    <3>3. CASE Sends(cb.buf, pending[cb.buf].file) /\ cb.buf = current
      <4>1. sent[current] /\ core'[current] = core[current] /\ lapsed' = lapsed
            /\ ~ pending[current].file
        BY <2>0, <3>1, <3>2, <3>3, SendKeeps DEF Pendings
      <4> QED
        BY <1>k, <2>0, <4>1
    <3>4. CASE Sends(cb.buf, pending[cb.buf].file) /\ cb.buf # current
      <4>1. /\ sent'[current] = sent[current] /\ core'[current] = core[current]
            /\ current \in lapsed => current \in lapsed'
        BY <1>c, <2>0, <3>1, <3>2, <3>4, SendKeeps DEF Pendings
      <4> QED
        BY <1>c, <1>k, <2>0, <3>1, <3>4, <4>1 DEF PendingMaps
    <3> QED
      BY <3>1, <3>3, <3>4, <3>5 DEF SendStateUpdate
  <2>3. CASE IsOwn(cb) /\ ~ (auto /\ running)
    <3>1. /\ pending' = [pending EXCEPT ![cb.buf] = Nothing]
          /\ UNCHANGED <<sent, core>> /\ ~ auto
          /\ lapsed' = lapsed \cup Dropped(cb.buf)
      BY <1>4, <2>0, <2>3 DEF Callback, StopPending
    <3>2. pending[current] # Nothing /\ pending[current].file
      BY <1>k, <2>0, <3>1
    <3>3. cb.buf # current
      BY <2>0, <3>1, <3>2 DEF Dropped
    <3> QED
      BY <1>c, <2>0, <3>1, <3>2, <3>3 DEF PendingMaps
  <2> QED
    BY <2>1, <2>2, <2>3
<1>5. CASE Complete
  <2>1. UNCHANGED <<current, text>>
    BY <1>5 DEF Complete, editor
  <2>2. CASE running /\ Sends(current, TRUE)
    BY <1>5, <1>c, <2>1, <2>2, SendKeeps
  <2>3. CASE ~ running
    BY <1>5, <1>c, <2>1, <2>3 DEF Complete, StartCore, SentAfterStart
  <2>4. CASE running /\ Suppressed(current)
    <3>1. /\ UNCHANGED <<mode, owed, running, sent, core>> /\ (current \in lapsed => current \in lapsed')
          /\ (pending[current] # Nothing /\ pending[current].file => current \in lapsed')
      BY <1>5, <1>c, <2>4, SuppressedKeeps DEF Complete, editor
    <3> QED
      BY <1>k, <2>1, <3>1
  <2> QED
    BY <1>5, <2>2, <2>3, <2>4 DEF Complete
<1>6. CASE Accept \/ AcceptWord
  BY <1>6 DEF Accept, AcceptWord
\* A key that changes the text, or enters the mode, sets an update with the file.
<1>7. CASE Type \/ InsertEnter
  <2>1. Schedule(current, TRUE) /\ current' = current
    BY <1>7 DEF Type, TextChanged, InsertEnter, StartRaises
  <2> QED
    BY <1>c, <2>1, ScheduleSets
<1>8. CASE OwedEvents
  <2>1. Schedule(current, TRUE) /\ current' = current
    BY <1>8 DEF OwedEvents
  <2> QED
    BY <1>c, <2>1, ScheduleSets
\* A cursor that moves keeps the file of the update it replaces.
<1>9. CASE Move
  <2>1. Schedule(current, FALSE)
        /\ UNCHANGED <<mode, current, text, owed, sent, running, core, lapsed>>
    BY <1>9 DEF Move, editor, process
  <2>2. pending[current] # Nothing /\ pending[current].file
    BY <1>k, <2>1
  <2> QED
    BY <1>c, <2>1, <2>2, ScheduleSets
<1>10. CASE NormalEdit \/ InsertLeave
  BY <1>10 DEF NormalEdit, InsertLeave
<1>11. CASE Disable
  <2>1. UNCHANGED <<mode, current, text, owed, sent, running, core>>
    BY <1>11 DEF Disable, editor, process
  <2>2. lapsed' = lapsed \cup UNION {Dropped(b) : b \in Buffers}
    BY <1>11 DEF Disable
  <2>3. pending[current] # Nothing /\ pending[current].file
    BY <1>k, <2>1, <2>2
  <2>4. current \in Dropped(current)
    BY <2>3 DEF Dropped
  <2> QED
    BY <1>c, <2>1, <2>2, <2>4
<1>12. CASE OnExpectedError \/ Dismiss \/ Enable \/ UNCHANGED vars
            \/ (\E id \in answerable, words \in {0, MaxWords} : OnResponse(id, words))
  <2>1. UNCHANGED <<mode, current, text, owed, sent, running, core, lapsed, pending>>
    BY <1>12 DEF OnExpectedError, Dismiss, Enable, OnResponse, vars, editor, updates, process
  <2> QED
    BY <1>k, <2>1
<1> QED
  BY <1>1, <1>2, <1>3, <1>4, <1>5, <1>6, <1>7, <1>8, <1>9, <1>10, <1>11, <1>12 DEF Next

(* While one types, a text the running core does not have is always about to *)
(* be sent: nothing that happens within the debounce makes it be forgotten,  *)
(* except switching the suggestions off and an update that is suppressed,    *)
(* for want of a name or because the cursor is in a comment or a string.     *)
THEOREM TypedTextIsSent == Spec => []TypedTextIsPending
<1>1. Init => TypeOK /\ TypedTextIsPending
  BY TypedInit DEF Init, TypedTextIsPending
<1>2. TypeOK /\ TypedTextIsPending /\ [Next]_vars => TypeOK' /\ TypedTextIsPending'
  BY TypedNext, PendingNext
<1> QED
  BY <1>1, <1>2, PTL DEF Spec
=============================================================================
