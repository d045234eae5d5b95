------------------------- MODULE VSCodeClientProofs -------------------------
(***************************************************************************)
(* The safety properties of the VS Code client, proved for any number of   *)
(* processes, completions and health requests.                             *)
(***************************************************************************)
EXTENDS VSCodeClient, SequenceTheorems, TLAPS

\* What is pending was sent to the process held.
PendingOfItsCore ==
    /\ \A id \in pending : completions[id].core = process
    /\ pendingHealth # None => healths[pendingHealth].core = process

\* The three are inductive only together: a promise that waits is what the
\* next request, process or timeout may meet.
Inv == TypeOK /\ PendingOfItsCore /\ NobodyForgotten

-----------------------------------------------------------------------------
(* Promises and lists of them. *)

LEMMA AskedIsPromise ==
    ASSUME NEW c \in Nat \ {None}
    PROVE  /\ Asked(c) \in Promises
           /\ Asked(c).core = c /\ Asked(c).timer /\ Asked(c).outcome = "waiting"
BY DEF Asked, Promises

LEMMA SettledIsPromise ==
    ASSUME NEW promise \in Promises, NEW outcome \in {"answered", "failed"}
    PROVE  /\ Settled(promise, outcome) \in Promises
           /\ Settled(promise, outcome).core = promise.core
           /\ ~ Settled(promise, outcome).timer
           /\ Settled(promise, outcome).outcome = outcome
BY DEF Settled, Promises

LEMMA HeardIsPromise ==
    ASSUME NEW promise \in Promises, NEW heard \in BOOLEAN
    PROVE  /\ [promise EXCEPT !.heard = heard] \in Promises
           /\ [promise EXCEPT !.heard = heard].core = promise.core
           /\ [promise EXCEPT !.heard = heard].timer = promise.timer
           /\ [promise EXCEPT !.heard = heard].outcome = promise.outcome
BY DEF Promises

LEMMA SameLength ==
    ASSUME NEW S, NEW s \in Seq(S), NEW t,
           t = [i \in DOMAIN s |-> t[i]], \A i \in DOMAIN s : t[i] \in S
    PROVE  t \in Seq(S) /\ DOMAIN t = DOMAIN s /\ Len(t) = Len(s)
<1>1. Len(s) \in Nat /\ DOMAIN s = 1 .. Len(s)
  OBVIOUS
<1>2. t \in [1 .. Len(s) -> S]
  BY <1>1
<1> QED
  BY <1>1, <1>2

LEMMA OneLonger ==
    ASSUME NEW S, NEW s \in Seq(S), NEW e \in S
    PROVE  /\ Append(s, e) \in Seq(S) /\ Len(s) + 1 \in DOMAIN Append(s, e)
           /\ DOMAIN Append(s, e) = DOMAIN s \cup {Len(s) + 1} /\ Len(s) + 1 \notin DOMAIN s
           /\ \A i \in DOMAIN s : Append(s, e)[i] = s[i]
           /\ Append(s, e)[Len(s) + 1] = e
BY AppendProperties

\* The cores of the promises are no None.
LEMMA CoresOfPromises ==
    ASSUME TypeOK
    PROVE  /\ \A id \in DOMAIN completions : completions[id] \in Promises
           /\ \A h \in DOMAIN healths : healths[h] \in Promises
           /\ \A id \in DOMAIN completions : completions[id].core # None
           /\ \A h \in DOMAIN healths : healths[h].core # None
<1>1. completions \in Seq(Promises) /\ healths \in Seq(Promises)
  BY DEF TypeOK
<1>2. \A id \in DOMAIN completions : completions[id] \in Promises
  BY <1>1
<1>3. \A h \in DOMAIN healths : healths[h] \in Promises
  BY <1>1
<1>4. \A promise \in Promises : promise.core # None
  BY DEF Promises
<1> QED
  BY <1>2, <1>3, <1>4

\* What is pending waits for a process that is held.
LEMMA NoneIsNoCore ==
    ASSUME Inv, process = None
    PROVE  pending = {} /\ pendingHealth = None
<1>1. TypeOK /\ PendingOfItsCore
  BY DEF Inv
<1>2. pending \subseteq DOMAIN completions /\ pendingHealth \in {None} \cup DOMAIN healths
  BY <1>1 DEF TypeOK
<1> QED
  BY <1>1, <1>2, CoresOfPromises DEF PendingOfItsCore

-----------------------------------------------------------------------------
(* What the steps have in common. *)

LEMMA RejectAllSettles ==
    ASSUME Inv, RejectAll
    PROVE  /\ completions' \in Seq(Promises) /\ healths' \in Seq(Promises)
           /\ pending' = {} /\ pendingHealth' = None
           /\ PendingOfItsCore' /\ NobodyForgotten'
<1>1. TypeOK /\ NobodyForgotten
  BY DEF Inv
<1>2. completions \in Seq(Promises) /\ healths \in Seq(Promises)
  BY <1>1 DEF TypeOK
<1>3. pending' = {} /\ pendingHealth' = None
  BY DEF RejectAll
<1>4. /\ completions' \in Seq(Promises) /\ DOMAIN completions' = DOMAIN completions
      /\ \A id \in DOMAIN completions :
            ~ completions'[id].timer /\ completions'[id].outcome # "waiting"
  <2>1. completions' = [id \in DOMAIN completions |->
            IF id \in pending THEN Settled(completions[id], "failed") ELSE completions[id]]
    BY DEF RejectAll
  <2>2. ASSUME NEW id \in DOMAIN completions
        PROVE  /\ completions'[id] \in Promises
               /\ ~ completions'[id].timer /\ completions'[id].outcome # "waiting"
    <3>1. completions[id] \in Promises
      BY <1>1, CoresOfPromises
    <3>2. completions'[id] = IF id \in pending THEN Settled(completions[id], "failed")
                                               ELSE completions[id]
      BY <2>1
    <3>3. id \notin pending => ~ completions[id].timer /\ completions[id].outcome # "waiting"
      BY <1>1 DEF NobodyForgotten
    <3> QED
      BY <3>1, <3>2, <3>3, SettledIsPromise
  <2>3. completions' = [id \in DOMAIN completions |-> completions'[id]]
    BY <2>1
  <2> QED
    BY <1>2, <2>2, <2>3, SameLength
<1>5. /\ healths' \in Seq(Promises) /\ DOMAIN healths' = DOMAIN healths
      /\ \A h \in DOMAIN healths : healths'[h].timer <=> healths'[h].outcome = "waiting"
  <2>1. healths' = [h \in DOMAIN healths |->
            IF h = pendingHealth THEN Settled(healths[h], "failed") ELSE healths[h]]
    BY DEF RejectAll
  <2>2. ASSUME NEW h \in DOMAIN healths
        PROVE  /\ healths'[h] \in Promises
               /\ healths'[h].timer <=> healths'[h].outcome = "waiting"
    <3>1. healths[h] \in Promises
      BY <1>1, CoresOfPromises
    <3>2. healths'[h] = IF h = pendingHealth THEN Settled(healths[h], "failed") ELSE healths[h]
      BY <2>1
    <3>3. healths[h].timer <=> healths[h].outcome = "waiting"
      BY <1>1 DEF NobodyForgotten
    <3> QED
      BY <3>1, <3>2, <3>3, SettledIsPromise
  <2>3. healths' = [h \in DOMAIN healths |-> healths'[h]]
    BY <2>1
  <2> QED
    BY <1>2, <2>2, <2>3, SameLength
<1>6. None \notin DOMAIN healths'
  BY <1>5 DEF None
<1>7. PendingOfItsCore'
  BY <1>3 DEF PendingOfItsCore
<1>8. NobodyForgotten'
  BY <1>3, <1>4, <1>5, <1>6 DEF NobodyForgotten
<1> QED
  BY <1>3, <1>4, <1>5, <1>7, <1>8

\* The process held after EnsureStarted is a core, the old one if something
\* waits for it.
LEMMA StartedIsCore ==
    ASSUME Inv, EnsureStarted
    PROVE  /\ cores' \in Seq({"running", "gone", "broken", "failed"})
           /\ process' \in DOMAIN cores' /\ process' \in Nat \ {None}
           /\ process' = process \/ (pending = {} /\ pendingHealth = None)
<1>1. /\ cores \in Seq({"running", "gone", "broken", "failed"})
      /\ process \in {None} \cup DOMAIN cores
  BY DEF Inv, TypeOK
<1>2. CASE process # None /\ UNCHANGED <<process, cores>>
  <2>1. DOMAIN cores \subseteq Nat \ {None}
    BY <1>1 DEF None
  <2>2. process' = process /\ cores' = cores
    BY <1>2
  <2>3. process \in DOMAIN cores
    BY <1>1, <1>2
  <2> QED
    BY <1>1, <2>1, <2>2, <2>3
<1>3. CASE process = None /\ StartProcess
  <2>1. PICK state \in {"running", "broken"} : cores' = Append(cores, state)
    BY <1>3 DEF StartProcess
  <2>2. process' = Len(cores) + 1 /\ Len(cores) \in Nat
    BY <1>1, <1>3 DEF StartProcess
  <2>3. /\ cores' \in Seq({"running", "gone", "broken", "failed"})
        /\ Len(cores) + 1 \in DOMAIN cores'
    BY <1>1, <2>1, OneLonger
  <2>4. pending = {} /\ pendingHealth = None
    BY <1>3, NoneIsNoCore
  <2> QED
    BY <2>2, <2>3, <2>4 DEF None
<1> QED
  BY <1>2, <1>3 DEF EnsureStarted

-----------------------------------------------------------------------------
(* The steps, one by one. *)

LEMMA CompleteKeeps ==
    ASSUME Inv, Complete
    PROVE  Inv'
<1>1. TypeOK /\ PendingOfItsCore /\ NobodyForgotten
  BY DEF Inv
<1>2. /\ cores' \in Seq({"running", "gone", "broken", "failed"})
      /\ process' \in DOMAIN cores' /\ process' \in Nat \ {None}
      /\ process' = process \/ (pending = {} /\ pendingHealth = None)
  BY StartedIsCore DEF Complete
<1> DEFINE asked == Asked(process')
           new == Len(completions) + 1
<1>3. /\ completions' = Append(completions, asked) /\ pending' = pending \cup {new}
      /\ UNCHANGED <<healths, pendingHealth>>
  BY DEF Complete
<1>4. asked \in Promises /\ asked.core = process' /\ asked.timer /\ asked.outcome = "waiting"
  BY <1>2, AskedIsPromise
<1>5. completions \in Seq(Promises)
  BY <1>1 DEF TypeOK
<1> HIDE DEF asked
<1>6. /\ completions' \in Seq(Promises) /\ new \in DOMAIN completions'
      /\ DOMAIN completions' = DOMAIN completions \cup {new} /\ new \notin DOMAIN completions
      /\ \A id \in DOMAIN completions : completions'[id] = completions[id]
      /\ completions'[new] = asked
  BY <1>3, <1>4, <1>5, OneLonger
<1> HIDE DEF new
<1>7. TypeOK'
  BY <1>1, <1>2, <1>3, <1>6 DEF TypeOK
<1>8. pending \subseteq DOMAIN completions
  BY <1>1 DEF TypeOK
<1>9. PendingOfItsCore'
  BY <1>1, <1>2, <1>3, <1>4, <1>6, <1>8 DEF PendingOfItsCore
<1>10. NobodyForgotten'
  BY <1>1, <1>3, <1>4, <1>6, <1>8 DEF NobodyForgotten
<1> QED
  BY <1>7, <1>9, <1>10 DEF Inv

LEMMA HealthKeeps ==
    ASSUME Inv, Health
    PROVE  Inv'
<1>1. TypeOK /\ PendingOfItsCore /\ NobodyForgotten
  BY DEF Inv
<1>2. /\ cores' \in Seq({"running", "gone", "broken", "failed"})
      /\ process' \in DOMAIN cores' /\ process' \in Nat \ {None}
      /\ process' = process \/ (pending = {} /\ pendingHealth = None)
  BY StartedIsCore DEF Health
<1> DEFINE asked == Asked(process')
           new == Len(healths) + 1
<1>3. /\ healths' = Append(healths, asked) /\ pendingHealth' = new
      /\ UNCHANGED <<completions, pending>>
  BY DEF Health
<1>4. asked \in Promises /\ asked.core = process' /\ asked.timer /\ asked.outcome = "waiting"
  BY <1>2, AskedIsPromise
<1>5. healths \in Seq(Promises)
  BY <1>1 DEF TypeOK
<1> HIDE DEF asked
<1>6. /\ healths' \in Seq(Promises) /\ new \in DOMAIN healths'
      /\ DOMAIN healths' = DOMAIN healths \cup {new} /\ new \notin DOMAIN healths
      /\ \A h \in DOMAIN healths : healths'[h] = healths[h]
      /\ healths'[new] = asked
  BY <1>3, <1>4, <1>5, OneLonger
<1> HIDE DEF new
<1>7. TypeOK'
  BY <1>1, <1>2, <1>3, <1>6 DEF TypeOK
<1>8. PendingOfItsCore'
  BY <1>1, <1>2, <1>3, <1>4, <1>6 DEF PendingOfItsCore
<1>9. NobodyForgotten'
  BY <1>1, <1>3, <1>4, <1>6 DEF NobodyForgotten
<1> QED
  BY <1>7, <1>8, <1>9 DEF Inv

\* A completion that is settled leaves the map; the others stay as they are.
LEMMA OneSettledKeeps ==
    ASSUME Inv, NEW id \in DOMAIN completions, NEW promise \in Promises,
           promise.core = completions[id].core,
           ~ promise.timer, promise.outcome # "waiting",
           completions' = [completions EXCEPT ![id] = promise],
           pending' = pending \ {id},
           UNCHANGED <<process, cores, healths, pendingHealth>>
    PROVE  Inv'
<1>1. TypeOK /\ PendingOfItsCore /\ NobodyForgotten
  BY DEF Inv
<1>2. completions \in Seq(Promises) /\ pending \subseteq DOMAIN completions
  BY <1>1 DEF TypeOK
<1>3. /\ completions' \in Seq(Promises) /\ DOMAIN completions' = DOMAIN completions
      /\ completions'[id] = promise
      /\ \A i \in DOMAIN completions : i # id => completions'[i] = completions[i]
  BY <1>2
<1>4. TypeOK'
  BY <1>1, <1>3 DEF TypeOK
<1>5. PendingOfItsCore'
  BY <1>1, <1>2, <1>3 DEF PendingOfItsCore
<1>6. NobodyForgotten'
  BY <1>1, <1>3 DEF NobodyForgotten
<1> QED
  BY <1>4, <1>5, <1>6 DEF Inv

LEMMA OnResponseKeeps ==
    ASSUME Inv, NEW id \in DOMAIN completions, OnResponse(id)
    PROVE  Inv'
<1>1. TypeOK /\ PendingOfItsCore /\ NobodyForgotten
  BY DEF Inv
<1> DEFINE old == IF id \in pending THEN Settled(completions[id], "answered")
                                    ELSE completions[id]
           promise == [old EXCEPT !.heard = TRUE]
<1>2. /\ completions' = [completions EXCEPT ![id] = promise]
      /\ pending' = pending \ {id}
      /\ UNCHANGED <<process, cores, healths, pendingHealth>>
  BY DEF OnResponse
<1>3. completions[id] \in Promises
  BY <1>1, CoresOfPromises
<1>4. id \notin pending => ~ completions[id].timer /\ completions[id].outcome # "waiting"
  BY <1>1 DEF NobodyForgotten
<1>5. /\ old \in Promises /\ old.core = completions[id].core
      /\ ~ old.timer /\ old.outcome # "waiting"
  BY <1>3, <1>4, SettledIsPromise
<1> HIDE DEF old
<1>6. /\ promise \in Promises /\ promise.core = completions[id].core
      /\ ~ promise.timer /\ promise.outcome # "waiting"
  BY <1>5, HeardIsPromise
<1> HIDE DEF promise
<1> QED
  BY <1>2, <1>6, OneSettledKeeps

LEMMA CompletionTimesOutKeeps ==
    ASSUME Inv, NEW id \in DOMAIN completions, CompletionTimesOut(id)
    PROVE  Inv'
<1> DEFINE promise == Settled(completions[id], "failed")
<1>1. /\ completions' = [completions EXCEPT ![id] = promise]
      /\ pending' = pending \ {id}
      /\ UNCHANGED <<process, cores, healths, pendingHealth>>
  BY DEF CompletionTimesOut
<1>2. completions[id] \in Promises
  BY CoresOfPromises DEF Inv
<1>3. /\ promise \in Promises /\ promise.core = completions[id].core
      /\ ~ promise.timer /\ promise.outcome # "waiting"
  BY <1>2, SettledIsPromise
<1> HIDE DEF promise
<1> QED
  BY <1>1, <1>3, OneSettledKeeps

\* The place is empty; every health request is as before or settled.
LEMMA PlaceEmptiedKeeps ==
    ASSUME Inv, healths' = [h \in DOMAIN healths |-> healths'[h]],
           \A h \in DOMAIN healths :
              /\ healths'[h] \in Promises
              /\ healths'[h].timer <=> healths'[h].outcome = "waiting",
           pendingHealth' = None,
           UNCHANGED <<process, cores, completions, pending>>
    PROVE  Inv'
<1>1. TypeOK /\ PendingOfItsCore /\ NobodyForgotten
  BY DEF Inv
<1>2. healths \in Seq(Promises)
  BY <1>1 DEF TypeOK
<1>3. healths' \in Seq(Promises) /\ DOMAIN healths' = DOMAIN healths
  BY <1>2, SameLength
<1>4. None \notin DOMAIN healths'
  BY <1>3 DEF None
<1>5. TypeOK'
  BY <1>1, <1>3 DEF TypeOK
<1>6. PendingOfItsCore'
  BY <1>1 DEF PendingOfItsCore
<1>7. NobodyForgotten'
  BY <1>1, <1>3, <1>4 DEF NobodyForgotten
<1> QED
  BY <1>5, <1>6, <1>7 DEF Inv

LEMMA OnHealthResponseKeeps ==
    ASSUME Inv, NEW h \in DOMAIN healths, OnHealthResponse(h)
    PROVE  Inv'
<1>1. TypeOK /\ NobodyForgotten
  BY DEF Inv
<1> DEFINE old(i) == IF i = pendingHealth THEN Settled(healths[i], "answered")
                                          ELSE healths[i]
           heard(i) == old(i).heard \/ i = h
<1>2. /\ healths' = [i \in DOMAIN healths |-> [old(i) EXCEPT !.heard = heard(i)]]
      /\ pendingHealth' = None
      /\ UNCHANGED <<process, cores, completions, pending>>
  BY DEF OnHealthResponse
<1>3. ASSUME NEW i \in DOMAIN healths
      PROVE  /\ healths'[i] \in Promises
             /\ healths'[i].timer <=> healths'[i].outcome = "waiting"
  <2>1. healths[i] \in Promises
    BY <1>1, CoresOfPromises
  <2>2. healths[i].timer <=> healths[i].outcome = "waiting"
    BY <1>1 DEF NobodyForgotten
  <2>3. old(i) \in Promises /\ (old(i).timer <=> old(i).outcome = "waiting")
    BY <2>1, <2>2, SettledIsPromise
  <2>4. healths'[i] = [old(i) EXCEPT !.heard = heard(i)]
    BY <1>2
  <2>5. heard(i) \in BOOLEAN
    OBVIOUS
  <2> HIDE DEF old, heard
  <2> QED
    BY <2>3, <2>4, <2>5, HeardIsPromise
<1>4. healths' = [i \in DOMAIN healths |-> healths'[i]]
  BY <1>2
<1> QED
  BY <1>2, <1>3, <1>4, PlaceEmptiedKeeps

LEMMA HealthTimesOutKeeps ==
    ASSUME Inv, NEW h \in DOMAIN healths, HealthTimesOut(h)
    PROVE  Inv'
<1>1. TypeOK /\ NobodyForgotten
  BY DEF Inv
<1> DEFINE promise == Settled(healths[h], "failed")
<1>2. /\ healths' = [healths EXCEPT ![h] = promise]
      /\ pendingHealth' = None
      /\ UNCHANGED <<process, cores, completions, pending>>
  BY DEF HealthTimesOut
<1>3. \A i \in DOMAIN healths :
        healths[i] \in Promises /\ (healths[i].timer <=> healths[i].outcome = "waiting")
  BY <1>1, CoresOfPromises DEF NobodyForgotten
<1>4. promise \in Promises /\ ~ promise.timer /\ promise.outcome # "waiting"
  BY <1>3, SettledIsPromise
<1> HIDE DEF promise
<1>5. healths' = [i \in DOMAIN healths |-> healths'[i]]
  BY <1>2
<1>6. \A i \in DOMAIN healths : healths'[i] = IF i = h THEN promise ELSE healths[i]
  BY <1>2
<1>7. \A i \in DOMAIN healths :
         healths'[i] \in Promises /\ (healths'[i].timer <=> healths'[i].outcome = "waiting")
  BY <1>3, <1>4, <1>6
<1> QED
  BY <1>2, <1>5, <1>7, PlaceEmptiedKeeps

\* Of the steps of the processes: a core that starts finds nobody waiting, one
\* that ends or fails leaves nobody.
LEMMA ProcessKeeps ==
    ASSUME Inv,
           \/ Start \/ Stop
           \/ \E c \in DOMAIN cores : ProcessExits(c) \/ ProcessFails(c)
    PROVE  Inv'
<1>1. TypeOK /\ PendingOfItsCore /\ NobodyForgotten
  BY DEF Inv
<1>2. /\ cores \in Seq({"running", "gone", "broken", "failed"})
      /\ process \in {None} \cup DOMAIN cores
  BY <1>1 DEF TypeOK
<1>3. CASE Start
  <2>1. EnsureStarted /\ UNCHANGED <<completions, pending, healths, pendingHealth>>
    BY <1>3 DEF Start, EnsureStarted
  <2>2. pending = {} /\ pendingHealth = None
    BY <1>3, NoneIsNoCore DEF Start
  <2>3. TypeOK'
    BY <1>1, <2>1, StartedIsCore DEF TypeOK
  <2>4. PendingOfItsCore' /\ NobodyForgotten'
    BY <1>1, <2>1, <2>2 DEF PendingOfItsCore, NobodyForgotten
  <2> QED
    BY <2>3, <2>4 DEF Inv
<1>4. ASSUME RejectAll,
             cores' \in Seq({"running", "gone", "broken", "failed"}),
             process' \in {None} \cup DOMAIN cores'
      PROVE  Inv'
  BY <1>4, RejectAllSettles DEF Inv, TypeOK
<1>5. CASE Stop
  BY <1>2, <1>4, <1>5 DEF Stop
<1>6. ASSUME NEW c \in DOMAIN cores, ProcessExits(c)
      PROVE  Inv'
  BY <1>2, <1>4, <1>6 DEF ProcessExits
<1>7. ASSUME NEW c \in DOMAIN cores, ProcessFails(c)
      PROVE  Inv'
  <2>1. /\ cores' \in Seq({"running", "gone", "broken", "failed"})
        /\ DOMAIN cores' = DOMAIN cores
    BY <1>2, <1>7 DEF ProcessFails
  <2>2. RejectAll /\ process' = process
    BY <1>7 DEF ProcessFails
  <2> QED
    BY <1>2, <1>4, <2>1, <2>2
<1> QED
  BY <1>3, <1>5, <1>6, <1>7

-----------------------------------------------------------------------------
(***************************************************************************)
(* The three invariants of the client hold together in every state.        *)
(***************************************************************************)
THEOREM Invariant == Spec => []Inv
<1>1. Init => Inv
  <2> SUFFICES ASSUME Init PROVE Inv
    OBVIOUS
  <2>1. TypeOK
    BY DEF Init, TypeOK, None
  <2>2. PendingOfItsCore /\ NobodyForgotten
    BY DEF Init, PendingOfItsCore, NobodyForgotten, None
  <2> QED
    BY <2>1, <2>2 DEF Inv
<1>2. Inv /\ [Next]_vars => Inv'
  <2> SUFFICES ASSUME Inv, [Next]_vars PROVE Inv'
    OBVIOUS
  <2>1. CASE \/ Start \/ Stop
             \/ \E c \in DOMAIN cores : ProcessExits(c) \/ ProcessFails(c)
    BY <2>1, ProcessKeeps
  <2>2. CASE Complete
    BY <2>2, CompleteKeeps
  <2>3. CASE Health
    BY <2>3, HealthKeeps
  <2>4. CASE \E id \in DOMAIN completions : OnResponse(id) \/ CompletionTimesOut(id)
    BY <2>4, OnResponseKeeps, CompletionTimesOutKeeps
  <2>5. CASE \E h \in DOMAIN healths : OnHealthResponse(h) \/ HealthTimesOut(h)
    BY <2>5, OnHealthResponseKeeps, HealthTimesOutKeeps
  <2>6. CASE UNCHANGED vars
    BY <2>6 DEF vars, Inv, TypeOK, PendingOfItsCore, NobodyForgotten
  <2> QED
    BY <2>1, <2>2, <2>3, <2>4, <2>5, <2>6 DEF Next
<1> QED
  BY <1>1, <1>2, PTL DEF Spec

(***************************************************************************)
(* No completion waits for a core the client has let go, however many      *)
(* cores fail, end late and are replaced, and neither does the health      *)
(* request that has the place (rejectAll); of the displaced ones, see      *)
(* NoneIsForgotten.                                                        *)
(***************************************************************************)
THEOREM NoneWaitsForAnother == Spec => []WaitsForItsCore
<1>1. Inv => WaitsForItsCore
  <2> SUFFICES ASSUME Inv PROVE WaitsForItsCore
    OBVIOUS
  <2>1. ASSUME NEW id \in DOMAIN completions, completions[id].outcome = "waiting"
        PROVE  completions[id].core = process
    <3>1. id \in pending
      BY <2>1 DEF Inv, NobodyForgotten
    <3> QED
      BY <3>1 DEF Inv, PendingOfItsCore
  <2>2. ASSUME pendingHealth # None
        PROVE  healths[pendingHealth].outcome = "waiting" /\ healths[pendingHealth].core = process
    <3>1. pendingHealth \in DOMAIN healths
      BY <2>2 DEF Inv, TypeOK
    <3>2. healths[pendingHealth].timer /\ healths[pendingHealth].outcome = "waiting"
      BY <3>1 DEF Inv, NobodyForgotten
    <3> QED
      BY <2>2, <3>2 DEF Inv, PendingOfItsCore
  <2> QED
    BY <2>1, <2>2 DEF WaitsForItsCore
<1> QED
  BY <1>1, Invariant, PTL

(***************************************************************************)
(* A promise that waits can be timed out, also a health request that lost  *)
(* its place to a later one.                                               *)
(***************************************************************************)
THEOREM NoneIsForgotten == Spec => []NobodyForgotten
BY Invariant, PTL DEF Inv
=============================================================================
