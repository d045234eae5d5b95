---------------------------- MODULE VSCodeClient ----------------------------
(***************************************************************************)
(* The CoreClient of the VS Code extension: the core process it holds, the *)
(* promises that wait for an answer, and the one place it has for a health *)
(* request.                                                                *)
(*                                                                         *)
(* JavaScript runs a callback to its end, and what follows an await of     *)
(* start before the next event (the error event may come first, as it may  *)
(* between Start and Complete): every command, process event, line of a    *)
(* core and timeout is one step.  The cores are external: one may fail to  *)
(* start, answer or not, and end at any time.                              *)
(***************************************************************************)
EXTENDS Naturals, Sequences

CONSTANTS
    AutoStart,        \* the setting autoStart
    MaxCores,         \* processes spawned
    MaxCompletions,   \* completions requested
    MaxHealths        \* health requests

ASSUME ClientAssumption ==
    /\ AutoStart \in BOOLEAN
    /\ {MaxCores, MaxCompletions, MaxHealths} \subseteq Nat

None == 0

VARIABLES
    process,       \* the core the client holds, or None
    cores,         \* every process: "running", then "gone"; or "broken", not
                   \* started, then "failed" when the error event tells so
    completions,   \* the promises of complete; a state id is a place in it
    pending,       \* the ids in the map
    healths,       \* the promises of health
    pendingHealth  \* the one that has the place, or None

vars == <<process, cores, completions, pending, healths, pendingHealth>>

\* core: the process asked; timer: whether its timeout is set; heard: whether
\* the core has answered.
Promises == [core : Nat \ {None}, timer : BOOLEAN, heard : BOOLEAN,
             outcome : {"waiting", "answered", "failed"}]

TypeOK ==
    /\ cores \in Seq({"running", "gone", "broken", "failed"}) /\ process \in {None} \cup DOMAIN cores
    /\ completions \in Seq(Promises) /\ pending \subseteq DOMAIN completions
    /\ healths \in Seq(Promises) /\ pendingHealth \in {None} \cup DOMAIN healths

Init ==
    /\ process = None /\ cores = <<>>
    /\ completions = <<>> /\ pending = {}
    /\ healths = <<>> /\ pendingHealth = None

Asked(core) == [core |-> core, timer |-> TRUE, heard |-> FALSE, outcome |-> "waiting"]

\* A timer goes off or is cleared when its promise is settled.
Settled(promise, outcome) == [promise EXCEPT !.timer = FALSE, !.outcome = outcome]

RejectCompletionsOnly ==
    /\ completions' = [id \in DOMAIN completions |->
          IF id \in pending THEN Settled(completions[id], "failed") ELSE completions[id]]
    /\ pending' = {} /\ pendingHealth' = None
    /\ healths' = [h \in DOMAIN healths |->
          [healths[h] EXCEPT !.timer = @ /\ h # pendingHealth]]

RejectAll ==
    /\ completions' = [id \in DOMAIN completions |->
          IF id \in pending THEN Settled(completions[id], "failed") ELSE completions[id]]
    /\ pending' = {}
    /\ healths' = [h \in DOMAIN healths |->
          IF h = pendingHealth THEN Settled(healths[h], "failed") ELSE healths[h]]
    /\ pendingHealth' = None

-----------------------------------------------------------------------------
(* The process. *)

StartProcess ==
    /\ Len(cores) < MaxCores
    /\ \E state \in {"running", "broken"} : cores' = Append(cores, state)
    /\ process' = Len(cores) + 1

\* start returns at once while a process is held, a broken one too.
EnsureStarted ==
    \/ process # None /\ UNCHANGED <<process, cores>>
    \/ process = None /\ StartProcess

Start ==
    /\ process = None /\ StartProcess
    /\ UNCHANGED <<completions, pending, healths, pendingHealth>>

StopForgetsPromises ==
    /\ process # None
    /\ process' = None
    /\ UNCHANGED <<cores, completions, pending, healths, pendingHealth>>

\* stop, and dispose: the core is told to end and does so later.
Stop ==
    /\ process # None
    /\ process' = None
    /\ RejectAll
    /\ UNCHANGED cores

\* The exit event clears the process held, whichever process has ended.
ProcessExits(c) ==
    /\ cores[c] = "running"
    /\ cores' = [cores EXCEPT ![c] = "gone"]
    /\ process' = None
    /\ RejectAll

\* The error event of a process that did not start: it is held until stop.
ProcessFails(c) ==
    /\ cores[c] = "broken"
    /\ cores' = [cores EXCEPT ![c] = "failed"]
    /\ RejectAll
    /\ UNCHANGED process

\* A line of an ended core may be read after its exit event.
Answers(c) == cores[c] \in {"running", "gone"}

-----------------------------------------------------------------------------
(* Completions. *)

Complete ==
    /\ Len(completions) < MaxCompletions
    /\ process # None \/ AutoStart
    /\ EnsureStarted
    /\ completions' = Append(completions, Asked(process'))
    /\ pending' = pending \cup {Len(completions) + 1}
    /\ UNCHANGED <<healths, pendingHealth>>

\* resolveCompletion drops an answer nobody waits for.
OnResponse(id) ==
    /\ ~ completions[id].heard /\ Answers(completions[id].core)
    /\ completions' = [completions EXCEPT
          ![id] = [(IF id \in pending THEN Settled(@, "answered") ELSE @)
                      EXCEPT !.heard = TRUE]]
    /\ pending' = pending \ {id}
    /\ UNCHANGED <<process, cores, healths, pendingHealth>>

CompletionTimesOut(id) ==
    /\ completions[id].timer
    /\ completions' = [completions EXCEPT ![id] = Settled(@, "failed")]
    /\ pending' = pending \ {id}
    /\ UNCHANGED <<process, cores, healths, pendingHealth>>

-----------------------------------------------------------------------------
(* Health. *)

\* A second request takes the place of the first, which keeps its timer.
Health ==
    /\ Len(healths) < MaxHealths
    /\ EnsureStarted
    /\ healths' = Append(healths, Asked(process'))
    /\ pendingHealth' = Len(healths) + 1
    /\ UNCHANGED <<completions, pending>>

\* An answer has no id: it settles what has the place now.
OnHealthResponse(h) ==
    /\ ~ healths[h].heard /\ Answers(healths[h].core)
    /\ healths' = [i \in DOMAIN healths |->
          LET promise == IF i = pendingHealth THEN Settled(healths[i], "answered")
                                              ELSE healths[i]
          IN  [promise EXCEPT !.heard = @ \/ i = h]]
    /\ pendingHealth' = None
    /\ UNCHANGED <<process, cores, completions, pending>>

HealthTimeoutClearsTimer(h) ==
    /\ healths[h].timer
    /\ healths' = [i \in DOMAIN healths |->
          IF i = h THEN Settled(healths[i], "failed")
          ELSE [healths[i] EXCEPT !.timer = @ /\ i # pendingHealth]]
    /\ pendingHealth' = None
    /\ UNCHANGED <<process, cores, completions, pending>>

\* The timeout of a request empties the place, whoever has it.
HealthTimesOut(h) ==
    /\ healths[h].timer
    /\ healths' = [healths EXCEPT ![h] = Settled(@, "failed")]
    /\ pendingHealth' = None
    /\ UNCHANGED <<process, cores, completions, pending>>

-----------------------------------------------------------------------------
Next ==
    \/ Start \/ Stop \/ Complete \/ Health
    \/ \E c \in DOMAIN cores : ProcessExits(c) \/ ProcessFails(c)
    \/ \E id \in DOMAIN completions : OnResponse(id) \/ CompletionTimesOut(id)
    \/ \E h \in DOMAIN healths : OnHealthResponse(h) \/ HealthTimesOut(h)

Spec == Init /\ [][Next]_vars

\* A timer that is set fires.  Nothing is assumed of the cores.
FairSpec ==
    /\ Spec
    /\ \A id \in 1 .. MaxCompletions :
          WF_vars(id \in DOMAIN completions /\ CompletionTimesOut(id))
    /\ \A h \in 1 .. MaxHealths : WF_vars(h \in DOMAIN healths /\ HealthTimesOut(h))

-----------------------------------------------------------------------------
(***************************************************************************)
(* No completion waits for a core the client has let go, and neither does  *)
(* the health request that has the place: a stop, an exit and an error     *)
(* reject them (rejectAll), and the late exit of an old core finds the     *)
(* requests to its successor.  A health request that a later one displaced *)
(* is not found by them and may wait for a core let go, until its own      *)
(* timer goes off (NobodyForgotten).                                       *)
(***************************************************************************)
WaitsForItsCore ==
    /\ \A id \in DOMAIN completions :
          completions[id].outcome = "waiting" => completions[id].core = process
    /\ pendingHealth # None =>
          healths[pendingHealth].outcome = "waiting" /\ healths[pendingHealth].core = process

(***************************************************************************)
(* Who still waits can be timed out, and only who waits: a settled promise *)
(* has no timer that could empty a place it no longer has, a health        *)
(* request that lost the place keeps its own.                              *)
(***************************************************************************)
NobodyForgotten ==
    /\ \A id \in DOMAIN completions :
          /\ completions[id].timer <=> completions[id].outcome = "waiting"
          /\ completions[id].timer <=> id \in pending
    /\ \A h \in DOMAIN healths :
          /\ healths[h].timer <=> healths[h].outcome = "waiting"
          /\ h = pendingHealth => healths[h].timer

(***************************************************************************)
(* Every completion and every health request is answered or rejected, with *)
(* cores that never answer and requests that take each other's place.      *)
(***************************************************************************)
PromisesSettle ==
    /\ \A id \in 1 .. MaxCompletions :
          id \in DOMAIN completions ~>
              id \in DOMAIN completions /\ completions[id].outcome # "waiting"
    /\ \A h \in 1 .. MaxHealths :
          h \in DOMAIN healths ~> h \in DOMAIN healths /\ healths[h].outcome # "waiting"
=============================================================================
