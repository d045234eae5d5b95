------------------------ MODULE CompletionLifecycle -------------------------
(***************************************************************************)
(* What the core promises about the completion requests of an editor,      *)
(* apart from contexts, locks and goroutines.                              *)
(*                                                                         *)
(* A file has at most one current request.  A newer request of the file, a *)
(* change of its text or the end of the session supersedes it.  Only a     *)
(* request that is still current when it is decided may be answered; only  *)
(* a request that was superseded may vanish without a word.  A request     *)
(* superseded after it was decided is overtaken: its answer may still go   *)
(* out, and the editor has to recognise it by its state id.                *)
(***************************************************************************)
EXTENDS Naturals

CONSTANTS Paths, NoPath, MaxRequests

VARIABLES
    file,   \* the path of a request, NoPath before it begins
    stage   \* how far it has come

vars == <<file, stage>>

Numbers == 1 .. MaxRequests

Stages == {"unused", "current", "superseded", "decided", "overtaken",
           "answered", "dropped", "failed"}

TypeOK ==
    /\ file \in [Numbers -> Paths \cup {NoPath}]
    /\ stage \in [Numbers -> Stages]

Init ==
    /\ file = [r \in Numbers |-> NoPath]
    /\ stage = [r \in Numbers |-> "unused"]

\* The stage of request r once the requests of the files ps are superseded.
After(r, ps) ==
    IF file[r] \notin ps THEN stage[r]
    ELSE CASE stage[r] = "current" -> "superseded"
           [] stage[r] = "decided" -> "overtaken"
           [] OTHER -> stage[r]

\* A request begins and supersedes what its file has; one that is answered
\* from memory is decided at once.
Begin(r, p, st) ==
    /\ stage[r] = "unused"
    /\ st \in {"current", "decided"}
    /\ file' = [file EXCEPT ![r] = p]
    /\ stage' = [q \in Numbers |-> IF q = r THEN st ELSE After(q, {p})]

\* The text of these files changed, or the session ends.
Supersede(ps) ==
    /\ stage' = [q \in Numbers |-> After(q, ps)]
    /\ UNCHANGED file

Become(r, st) ==
    /\ stage' = [stage EXCEPT ![r] = st]
    /\ UNCHANGED file

Decide(r) == stage[r] = "current" /\ Become(r, "decided")

Answer(r) == stage[r] \in {"decided", "overtaken"} /\ Become(r, "answered")

Fail(r) == stage[r] \in {"decided", "overtaken"} /\ Become(r, "failed")

Drop(r) == stage[r] \in {"superseded", "overtaken"} /\ Become(r, "dropped")

Next ==
    \/ \E r \in Numbers, p \in Paths, st \in {"current", "decided"} : Begin(r, p, st)
    \/ \E ps \in SUBSET Paths : Supersede(ps)
    \/ \E r \in Numbers : Decide(r) \/ Answer(r) \/ Fail(r) \/ Drop(r)

Spec == Init /\ [][Next]_vars

(***************************************************************************)
(* A file never has two requests that both count as its newest.            *)
(***************************************************************************)
OneCurrent ==
    \A q, r \in Numbers :
        stage[q] = "current" /\ stage[r] = "current" /\ file[q] = file[r] => q = r
=============================================================================
