------------------------------ MODULE Session -------------------------------
(***************************************************************************)
(* The core process of inliner (inliner-core/internal/session/session.go): *)
(* one goroutine reads the editor's messages and handles each to its end   *)
(* before it reads the next; every completion that the acceptance cache    *)
(* cannot answer runs in a goroutine of its own (a worker).                *)
(*                                                                         *)
(* A step is what one goroutine does between two accesses to state that    *)
(* another goroutine reads: a section of Session.mu, one call of a cache,  *)
(* one send, one look at a context.                                        *)
(*                                                                         *)
(* Requests are numbered in the order they begin.  The number stands for   *)
(* the request, its context and its goroutine: cancels[p] is the number of *)
(* the request whose CancelFunc the Go map holds, 0 when it holds none,    *)
(* and "cancelled" is the set of the requests whose context is done.       *)
(***************************************************************************)
EXTENDS CacheEntries

CONSTANTS
    Paths,           \* files of the editor
    NoPath,          \* the path of a request that has not begun
    Ids,             \* state ids an editor may send; nothing makes them unique
    EmptyId,         \* "", which Go's map lookup also yields for a missing key
    Contents,        \* buffer contents
    NoDocument,      \* no content known for a path
    Offsets,         \* cursor offsets
    Windows,         \* what a cache key keeps of the text around the cursor
    Around,          \* Around[c, o]: the window of content c at offset o
    Failure,         \* the provider returned an error
    MaxRequests,     \* bound of the completion requests
    MaxInputs,       \* bound of the inputs the core remembers something of
    MaxNow,          \* bound of the clock
    InputMayFail,    \* reading stdin may fail for good
    OutputMayBreak   \* writing stdout may fail for good

ASSUME SessionAssumption ==
    /\ Keys = Paths \X Windows
    /\ Around \in [Contents \X Offsets -> Windows]
    /\ EmptyId \in Ids
    /\ NoPath \notin Paths
    /\ NoDocument \notin Contents
    /\ Failure \notin Texts \cup {NoText}
    /\ MaxRequests \in Nat
    /\ MaxInputs \in Nat
    /\ MaxNow \in Nat
    /\ InputMayFail \in BOOLEAN
    /\ OutputMayBreak \in BOOLEAN

VARIABLES
    pc,         \* where the read loop stands
    newId,      \* newId of the state update being handled
    input,      \* stdin: "open" or "failed"
    output,     \* stdout: "open" or "broken"
    inputs,     \* file and cursor updates, accepts and dismissals so far
    now,        \* the clock of the caches
    documents,  \* document.Store
    latest,     \* Session.latest, EmptyId for a missing key
    cancels,    \* Session.cancels
    requests,   \* Session.requests: the last request of an id, 0 for none
    accepted,   \* Session.cache
    dismissed,  \* Session.dismissed
    started,    \* requests begun so far
    request,    \* the completion.Request of each number
    phase,      \* where the request stands
    result,     \* what the provider or the cache returned
    outcome,    \* how the request ended, as telemetry records it
    cancelled   \* the requests whose context is done

ioVars    == <<input, output>>
cacheVars == <<accepted, dismissed>>
stateVars == <<latest, cancels, cancelled>>
workVars  == <<phase, result, outcome>>
beginVars == <<started, request, requests>>

\* All that a step of the read loop leaves alone when it only moves on.
dataVars == <<newId, ioVars, now, documents, stateVars, beginVars, cacheVars,
              workVars>>
vars     == <<pc, inputs, dataVars>>

Numbers == 1 .. MaxRequests

RequestType ==
    [id : Ids, path : Paths \cup {NoPath}, key : Keys \cup {NoPath},
     offset : Offsets \cup {NoPath}, order : 0 .. MaxInputs]

NotBegun ==
    [id |-> EmptyId, path |-> NoPath, key |-> NoPath, offset |-> NoPath, order |-> 0]

\* "cached" waits for the answer from the cache that the loop itself sends.
LoopStates ==
    {"read", "updates", "cached", "health", "fail", "stopping", "waiting",
     "closing", "returned", "panicked"}

Phases ==
    {"unused", "provider", "context", "latest", "dismissal", "respond",
     "record", "report", "finished"}

Outcomes == {"none", "answered", "dropped", "stale", "failed"}

TypeOK ==
    /\ pc \in LoopStates
    /\ newId \in Ids
    /\ input \in {"open", "failed"}
    /\ output \in {"open", "broken"}
    /\ inputs \in 0 .. MaxInputs
    /\ now \in 0 .. MaxNow
    /\ documents \in [Paths -> Contents \cup {NoDocument}]
    /\ latest \in [Paths -> Ids]
    /\ cancels \in [Paths -> 0 .. MaxRequests]
    /\ requests \in [Ids -> 0 .. MaxRequests]
    /\ accepted \in Caches
    /\ dismissed \in Caches
    /\ started \in 0 .. MaxRequests
    /\ request \in [Numbers -> RequestType]
    /\ phase \in [Numbers -> Phases]
    /\ result \in [Numbers -> Texts \cup {NoText, Failure}]
    /\ outcome \in [Numbers -> Outcomes]
    /\ cancelled \subseteq Numbers

Init ==
    /\ pc = "read"
    /\ newId = EmptyId
    /\ input = "open"
    /\ output = "open"
    /\ inputs = 0
    /\ now = 0
    /\ documents = [p \in Paths |-> NoDocument]
    /\ latest = [p \in Paths |-> EmptyId]
    /\ cancels = [p \in Paths |-> 0]
    /\ requests = [i \in Ids |-> 0]
    /\ accepted = {}
    /\ dismissed = {}
    /\ started = 0
    /\ request = [r \in Numbers |-> NotBegun]
    /\ phase = [r \in Numbers |-> "unused"]
    /\ result = [r \in Numbers |-> NoText]
    /\ outcome = [r \in Numbers |-> "none"]
    /\ cancelled = {}

-----------------------------------------------------------------------------
(***************************************************************************)
(* The sections of Session.mu that change the active requests.             *)
(***************************************************************************)
\* Mutant: the request that is replaced is not cancelled.
ReplaceActiveRequestOnly(p, id, r) ==
    /\ latest' = [latest EXCEPT ![p] = id]
    /\ cancels' = [cancels EXCEPT ![p] = r]
    /\ UNCHANGED cancelled

\* Request r, or none (0) when the cache has the answer, is now the active
\* request of its path.
ReplaceActiveRequest(p, id, r) ==
    /\ cancelled' = cancelled \cup ({cancels[p]} \ {0})
    /\ latest' = [latest EXCEPT ![p] = id]
    /\ cancels' = [cancels EXCEPT ![p] = r]

\* Mutant: a changed text leaves the request computed from the old one running.
CancelPathForgets(p) ==
    /\ cancels' = [cancels EXCEPT ![p] = 0]
    /\ latest' = [latest EXCEPT ![p] = EmptyId]
    /\ UNCHANGED cancelled

CancelPath(p) ==
    /\ cancelled' = cancelled \cup ({cancels[p]} \ {0})
    /\ cancels' = [cancels EXCEPT ![p] = 0]
    /\ latest' = [latest EXCEPT ![p] = EmptyId]

\* Mutant: the maps are emptied but no context is cancelled.
CancelAllForgets ==
    /\ cancels' = [p \in Paths |-> 0]
    /\ latest' = [p \in Paths |-> EmptyId]
    /\ UNCHANGED cancelled

CancelAll ==
    /\ cancelled' = cancelled \cup ({cancels[p] : p \in Paths} \ {0})
    /\ cancels' = [p \in Paths |-> 0]
    /\ latest' = [p \in Paths |-> EmptyId]

InFlightRequests == Cardinality({p \in Paths : cancels[p] # 0})

-----------------------------------------------------------------------------
(***************************************************************************)
(* The read loop: Run and handle.  The items of a state update are chosen  *)
(* one by one as the loop reaches them, which yields the same behaviours   *)
(* as choosing the whole list when the message is read.                    *)
(***************************************************************************)
\* One more input that changes what the core remembers, in the order taken.
Take == inputs < MaxInputs /\ inputs' = inputs + 1

Receive == pc = "read" /\ input = "open"

\* Where the loop goes after a send: a send that fails is a handler's error.
AfterSend(next) == IF output = "open" THEN next ELSE "fail"

ReadGreeting ==
    /\ Receive
    /\ pc' = AfterSend("read")
    /\ UNCHANGED <<inputs, dataVars>>

\* A line that does not decode, an unknown kind, or an accept_update or
\* dismiss_update without its stateId or path.
ReadInvalid ==
    /\ Receive
    /\ pc' = "fail"
    /\ UNCHANGED <<inputs, dataVars>>

ReadStateUpdate(id) ==
    /\ Receive
    /\ newId' = id
    /\ pc' = "updates"
    /\ UNCHANGED <<inputs, ioVars, now, documents, stateVars, beginVars, cacheVars, workVars>>

\* The loop blocks in the provider's diagnostics until it answers.
ReadHealthRequest ==
    /\ Receive
    /\ pc' = "health"
    /\ UNCHANGED <<inputs, dataVars>>

SendHealthResponse ==
    /\ pc = "health"
    /\ pc' = AfterSend("read")
    /\ UNCHANGED <<inputs, dataVars>>

\* An id names the last request that carried it, whatever became of it.
Known(id, p) == requests[id] # 0 /\ request[requests[id]].path = p

HandleAcceptUpdate(id, p, t) ==
    /\ Receive
    /\ Take
    /\ id # EmptyId
    /\ accepted' = IF Known(id, p)
                   THEN StoreAccepted(accepted, request[requests[id]].key, t, now, inputs')
                   ELSE accepted
    /\ UNCHANGED <<pc, newId, ioVars, now, documents, stateVars, beginVars,
                   dismissed, workVars>>

HandleDismissUpdate(id, p, t) ==
    /\ Receive
    /\ Take
    /\ id # EmptyId
    /\ dismissed' = IF Known(id, p)
                    THEN StoreDismissed(dismissed, request[requests[id]].key, t, now, inputs')
                    ELSE dismissed
    /\ UNCHANGED <<pc, newId, ioVars, now, documents, stateVars, beginVars,
                   accepted, workVars>>

\* A shutdown message, or the end of the input.
ReadShutdown ==
    /\ Receive
    /\ pc' = "stopping"
    /\ UNCHANGED <<inputs, dataVars>>

\* Once the scanner has failed, every later read fails as well.
ReadFailure ==
    /\ pc = "read"
    /\ input = "failed"
    /\ pc' = "fail"
    /\ UNCHANGED <<inputs, dataVars>>

\* The error of a read or of a handler is sent; Run gives up if that fails.
SendError ==
    /\ pc = "fail"
    /\ pc' = IF output = "open" THEN "read" ELSE "closing"
    /\ UNCHANGED <<inputs, dataVars>>

-----------------------------------------------------------------------------
(***************************************************************************)
(* The items of a state update: handleStateUpdate and completeAtCursor.    *)
(* An error of one item abandons the items after it.                       *)
(***************************************************************************)
HandleFileUpdate(p, c) ==
    /\ pc = "updates"
    /\ Take
    /\ documents' = [documents EXCEPT ![p] = c]
    /\ CancelPath(p)
    /\ UNCHANGED <<pc, newId, ioVars, now, beginVars, cacheVars, workVars>>

\* An unknown kind, or a cursor in a file whose content was never sent.
RejectUpdate ==
    /\ pc = "updates"
    /\ pc' = "fail"
    /\ newId' = EmptyId
    /\ UNCHANGED <<inputs, ioVars, now, documents, stateVars, beginVars, cacheVars, workVars>>

EndUpdates ==
    /\ pc = "updates"
    /\ pc' = "read"
    /\ newId' = EmptyId
    /\ UNCHANGED <<inputs, ioVars, now, documents, stateVars, beginVars, cacheVars, workVars>>

Key(p, o) == <<p, Around[<<documents[p], o>>]>>

\* completeAtCursor up to the lookup: request started+1 is built and
\* remembered under its id.
BeginRequest(p, o) ==
    /\ pc = "updates"
    /\ Take
    /\ documents[p] # NoDocument
    /\ started < MaxRequests
    /\ started' = started + 1
    /\ request' = [request EXCEPT ![started + 1] =
                     [id |-> newId, path |-> p, key |-> Key(p, o), offset |-> o,
                      order |-> inputs + 1]]
    /\ requests' = [requests EXCEPT ![newId] = started + 1]

\* The acceptance cache has the answer.  It is empty if it was dismissed.
AnswerFromCache(p, o) ==
    LET text == Lookup(accepted, Key(p, o), now) IN
    /\ BeginRequest(p, o)
    /\ text # NoText
    /\ ReplaceActiveRequest(p, newId, 0)
    /\ pc' = "cached"
    /\ phase' = [phase EXCEPT ![started + 1] = "respond"]
    /\ result' = [result EXCEPT ![started + 1] =
                    IF IsDismissed(dismissed, Key(p, o), text, now) THEN NoText ELSE text]
    /\ accepted' = Unexpired(accepted, now)
    /\ dismissed' = Unexpired(dismissed, now)
    /\ UNCHANGED <<newId, ioVars, now, documents, outcome>>

\* The loop goes on once it has sent the cached answer and recorded it.
EndCachedAnswer ==
    /\ pc = "cached"
    /\ phase[started] = "finished"
    /\ pc' = IF outcome[started] = "answered" THEN "updates" ELSE "fail"
    /\ UNCHANGED <<inputs, dataVars>>

StartWorker(p, o) ==
    /\ BeginRequest(p, o)
    /\ Lookup(accepted, Key(p, o), now) = NoText
    /\ ReplaceActiveRequest(p, newId, started + 1)
    /\ phase' = [phase EXCEPT ![started + 1] = "provider"]
    /\ accepted' = Unexpired(accepted, now)
    /\ UNCHANGED <<pc, newId, ioVars, now, documents, dismissed, result, outcome>>

-----------------------------------------------------------------------------
(***************************************************************************)
(* A worker: runCompletion.  The cached answer shares its last two steps.  *)
(***************************************************************************)
Alive == pc # "panicked"

At(r, ph) == Alive /\ phase[r] = ph

Move(r, ph) == phase' = [phase EXCEPT ![r] = ph]

UnchangedByWorker ==
    UNCHANGED <<newId, ioVars, inputs, now, documents, stateVars, beginVars, accepted>>

\* The provider may return anything, its context done or not.
ProviderReturns(r, x) ==
    /\ At(r, "provider")
    /\ Move(r, "context")
    /\ result' = [result EXCEPT ![r] = x]
    /\ UNCHANGED <<pc, outcome, dismissed>>
    /\ UnchangedByWorker

\* Nothing is sent.  ctx.Err() is read again to tell the two reasons apart.
Drop(r) ==
    /\ Move(r, "record")
    /\ outcome' = [outcome EXCEPT ![r] = IF r \in cancelled THEN "dropped" ELSE "stale"]

CheckContext(r) ==
    /\ At(r, "context")
    /\ \/ r \in cancelled /\ Drop(r)
       \/ r \notin cancelled /\ Move(r, "latest") /\ UNCHANGED outcome
    /\ UNCHANGED <<pc, result, dismissed>>
    /\ UnchangedByWorker

IsLatest(r) == latest[request[r].path] = request[r].id

\* Mutant: an error of the latest request is dropped like that of a stale one.
CheckLatestDropsErrors(r) ==
    /\ At(r, "latest")
    /\ \/ (~IsLatest(r) \/ result[r] = Failure) /\ Drop(r)
       \/ /\ IsLatest(r)
          /\ result[r] # Failure
          /\ Move(r, "dismissal")
          /\ UNCHANGED outcome
    /\ UNCHANGED <<pc, result, dismissed>>
    /\ UnchangedByWorker

CheckLatest(r) ==
    /\ At(r, "latest")
    /\ \/ ~IsLatest(r) /\ Drop(r)
       \/ /\ IsLatest(r)
          /\ result[r] = Failure
          /\ Move(r, "record")
          /\ outcome' = [outcome EXCEPT ![r] = "failed"]
       \/ /\ IsLatest(r)
          /\ result[r] # Failure
          /\ Move(r, "dismissal")
          /\ UNCHANGED outcome
    /\ UNCHANGED <<pc, result, dismissed>>
    /\ UnchangedByWorker

\* Mutant: a worker does not ask the dismissal cache.
CheckDismissalSkipped(r) ==
    /\ At(r, "dismissal")
    /\ Move(r, "respond")
    /\ UNCHANGED <<pc, result, outcome, dismissed>>
    /\ UnchangedByWorker

\* shouldSuppressResponse: a dismissed text is replaced by an empty answer.
CheckDismissal(r) ==
    /\ At(r, "dismissal")
    /\ Move(r, "respond")
    /\ IF result[r] = NoText
       THEN UNCHANGED <<result, dismissed>>
       ELSE /\ dismissed' = Unexpired(dismissed, now)
            /\ result' = [result EXCEPT ![r] =
                            IF IsDismissed(dismissed, request[r].key, @, now)
                            THEN NoText ELSE @]
    /\ UNCHANGED <<pc, outcome>>
    /\ UnchangedByWorker

Respond(r) ==
    /\ At(r, "respond")
    /\ Move(r, "record")
    /\ outcome' = [outcome EXCEPT ![r] = IF output = "open" THEN "answered" ELSE "failed"]
    /\ UNCHANGED <<pc, result, dismissed>>
    /\ UnchangedByWorker

\* AsyncRecorder.Record sends on a channel that Close closes: recording after
\* Run has returned panics and takes the process down.
RecordTelemetry(r) ==
    /\ At(r, "record")
    /\ IF pc = "returned"
       THEN pc' = "panicked" /\ UNCHANGED phase
       ELSE /\ Move(r, IF result[r] = Failure /\ outcome[r] = "failed"
                       THEN "report" ELSE "finished")
            /\ UNCHANGED pc
    /\ UNCHANGED <<result, outcome, dismissed>>
    /\ UnchangedByWorker

\* The provider's error is sent after it was recorded; a failed send is ignored.
ReportError(r) ==
    /\ At(r, "report")
    /\ Move(r, "finished")
    /\ UNCHANGED <<pc, result, outcome, dismissed>>
    /\ UnchangedByWorker

-----------------------------------------------------------------------------
(***************************************************************************)
(* The end of Run.                                                         *)
(***************************************************************************)
CancelAllRequests ==
    /\ pc = "stopping"
    /\ pc' = "waiting"
    /\ CancelAll
    /\ UNCHANGED <<newId, ioVars, inputs, now, documents, beginVars, cacheVars, workVars>>

Quiet == \A r \in Numbers : phase[r] \in {"unused", "finished"}

\* Mutant: Run does not wait for its workers.
WaitWorkersNot ==
    /\ pc = "waiting"
    /\ pc' = "closing"
    /\ UNCHANGED <<inputs, dataVars>>

WaitWorkers ==
    /\ pc = "waiting"
    /\ Quiet
    /\ pc' = "closing"
    /\ UNCHANGED <<inputs, dataVars>>

\* The deferred telemetry.Close.
CloseTelemetry ==
    /\ pc = "closing"
    /\ pc' = "returned"
    /\ UNCHANGED <<inputs, dataVars>>

-----------------------------------------------------------------------------
(***************************************************************************)
(* The environment: the clock and the two ends of the process's pipes.     *)
(***************************************************************************)
Tick ==
    /\ Alive
    /\ now < MaxNow
    /\ now' = now + 1
    /\ UNCHANGED <<pc, inputs, newId, ioVars, documents, stateVars, beginVars,
                   cacheVars, workVars>>

\* A line beyond the scanner's buffer, or an error of the pipe.
FailInput ==
    /\ Alive
    /\ InputMayFail
    /\ input' = "failed"
    /\ UNCHANGED <<pc, inputs, newId, output, now, documents, stateVars, beginVars,
                   cacheVars, workVars>>

BreakOutput ==
    /\ Alive
    /\ OutputMayBreak
    /\ output' = "broken"
    /\ UNCHANGED <<pc, inputs, newId, input, now, documents, stateVars, beginVars,
                   cacheVars, workVars>>

\* Run has returned or the process is gone: nothing is left to do.
Over ==
    /\ pc \in {"returned", "panicked"}
    /\ UNCHANGED vars

-----------------------------------------------------------------------------
ReadMessage ==
    \/ ReadGreeting \/ ReadInvalid \/ ReadHealthRequest
    \/ ReadShutdown
    \/ \E id \in Ids : ReadStateUpdate(id)
    \/ \E id \in Ids, p \in Paths, t \in Texts \cup {NoText} :
          HandleAcceptUpdate(id, p, t) \/ HandleDismissUpdate(id, p, t)

HandleItem ==
    \/ RejectUpdate
    \/ \E p \in Paths, c \in Contents : HandleFileUpdate(p, c)
    \/ \E p \in Paths, o \in Offsets : AnswerFromCache(p, o) \/ StartWorker(p, o)

\* What the loop does on its own once it has read a message.
LoopStep ==
    \/ ReadFailure \/ SendError
    \/ EndUpdates \/ EndCachedAnswer \/ SendHealthResponse
    \/ CancelAllRequests \/ WaitWorkers \/ CloseTelemetry

WorkerStep(r) ==
    \/ CheckContext(r) \/ CheckLatest(r) \/ CheckDismissal(r)
    \/ Respond(r) \/ RecordTelemetry(r) \/ ReportError(r)

Environment == Tick \/ FailInput \/ BreakOutput

Next ==
    \/ ReadMessage \/ HandleItem \/ LoopStep
    \/ \E r \in Numbers, x \in Texts \cup {NoText, Failure} : ProviderReturns(r, x)
    \/ \E r \in Numbers : WorkerStep(r)
    \/ Environment
    \/ Over

Spec == Init /\ [][Next]_vars

(***************************************************************************)
(* Fairness.  The Go scheduler runs every goroutine that can run, and the  *)
(* diagnostics and the writer are bounded by their own timeouts.  Of the   *)
(* provider only this is assumed: once its context is cancelled, Complete  *)
(* returns (its HTTP request carries the context).  Nothing is assumed of  *)
(* a provider left alone, nor of the editor.                               *)
(***************************************************************************)
ProviderHeeds(r) ==
    r \in cancelled /\ \E x \in Texts \cup {NoText, Failure} : ProviderReturns(r, x)

Fairness ==
    /\ WF_vars(LoopStep)
    /\ \A r \in Numbers : WF_vars(WorkerStep(r)) /\ WF_vars(ProviderHeeds(r))

FairSpec == Spec /\ Fairness

-----------------------------------------------------------------------------
(***************************************************************************)
(* Safety.                                                                 *)
(***************************************************************************)
ByLoop(r) == pc = "cached" /\ r = started

\* A worker that has not yet sent, dropped or failed its request.
Pending(r) ==
    /\ phase[r] \in {"provider", "context", "latest", "dismissal", "respond"}
    /\ ~ByLoop(r)

(***************************************************************************)
(* A pending request that nobody cancelled is the one its path's entries   *)
(* name.  So whatever supersedes it (a newer request, a new text, a        *)
(* shutdown) reaches its context: no worker runs on unseen.                *)
(***************************************************************************)
PendingIsRegistered ==
    \A r \in Numbers : Pending(r) /\ r \notin cancelled =>
        /\ cancels[request[r].path] = r
        /\ latest[request[r].path] = request[r].id

(***************************************************************************)
(* A pending request that nobody cancelled was computed from the content   *)
(* the core holds now: a suggestion for text the editor has replaced is    *)
(* always a cancelled one.                                                 *)
(***************************************************************************)
PendingSeesDocument ==
    \A r \in Numbers : Pending(r) /\ r \notin cancelled =>
        /\ documents[request[r].path] \in Contents
        /\ request[r].key = Key(request[r].path, request[r].offset)

(***************************************************************************)
(* A request vanishes without a message only if it was cancelled: the      *)
(* status "stale", for a request that is not the latest although its       *)
(* context is live, is never recorded.                                     *)
(***************************************************************************)
VanishesOnlyCancelled ==
    \A r \in Numbers :
        /\ outcome[r] # "stale"
        /\ outcome[r] = "dropped" => r \in cancelled

(***************************************************************************)
(* A text dismissed for a context before a request there was made is not   *)
(* about to be shown for it, while the dismissal is remembered: neither by *)
(* a worker nor from the acceptance cache, even if it was accepted too.    *)
(* (A dismissal that arrives while the request runs may come too late.)    *)
(***************************************************************************)
DismissedStaysHidden ==
    \A r \in Numbers : phase[r] = "respond" /\ result[r] # NoText =>
        \A e \in Unexpired(dismissed, now) :
            e.key = request[r].key /\ e.text = result[r] => e.place > request[r].order

(***************************************************************************)
(* A Run that ends on a shutdown or on the end of its input leaves nothing *)
(* behind: no worker that could still write to stdout or to the telemetry  *)
(* channel, and no request registered.  (While stdout works, every end of  *)
(* Run is such an end.)                                                    *)
(***************************************************************************)
CleanEnd ==
    pc \in {"closing", "returned", "panicked"} /\ output = "open" =>
        /\ pc # "panicked"
        /\ Quiet
        /\ InFlightRequests = 0

-----------------------------------------------------------------------------
(***************************************************************************)
(* The inductive invariant behind the safety properties.                   *)
(***************************************************************************)
\* Exactly the requests begun so far are in use, and every reference is to one.
BegunInOrder ==
    /\ \A r \in Numbers :
        /\ phase[r] = "unused" <=> r > started
        /\ r <= started => /\ request[r].path \in Paths
                           /\ request[r].key \in Keys
                           /\ request[r].offset \in Offsets
        /\ request[r].order <= inputs
        /\ r \in cancelled => r <= started
    /\ \A p \in Paths : cancels[p] <= started
    /\ \A i \in Ids : requests[i] <= started

\* A request has an outcome from the moment it is sent, dropped or failed.
OutcomeOnceKnown ==
    \A r \in Numbers :
        outcome[r] # "none" <=> phase[r] \in {"record", "report", "finished"}

\* While the loop sends a cached answer no worker's entry names that request.
CachedByLoop ==
    pc = "cached" =>
        /\ started \in Numbers
        /\ phase[started] \in {"respond", "record", "finished"}
        /\ result[started] # Failure
        /\ \A p \in Paths : cancels[p] # started

\* A context is registered under the path of its own request.
CancelsByPath ==
    \A p \in Paths : cancels[p] # 0 => request[cancels[p]].path = p

\* Only a provider's result can be an error, and only until it is checked.
ErrorIsChecked ==
    \A r \in Numbers : phase[r] \in {"dismissal", "respond"} => result[r] # Failure

\* After cancelAll nothing is registered, and every worker is cancelled.
EndingIsCancelled ==
    /\ pc = "waiting" => \A p \in Paths : cancels[p] = 0
    /\ pc \in {"closing", "returned", "panicked"} /\ output = "open" =>
          /\ pc # "panicked"
          /\ Quiet
          /\ \A p \in Paths : cancels[p] = 0

\* An entry's place is the input that appended it.
PlacesInOrder == \A e \in accepted \cup dismissed : e.place <= inputs

IInv ==
    /\ TypeOK
    /\ BegunInOrder
    /\ OutcomeOnceKnown
    /\ CachedByLoop
    /\ CancelsByPath
    /\ ErrorIsChecked
    /\ EndingIsCancelled
    /\ PlacesInOrder
    /\ PendingIsRegistered
    /\ PendingSeesDocument
    /\ VanishesOnlyCancelled
    /\ DismissedStaysHidden

-----------------------------------------------------------------------------
(***************************************************************************)
(* Refinement: the session keeps the promise of CompletionLifecycle.  A    *)
(* request is decided when it finds its context live, and it is answered,  *)
(* dropped or failed when its outcome is known.                            *)
(***************************************************************************)
Stage(r) ==
    CASE phase[r] = "unused" -> "unused"
      [] outcome[r] = "answered" -> "answered"
      [] outcome[r] = "failed" -> "failed"
      [] outcome[r] \in {"dropped", "stale"} -> "dropped"
      [] phase[r] \in {"provider", "context"} /\ outcome[r] = "none" ->
            IF r \in cancelled THEN "superseded" ELSE "current"
      [] phase[r] \in {"latest", "dismissal", "respond"} /\ outcome[r] = "none" ->
            IF r \in cancelled THEN "overtaken" ELSE "decided"
      [] OTHER -> "unused"

Lifecycle ==
    INSTANCE CompletionLifecycle WITH
        file  <- [r \in Numbers |-> request[r].path],
        stage <- [r \in Numbers |-> Stage(r)]

ImplementsLifecycle == Lifecycle!Spec

-----------------------------------------------------------------------------
(***************************************************************************)
(* Liveness, under FairSpec.                                               *)
(***************************************************************************)
(* A shutdown ends the process even if every provider call would otherwise *)
(* last forever: cancelAll reaches each worker that Wait waits for.        *)
ShutdownCompletes == pc = "stopping" ~> pc = "returned"

(* A result the provider returned for a request that is not superseded is  *)
(* reported to the editor, as a response or as an error.                   *)
ResultIsReported ==
    \A r \in Numbers :
        phase[r] = "context" ~> \/ r \in cancelled
                                \/ outcome[r] = "answered"
                                \/ outcome[r] = "failed" /\ phase[r] = "finished"

-----------------------------------------------------------------------------
(***************************************************************************)
(* What the documentation says and the code does not do.                   *)
(***************************************************************************)
(* docs/protocol.md: "If a cancelled provider still returns, core          *)
(* suppresses its response."  The worker looks at its context and at       *)
(* latest, lets go of the lock, and sends later.  (The empty state id is   *)
(* left out: isLatest also takes a missing entry for it.)                  *)
CancelledIsSuppressed ==
    [][\A r \in Numbers :
          request[r].id # EmptyId /\ phase[r] = "respond" /\ phase'[r] = "record"
          => r \notin cancelled]_vars

(* docs/protocol.md: "`inFlightRequests`: number of active provider        *)
(* requests."  A health response counts no more requests than there are    *)
(* workers that have not finished.                                         *)
InFlightIsActive ==
    [][pc = "health" /\ pc' # "health" =>
          InFlightRequests <=
             Cardinality({r \in Numbers : phase[r] \notin {"unused", "finished"}})]_vars

(* docs/protocol.md: an error message "reports recoverable protocol or     *)
(* completion errors", so the loop gets to read again or ends.             *)
ErrorsAreRecoverable ==
    pc = "fail" ~> (pc = "read" /\ input = "open") \/ pc = "returned"
=============================================================================
