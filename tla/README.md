# Verification of inliner

inliner suggests Go code at the cursor. An editor plugin (Neovim or VS Code)
starts the core, a Go program, and exchanges JSON lines with it over stdin and
stdout. The core keeps the documents, asks a model server for completions and
answers each request under the state id the editor gave it.

This directory holds TLA+ models of the program, the TLC runs that check them on
small instances and TLAPS proofs for every instance. All paths below are
relative to the repository; `session.go` is
`inliner-core/internal/session/session.go`, `cache.go` is
`inliner-core/internal/completion/cache.go`.

    tlc -config SessionOneFile.cfg MCSession.tla     a run
    tlapm SessionProofs.tla                          a proof

## 1. Inventory

| component | state | operations | what makes it correct |
|---|---|---|---|
| session (`session.go`) | `latest`, `cancels`, `requests` under `mu`; both caches; the worker group | `Run`, `handle`, one goroutine per completion | no worker runs on unseen, none vanishes unless cancelled, dismissed texts stay hidden, the end is clean and reached |
| suggestion caches (`cache.go`) | a bounded slice of entries with a lifetime | `Store`, `Lookup`, `IsDismissed` | limit and lifetime kept, scans agree, never a wrong text |
| transport (`protocol/`) | scanner on stdin, mutex on stdout | `Read`, `Send` | one line per message, errors are recoverable |
| document store and window (`document/`) | content per path | `Set`, `Get`, `AroundCursor` | the window lies around the offset |
| telemetry (`telemetry/`) | channel of 256 events, a writer | `Record`, `Close` | no send after close, nothing blocks, what was taken is written |
| edit history (`edithistory/`) | edits per file and project, one pending edit | `ObserveFileUpdate`, `ObserveCursor`, `Relevant` | limits kept, the newest edits kept, a hunk fits its text |
| diagnostics (`diagnostics/`) | queue, writer, socket server | `Connect`, `Publish`, `Close`, `Listen`, `serve` | publishing never blocks, what was queued is written, every `Close` returns |
| providers (`completion/`) | none | `Complete`, `Diagnostics` | heeds its context; an answer that repeats the suffix adds nothing |
| Go package context (`gocontext/`) | none over time | `Collect` | the buffer counts, not the disk; only names in scope are offered |
| prompt (`prompt/`) | none over time | `Build` | what is near the cursor survives the budget, no code is cut with the header |
| configuration, start-up (`config/`, `app/`, `cmd/`) | none over time | load, wire, run | |
| Neovim client (`inliner.nvim/lua`) | state id, pending update, shown suggestion, process | autocommands, keymaps, `on_response` | the core is told every typed text, and no cursor in a file it never saw |
| VS Code client (`inliner.vscode/src`) | process, pending completions, health slot | `start`, `stop`, `complete`, `health` | every promise is settled, by its own process |

How they interact: editor and core only through messages. In the core the read
loop calls everything; a worker shares with it `latest` and `cancels` (one
mutex), its own context, the dismissal cache (a mutex of its own), stdout (a
mutex) and the telemetry and diagnostics channels. The hard behaviours are the
worker's steps between the loop's, superseding and cancelling, what is checked
before a send and stale when sent, shutdown with workers running, pipes that
fail, caches whose limit, lifetime and refresh in place meet, and, on the
editor's side, late answers and debounced updates. `PROJECT.json` lists each
hazard at its line.

## 2. Modules

| module | what it is |
|---|---|
| `CacheEntries` | the entry list of both caches, as operators on a value |
| `SuggestionCache` | both caches as a state machine, one action per exported method |
| `SuggestionMemory` | what the caches promise: a memory that may forget, never invent |
| `Session` | the core process: read loop, handlers, workers, pipes, end of `Run` |
| `CompletionLifecycle` | what the core promises about the requests of a file |
| `EditText`, `EditHistory` | the hunk between two texts; the history of hunks |
| `EventSinks` | diagnostics publisher, its server and the telemetry recorder |
| `GoScope`, `GoContext` | identifiers visible at the cursor, next to Go's scopes; the package context |
| `RequestContext` | one buffer from its cursor to prompt and items, with window, prompt builder and trimming |
| `NvimClient` | the Neovim plugin's updates, suggestions and process |
| `VSCodeClient` | the VS Code extension's process and promises |
| `MC...` | instances for TLC |
| `SuggestionCacheProofs` | the caches' shape, forgetting and refinement, proved |
| `SessionProofs` | the inductive invariant of `Session`; that it implements the lifecycle |
| `EditHistoryProofs` | what the hunk computation returns; the inductive invariant of `EditHistory`, its limits, order and answers |
| `GoScopeProofs` | that what is offered as visible is in scope, and the innermost |
| `RequestContextProofs` | what the context holds, in which order, and what the prompt keeps, proved |
| `EventSinksProofs`, `NvimClientProofs`, `VSCodeClientProofs` | inductive invariants of these three, proved |

### Caches

A cache is a set of entries with a `place` instead of a slice: the place is the
order of appending, an entry refreshed in place keeps it, as it keeps its index.
Cutting the slice to its last `maxEntries` keeps the entries with the greatest
places. A context (language, path and the 200 bytes on both sides of the cursor,
`newCacheKey`) is a member of `Keys`. Every method holds the cache's mutex
throughout, so each is one action. The clock is a counter that only moves
forward.

`StoreAccepted` and `StoreDismissed` return at once for the empty text, and
every other call drops expired entries first, as in the code.

### Session

A step is what one goroutine does between two accesses to state that another
goroutine reads.

| state | in the code |
|---|---|
| `pc`, `newId` | where `Run`, `handle` and `handleStateUpdate` stand |
| `latest`, `cancels`, `requests` | the fields of `Session`; `cancels[p]` is the number of the request whose CancelFunc the map holds |
| `cancelled` | the requests whose context is done |
| `phase[r]`, `result[r]`, `outcome[r]` | where `runCompletion` stands, what the provider returned, what telemetry records |
| `documents`, `accepted`, `dismissed` | `document.Store` and the two caches |
| `input`, `output` | whether stdin and stdout still work |
| `inputs` | a bound, and the order in which requests and dismissals arrived |

A `state_update` is a list of items; the model chooses each item when the loop
reaches it, which gives the same behaviours as choosing the list at once. A
worker is split where the code lets go of a lock: the provider returns, the
context is looked at, `isLatest` is asked, the dismissal cache is asked, the
answer is sent, telemetry is recorded, an error is sent. The cached answer is
sent by the loop itself and shares the last two steps. `AnswerFromCache` joins
the lookup, `replaceActiveRequest` and `IsDismissed` into one step: what comes
before the middle one only touches state of the loop, and what comes after only
drops entries that have expired anyway. (The clock of the caches may not move
within the step.)

Ids are not unique, and one of them is the empty id, which Go's map also yields
for a missing key: `isLatest` compares against it.

The model takes telemetry as enabled; without it recording does nothing and the
state `panicked` is not reached.

### What is promised

`CompletionLifecycle` knows a file and a stage for each request: current, then
superseded or decided, a decided one may be overtaken; the end is answered,
failed or dropped. Only what was current when it was decided is answered, only
what was superseded is dropped. `Session!Stage` maps a worker's phase, its
context and its outcome to a stage. A request is decided when the worker finds
its context live; what is superseded later is overtaken and may still be
answered, which the editor must recognise by the state id.

### Edit history

| state | in the code |
|---|---|
| `files`, `pending`, `cursorLines` | the maps of `MemoryProvider`; a slice of edits is a sequence |
| `contents` | the text `document.Store` holds, which the session passes on as the old one |
| `now` | `time.Now`; every update reads a later tick |
| `answer` | what the last `Relevant` returned |

Every method holds the mutex throughout and is one action. `ObserveFileUpdate`
and `CompleteAtCursor` (which does `ObserveCursor` and `Relevant`, as
`startCompletion` calls them) contain the flushes and evictions they cause. The
order in which `Relevant` ranges over the map of pending edits is chosen. Texts
are characters, because the hunk is computed from them.

What merging means is not a property here, as the code does not promise it:
`mergeEdits` (`edithistory/history.go:258`) takes the merged text at the new
line numbers, so if the second update inserts lines above the first edit, the
merged hunk can miss part of it. `history_test.go:59` tests only a second edit
below.

### Event sinks

| state | in the code |
|---|---|
| `main` | where `app.Run` stands: connect, run, close the recorder, close the publisher |
| `next`, `pub.inside` | the event each worker publishes next, and who holds the read lock |
| `pub`, `writer` | `socketPublisher` and its `run` |
| `rec` | `AsyncRecorder` and its goroutine |
| `sock` | the socket's buffer and its two ends |
| `srv` | `Server`: listener, accept loop, one `serve`, `Close` |

A request's events come in the order of the code: the loop publishes that it
started (`session.go:282`) before there is a worker, the provider publishes the
prompt and that it awaits the model, the worker records the telemetry
(`session.go:545`) and then publishes the result (`session.go:563`). Requests
answered from the acceptance cache, where the loop does all of this itself, are
left out.

`pub.accepted` and `rec.taken` are histories: what the channels took and the
server has not decoded, or the file does not hold. The recorder discards the
error of `Encode` (`telemetry.go:83`), and the encoder keeps it: from the first
failed write on every event is taken and lost without a word (`EncodeFails`).
`NothingLost` and `CloseDrains` except this case, as they except a failed write
to the socket; in both, what has arrived is the beginning of what was taken. The
dial succeeds when the kernel queues the connection, before the server accepts it. A
write fails when the other end is closed or its deadline passes with the buffer
full. `MayNotWait` is the end of `Session.Run` on an input that failed, where
workers go on while the sinks close.

### Package context and prompt

`GoContext` is `Collect`: the files of the directory that parse, the unsaved
buffer instead of the current file, the declarations by kind, and the sort of
each. A file is a syntax tree next to a sequence of tokens; names are numbers,
the functions of go/parser are taken as given. `GoScope` has the identifiers
visible at an offset, next to the scopes of the Go specification
(`InScope`, `Innermost`) they are checked against. `RequestContext` moves the
cursor, edits, saves, builds a prompt in every order of the map of parsed files
and receives an answer.

The code calls itself on the body of the one statement that holds the cursor,
and `add` replaces what has the same name. `GoScope` writes this without
recursion over statements: `Searched(fn, cursor)[n]` is the list the code goes
through at depth `n`. At most one statement of a list holds the cursor, and it
is the last that list adds anything for, so what the calls add, in their order,
is what each list adds, one list after the other (`Identifiers`); `Added` then
keeps the place of the first and the value of the last of each name. Each list
begins later than the one around it, so there are no more than there are bytes
between the body's brace and the cursor. The properties are
`NamesInScope`, and `InnermostShown` where the code looks. It is known not to
look (`NotLookedAt`) after the last statement of a case clause, in the clauses
of a select, at the variable of a type switch and in a statement with a label.

A sort is written by the places of its elements (`Arranged`): an element's place
is one more than the number of those that come before it, by the order or, on a
tie, by where they stood.

The sorts leave functions, types and interfaces that tie in the order in which
the map of parsed files was ranged over (`package.go:140`).
`PromptIgnoresMapOrder` says that this shows nowhere in the prompt. It holds
where a package declares a name once, as Go asks of the files that are built
together: what ties then reads the same. `collect` does not look at build
constraints, so a directory with a type of one name, here a struct and there an
interface, per platform can give two equal requests different prompts; the runs
have none, and nothing in the repository promises otherwise.

`NotLookedAt` names where the code does not look, and the types may differ
there: the end of a case clause (after its last statement), the clauses of a
`select`, the variable of a type switch.

`trimPackageImportPreamble` tests whether the window begins with the word
`package` (`builder.go:296`) and then cuts its line, and what an `import` begins
behind it. A window starts at any byte. If it begins with the file's own clause,
no code goes (`PromptKeepsText`). If it begins with the word elsewhere, in a
comment, a raw string or at the end of a name, its first line goes, code or not;
the run has such windows, in a comment of the header and behind the header, and
of them the property says only that the front is cut, and that the imports are
in the prompt then. Nothing in the repository promises more.

Other observations: closures and local
constants are not listed; a type inferred for one name of a `var` or `const`
spec is kept for the names after it; one file of the directory that does not
parse leaves the request without package context; an answer that repeats a
suffix beginning with a blank is shown although `docs/protocol.md:279` says
that it is trimmed.

### Neovim client

| state | in the code (`inliner.nvim/lua/inliner/init.lua`) |
|---|---|
| `seq`, `latest`, `bufOf` | `state.seq`, `latest_state_id_by_buf`, `buf_by_state_id` |
| `pending`, `scheduled` | `pending_by_buf`; callbacks of expired timers behind `vim.schedule` |
| `suggestion`, `sent`, `auto` | `suggestion_by_buf`, `sent_paths`, `auto_suggest_enabled` |
| `running`, `core`, `answerable` | the process, what it was told of each buffer, ids still to be answered |
| `mode`, `current`, `text`, `owed` | the editor; `owed`: a change by the plugin whose events have not fired |

Every autocommand, key and command is one action, since Lua runs a callback to
its end. A text is the number of its changes, a suggestion the words left of it;
ids handed out are numbers. `lapsed` is a history of the buffers whose pending
file was dropped unsent.

`send_state_update` sends, or it clears the suggestion and returns: the buffer
has no name, or the cursor is in a comment or a string (`init.lua:226-235`;
`Suppressed`). Where the cursor is in the syntax is Neovim's business, so either
may happen at every update. By then the callback has taken the pending update
away, and with it that the file was due: later cursor moves send the cursor
alone, and the core completes an old text until the next change. `lapsed` holds
these buffers too, so `TypedTextIsPending` says what is true: nothing else makes
the file be forgotten.

Nothing is claimed of what is displayed. An answer that arrives before the
debounce ends is shown at a position that has moved on (`docs/protocol.md:367`
leaves that to the editor); `on_response` compares ids only, so it also shows an
answer after `stop` or `disable`; `InsertLeave` and edits in normal mode leave
the core with an older text until the next insertion; the events after
`accept_word` clear the words that are left.

### VS Code client

| state | in the code (`inliner.vscode/src/extension.ts`) |
|---|---|
| `process`, `cores` | `CoreClient.process`, and what became of each spawned one |
| `completions`, `pending` | the promises of `complete`; the map of pending ids |
| `healths`, `pendingHealth` | the promises of `health`; the one slot |

JavaScript runs to the next await, so a command, a line, a process event and a
timeout are one action each. A process that could not be started stays in
`process` until its error event. The exit of an old process empties `process`
and rejects what is pending, whoever's it is: the new process then runs on and
is never told to end. That is in the model; `WaitsForItsCore` holds all the
same, because everything pending is rejected with it. It speaks of the
completions and of the health request in the slot. A health request that a later
one displaced is found by nobody: after `health`, `health`, `stop` it waits for a
core that was let go, until its own timer fires (`NobodyForgotten`). A health answer carries no id and
settles whoever has the slot.

## 3. Runs

| run | properties | what it shows |
|---|---|---|
| `suggestion_cache` | `TypeOK`, `CacheShape`, `ForgetsOnlyWhenDue`, `ImplementsMemory` | limit, lifetime and refresh in place keep the caches in shape; an entry goes only when it is due; `Lookup` returns the text accepted last or none |
| `session_one_file` | `TypeOK`, `PendingSeesDocument`, `DismissedStaysHidden`, `ImplementsLifecycle` | one file whose text and suggestions change while workers are at every step |
| `session_two_files` | `PendingIsRegistered`, `VanishesOnlyCancelled`, `CleanEnd` | two files sharing ids; stdin and stdout fail at any step |
| `session_liveness` | `ShutdownCompletes`, `ResultIsReported` | a shutdown ends the process; a result that is not superseded is reported |
| `edit_history` | `TypeOK`, `Limits`, `Chronological`, `FlushOrderIrrelevant`, `AnswerIsBest`, `NewestSurvive`, `HunkFits` | two files whose edits merge, are stored and evict each other; the newest survive, a map's order does not show, a request gets the best edits, a hunk stands where it says |
| `event_sinks` | `NothingLost`, `CloseDrains`, `ClosedServesNobody`, `PublishEnds`, `ClosesReturn` | loop and workers publish and record while the core closes, writes fail, and its server is absent, slow, suspended or closing; what was accepted is lost only by a failed write, nothing enters a closed queue, every `Close` returns |
| `request_context` | `BufferIsSource`, `PromptIgnoresMapOrder`, `OwnFileSurvivesBudget`, `NamesInScope`, `InnermostShown`, `PromptKeepsText`, `EchoAddsNothing` | every cursor of some thirty function bodies, and a package of five files under edits; what is read, offered, kept and trimmed |
| `nvim_client` | `TypeOK`, `SentIsKnown`, `TypedTextIsPending`, `SendsAfterQuiet` | two buffers, debounce timers whose callbacks wait, answers, a core that exits and is replaced |
| `vscode_client` | `WaitsForItsCore`, `NobodyForgotten`, `PromisesSettle` | three processes that fail, end late and are replaced while requests wait and time out |
| `session_stale` | `CancelledIsSuppressed` (violated) | `docs/protocol.md:373` says a cancelled provider's response is suppressed; a request cancelled between the check and the send is answered |
| `session_in_flight` | `InFlightIsActive` (violated) | `docs/protocol.md:333` says `inFlightRequests` counts active requests; entries of finished workers are counted |
| `session_input_failure` | `ErrorsAreRecoverable` (violated) | `docs/protocol.md:283` says errors are recoverable; after a failed scanner the loop sends errors for ever |

Bounds. The caches: three contexts against a limit of two, two texts, four
stores, a clock that runs past a lifetime of one tick; every order of eviction,
refresh and expiry occurs. The session: two requests, since a file's entry only
ever names one and a third meets the same two situations (the one before is
pending, or it is not); five inputs on one file (text, request, accept or
dismiss, changed or repeated text, request), four on two files (both texts, both
requests, in any order with cancellations between). `MaxNow` is 0 where no
property is about time, 2 in the liveness run.

The edit history: limits of two edits per file and per project with two files
and four ticks, so that either limit evicts, also while an edit is pending; a
merge window of one tick; three texts, of which one inserts a line above and one
is blank below. The sinks: two requests with four events each (the start, by the loop; a
prompt, which a server that is not verbose does not get; the telemetry; a
result) against channels and a socket of one place, so that each is full, drops
and blocks; the fifth event, published like the prompt, is left out for size. The request
context: bodies with every compound statement, names declared twice and in inner
blocks; a budget of two entries against more in each section; a window that
cuts the header at some cursors, and at others begins with the word `package`
in a comment or a value. The Neovim client: two changes, ids and starts,
two buffers, one callback waiting; a second waiting callback only repeats what
one does, since each is told apart by its timer alone. The VS Code client:
three processes, because one can end late while its successor is held and the
next is started, and two requests of each kind, as many as can take one slot
from each other.

Files, contents, texts and buffers are symmetric; no symmetry is used with
liveness. Deadlock is checked except where the system may really stop:
`event_sinks` (the core has ended and its server is closed or waits for
another), `edit_history` (the bound on the clock, and so on updates) and
`vscode_client` (nobody waits and the bounds are spent). The session's `Over` is
the step of a process that has ended.

Fairness. Session (`FairSpec`): the loop's own steps and every step of a worker,
because the Go scheduler runs what can run, a write to a pipe returns, and the
provider diagnostics the loop waits for have a timeout, which the configuration
requires to be positive. Of a provider only this: it returns once its context is
cancelled, as its HTTP request carries the context. Nothing is assumed of a
provider left alone, nor of the editor. Event sinks: each goroutine of the core
takes its steps and a deadline that is set passes; that
a request comes is not assumed, only that one that has begun goes on; of the
server only that its own `Close` goes on and that a client it lost ends, not that it reads. VS Code
client: a timer that is set fires; nothing of the cores.

Every property of a passing run has a mutant: a variant of a definition, kept
next to it, as a plausible mistake would write it, for which TLC finds the
property violated.

## 4. Proofs

From the assumptions on the constants alone (`CacheAssumption`,
`BoundAssumption`, `SessionAssumption`, `HunkAssumption`, `HistoryAssumption`,
`SinksAssumption`, `BoundsAssumption`, `NothingAssumption`, `ClientAssumption`,
`ContextAssumption`), for any number of files, ids, contents, offsets, requests,
inputs, texts and ticks, any limit and lifetime of the caches, with both pipes
failing or not:

- of the caches, all that their run checks: `CacheTypeCorrect`,
  `CacheShapeAlways`, `ForgetsOnlyWhenDueAlways`, `CachesImplementMemory`;
- `SessionInvariant`: `Spec => []IInv`, and from it the type invariant and the
  five safety properties the runs check (`TypeCorrect`,
  `PendingAlwaysRegistered`, `PendingAlwaysSeesDocument`,
  `OnlyCancelledVanish`, `DismissedNeverShown`, `EndIsClean`);
- of the edit history, all that its run checks: `TypeCorrect`, `LimitsHold`,
  `InTheOrderOfTime`, `MapOrderIrrelevant`, `BestAnswer`, and of its steps
  `OldestGoFirst` and `HunksFit`, for any texts over any characters, any files,
  limits, windows and thresholds;
- of the request context, for any package, buffer, cursor, window and budget,
  all that its run checks: `ContextOfBuffer`, `OwnFileKept`, `VisibleInScope`,
  `InnermostIsShown`, `TextKeptInPrompt`, `EchoesDropped`, and
  `MapOrderIgnored`, whose hypothesis is that names are declared once
  (`OneDeclaration`), which holds in every state of the run;
- of the visible identifiers themselves, for statements nested to any depth and
  every cursor in a body: `VisibleAreInScope` and, where the code looks,
  `VisibleAreInnermost`;
- of the event sinks, Neovim client and VS Code client every invariant and
  safety action property their runs check (`NoEventIsLost`,
  `CloseWaitsForTheLast`, `PublishingEnds`, `ClosedServerServesNobody`; `Types`,
  `KnowsWhatIsSent`, `TypedTextIsSent`, `QuietBeforeSend`;
  `NoneWaitsForAnother`, `NoneIsForgotten`), and the types of the event sinks
  (`TypeCorrect`), for any workers, events, capacities, buffers, processes and requests;
- `SessionImplementsLifecycle`: `Spec => ImplementsLifecycle`;
- `OneCurrentRequest`: a file never has two requests that may still be decided,
  proved of the lifecycle and carried over by the refinement.

The argument. `PendingIsRegistered` alone is not inductive: a cached answer and
a worker share their last steps (`CachedByLoop` tells them apart), a request
that has not begun must not look registered (`BegunInOrder`), and cancelling
what a path's entry names must hit a request of that path (`CancelsByPath`).
With these, every step that replaces an entry cancels the pending request it
named, and no other becomes pending. `VanishesOnlyCancelled` follows at the one
place where it could break: a worker that finds itself not the latest is not
registered, so it was cancelled. `PendingSeesDocument` holds because the only
step that changes a document cancels its path in the same action of the loop.
`DismissedStaysHidden` needs that an entry's place is the input that stored it
(`PlacesInOrder`) and that a refresh keeps it; the lemmas of
`SessionProofs` say so for the two `Store` methods. `CleanEnd` needs that
after `cancelAll` nothing is registered (`EndingIsCancelled`) and that the loop,
which alone registers requests, has stopped.

The refinement: a step that cancels what the maps name for a set of files
supersedes exactly the current and decided requests of these files
(`CancelSupersedes`); every step of a worker moves its own request by one step
of the lifecycle or not at all; the rest stutter.

The caches. `CacheInv` adds to the shape that no place exceeds the number of
calls, so a new place is new. The two facts about the cut are counted: the
oldest entry that stays has all the others behind it, and fewer than the limit
are (`NewestIsBounded`); the latest entry that is dropped has a limit's worth
behind it, and those stay (`DroppedIsDue`). `StoreAcceptedKeeps` and
`StoreDismissedKeeps` say what a Store leaves; one entry per key makes a
lookup's answer that entry's text (`LookupFinds`), which is what the refinement
needs of every action.

The edit history. Every edit has a time of its own, so a history is known by the
set of its edits (`SameHistory`: two histories with the same edits are equal).
Both limits then say one thing: what they keep is the `n` newest of a set
(`IsNewest`), and such a set is unique. `StoreKeepsNewest` shows it of a Store;
`NewestTwice` shows that the newest of the newest of a part, joined with the
rest, are the newest of the whole. So after the pending edits of a set of files
are stored, in whatever order, what is left is the newest of what all files
would have (`FlushFacts`, by induction over the recursive function `Flush`): two
orders leave the same edits (`MapOrderIrrelevant`), and what a step drops is
older than what it keeps (`OldestGoFirst`). The invariant adds to `Limits` and
`Chronological` that a pending edit is newer than the history of its file, that
no two edits of history and pending share a time and that none is from the
future; without these a flush could put an edit out of order or at a time that
is taken. `BestAnswer`: `Precedes` is a strict order on edits of different times
(`PrecedesInOrder`), so a sorted list exists (`SortedExists`, by the number of
edits) and its beginning is the best (`CutIsBest`).

The hunk. `CommonPrefixFacts` and `CommonSuffixFacts` bound what two texts share
so that the two parts cannot overlap; cut back to line starts and forward to line
ends (`LineStartFacts`, `LineEndsAlike`), the two texts still agree outside, so
taking the new side out of the new text and putting the old side in gives the
old text (`HunkOfTexts`). For a merged edit `MergeEditsFacts` promises only that
the new side stands where the hunk says.

The request context. The invariant says where a context and a prompt come from:
a context is what `Collect` returns of the buffer for some order of the map
(`Collected`), a prompt is what `Build` makes of it (`Prompted`). The properties
are then facts about these two. Counting places with a strict weak order is a
permutation in order (the lemmas on `Arranged`), so a sorted list has the
entries of all files, each once (`ContextOfBuffer`, with what a concatenation
holds). `OwnFileKept` compares scores: the current file alone gives 1000
(`importScore`, `typeScore`), all the rest together at most 700. For
`TextKeptInPrompt` the scan of the preamble is followed token by token. It cuts
a front of the window, whatever the window is (`PreambleInHeader`). From the
file's own clause on it stops at the end of the header at the latest, whole or
cut by the window: the clause ends with its line, and what the scan takes for
the first import is one, because behind that line nothing but blanks lies before
it (`ClauseInHeader`, `FirstImport`, `ImportInHeader`).
`EchoesDropped`: an answer that is a beginning of the suffix, with code at both
ends, is left alone by the trimming, and so all of it is an overlap.
`MapOrderIgnored`: two sorts of the same entries tie place by place (`SameOrder`,
by counting). Imports and values that tie come from one file, in which they have
an order of their own, so these lists are equal; functions, types and
interfaces that tie read the same, and the sections are made of what they read.

The visible identifiers. A scope is an identifier with the offset it begins at
and the one it ends at. A list of identifiers is `Dated` by a set of identifiers
with offsets when it has these and, of two with one name, the later has the
later offset; then what `Added` leaves of it is each name once, with the
identifier of the latest offset (`AddedFacts`). What a list of statements adds
is dated by where its scopes begin (`ListDated`), and the lists are dated one
after the other because each stands within a statement of the one before, behind
all that list adds (`PathPlaced`, `AddedBefore`): so the whole is
(`IdentifiersDated`). That gives both theorems once the dates are the scopes.
One way, what a searched list adds reaches the cursor: its block holds the
cursor, or the statement that does (`DeclaredReaches`, `AddedInScope`). The
other way, a statement with the cursor inside is in a searched list if those
around it are looked into, by induction over the nesting (`HoldersSearched`),
which is what `NotLookedAt` rules out otherwise; so every variable in scope was
added (`InScopeAdded`). The induction is over the levels of a function
(`Level`), which are numbers, not over the trees.

The event sinks. `NothingLost` needs a bound on where events can be: a worker
inside `Publish` has an event (`InsidePublishes`), the writer holds one only
while it selects or drains, drains only once `Publish` is closed to workers, and
ends with an empty queue or a failure (`StagesInv`). Then each step moves an
event from the end of one part of `wire, hand, queue` to the next, which is associativity of `\o`,
and `Decode` takes the first event of the wire and of `accepted`, which are the
same. `PublishingEnds` rests on `Close` taking the lock, so nobody is inside
`Publish` when the queue is marked closed. `ServerInv` orders the steps of `Close`: the
listener, the accept loop, the clients; a connection still in the backlog is
reset with the listener, so after `Close` none is open.

The Neovim client. The types are inductive by themselves, but for the count of
waiting callbacks. `SentIsKnown` and `TypedTextIsPending` are inductive with
them. `SendsAfterQuiet` needs `OwnHasExpired`: a callback that waits and still
owns its timer belongs to one that expired. That holds because a new timer gets
a number no waiting callback has (`NewTimerIsNew`, by counting: fewer callbacks
wait than there are numbers to choose from).

The VS Code client. `WaitsForItsCore` and `NobodyForgotten` are inductive
together with the types. What empties `process` rejects all that is pending;
a timer is cleared only with its promise, and the slot is emptied by whichever
health request times out, which leaves the other its own timer.

`HistoryAssumption` asks of the texts that they are sequences of characters, of
the files that they are finitely many (there are as many as the editor has sent)
and of a request that its words are; `HunkAssumption` only that the limit on a
hunk is a number. `ContextAssumption` describes files as go/parser and gofmt
give them: tokens; a clause that begins with the word `package`, behind comments
if there are any; a header that holds all of the clause's line and of the import
that comes first behind it, and that neither a blank nor an import follows. So
no comment begins on the clause's line and goes on below it with what looks like
an import. The two words may stand anywhere else too. A token is not cut by the
window. Of a function with a body in a file that parses it asks (`FunctionsAreWhole`, `IsFunction`) that what belongs to a
statement stands within it and that statements follow each other without
overlap, as they do in text; that a list declares a name once in one statement;
and that no label stands before a declaration, which Go allows and nobody
writes. Empty statements, which have no text, are left out. How deep
statements nest needs no bound: every level begins at least a byte later.

Only model-checked: liveness, which the prover cannot do (`ShutdownCompletes`,
`ResultIsReported`, `ClosesReturn`, `PromisesSettle`), and the three
violations, which are TLC's.

## 5. Not modelled

- Configuration and start-up: reading files, defaults, flags; nothing changes
  afterwards. The composition of `app.Run` is in `EventSinks`.
- The socket file (`removeStaleSocket`, its removal on `Close`): two processes
  and a file system race there; only one server is modelled.
- JSON and its errors beyond valid or not, wording, time stamps, the fields of
  events, HTTP and its status codes, debug files, the fake provider.
- go/parser and go/format: a file parses or not, its tree is given.
- Neovim: ghost text, health report, models, set-up, and the syntax tree that
  tells a comment or a string. VS Code: settings, the search for the binary, the
  inline provider's conversion of items.

What is left to do: a composition of `NvimClient` with `CompletionLifecycle`, in
place of the answers at any time it assumes now, and the two processes of the
socket file.
