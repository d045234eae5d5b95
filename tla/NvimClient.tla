----------------------------- MODULE NvimClient -----------------------------
(***************************************************************************)
(* The Neovim plugin (inliner.nvim/lua/inliner/init.lua and client.lua):   *)
(* autocommands and commands, the debounced state updates, the responses   *)
(* and the core process that is started, stopped and lost.                 *)
(*                                                                         *)
(* Lua runs on one thread: each autocommand, command, timer callback and   *)
(* message is one step, and vim.schedule leaves callbacks waiting between  *)
(* steps.  A text is the number of changes made to the buffer, a           *)
(* suggestion the words left of it.  Neovim itself is external: typing     *)
(* fires its autocommand at once, a change made by the plugin fires it     *)
(* before the next key is read.                                            *)
(***************************************************************************)
EXTENDS Naturals, FiniteSets, FiniteSetsExt

CONSTANTS
    Buffers,        \* buffers of a supported file type, each with a path
    Nothing,        \* no pending update, suggestion, id or text
    AutoStart,      \* config.auto_start
    MaxWords,       \* words of a suggestion
    MaxChanges,     \* changes made to the buffers
    MaxScheduled,   \* timer callbacks that wait
    MaxSeq,         \* state ids handed out
    MaxStarts       \* core processes started

ASSUME BoundsAssumption ==
    /\ {MaxWords, MaxChanges, MaxScheduled, MaxSeq, MaxStarts} \subseteq Nat
    /\ MaxWords > 0

ASSUME NothingAssumption ==
    /\ Nothing \notin Nat
    /\ Nothing \notin [timer : Nat, file : BOOLEAN, expired : BOOLEAN]
    /\ Nothing \notin [id : Nat, words : Nat]

VARIABLES
    mode,           \* "insert" or "normal"
    current,        \* the current buffer
    text,           \* buffer -> its text
    owed,           \* whether Neovim still has to fire the events of a change
    auto,           \* state.auto_suggest_enabled
    seq,            \* state.seq, the last state id
    latest,         \* state.latest_state_id_by_buf
    bufOf,          \* state.buf_by_state_id, for the ids 1..seq
    pending,        \* state.pending_by_buf: [timer, file, expired] or Nothing
    scheduled,      \* callbacks of expired timers that wait: [timer, buf]
    suggestion,     \* state.suggestion_by_buf: [id, words] or Nothing
    sent,           \* state.sent_paths
    running,        \* client:is_running()
    starts,         \* core processes started so far
    core,           \* buffer -> the text the running core has of it, or Nothing
    answerable,     \* ids an answer to which may still arrive
    lapsed          \* history: buffers whose file update was dropped unsent, by
                    \* disable or by a suppression, since the core got their text

editor == <<mode, current, text, owed>>
updates == <<pending, scheduled>>
ids == <<seq, latest, bufOf>>
process == <<sent, running, starts, core>>
vars == <<editor, auto, ids, updates, suggestion, process, answerable, lapsed>>

-----------------------------------------------------------------------------
(* Timers.  A new timer differs from the one that is set for its buffer    *)
(* and from those whose callback waits.                                    *)
TimersInUse(b) ==
    {cb.timer : cb \in {x \in scheduled : x.buf = b}}
        \cup IF pending[b] = Nothing THEN {} ELSE {pending[b].timer}

NewTimer(b) ==
    CHOOSE t \in 1..MaxScheduled + 2 : t \notin TimersInUse(b)

(* A mutant: the new update forgets that the old one had the file. *)
LastFlag(b, file) == file

WithFile(b, file) == file \/ (pending[b] # Nothing /\ pending[b].file)

(* schedule_state_update *)
Schedule(b, file) ==
    pending' = [pending EXCEPT
        ![b] = [timer |-> NewTimer(b), file |-> WithFile(b, file), expired |-> FALSE]]

(* stop_pending_update *)
StopPending(b) == pending' = [pending EXCEPT ![b] = Nothing]

(* clear_suggestion *)
ClearSuggestion(b) == suggestion' = [suggestion EXCEPT ![b] = Nothing]

-----------------------------------------------------------------------------
(* M.start, M.stop and the end of the process *)

(* A mutant: a new core is believed to have the files of the old one. *)
KeepsPaths(b) == sent[b]

SentAfterStart(b) == FALSE

StartCore ==
    /\ running' = TRUE
    /\ starts' = starts + 1
    /\ sent' = [b \in Buffers |-> SentAfterStart(b)]
    /\ core' = [b \in Buffers |-> Nothing]
    /\ lapsed' = {}

Start ==
    /\ ~ running /\ starts < MaxStarts
    /\ StartCore
    /\ UNCHANGED <<editor, auto, ids, updates, suggestion, answerable>>

Stop ==
    /\ pending' = [b \in Buffers |-> Nothing]
    /\ suggestion' = [b \in Buffers |-> Nothing]
    /\ sent' = [b \in Buffers |-> FALSE]
    /\ running' = FALSE
    /\ core' = [b \in Buffers |-> Nothing]
    /\ lapsed' = {}
    /\ UNCHANGED <<editor, auto, ids, scheduled, starts, answerable>>

(* on_exit of a process nobody stopped: the plugin only learns that it is gone. *)
CoreExits ==
    /\ running
    /\ running' = FALSE
    /\ core' = [b \in Buffers |-> Nothing]
    /\ UNCHANGED <<editor, auto, ids, updates, suggestion, sent, starts, answerable, lapsed>>

(* A core that does not start: Client:start raises an error, which ends     *)
(* the command or the autocommand that called M.start.                     *)
StartRaises ==
    /\ ~ running
    /\ sent' = [b \in Buffers |-> FALSE]
    /\ UNCHANGED <<running, starts, core, lapsed>>

StartFails ==
    /\ StartRaises
    /\ UNCHANGED <<editor, auto, ids, updates, suggestion, answerable>>

MaybeAutoStart ==
    IF AutoStart /\ ~ running /\ starts < MaxStarts
    THEN StartCore
    ELSE UNCHANGED <<process, lapsed>>

-----------------------------------------------------------------------------
(* next_state_id: the buffer's earlier ids are no longer its latest. *)
NextStateId(b) ==
    /\ seq < MaxSeq
    /\ seq' = seq + 1
    /\ latest' = [latest EXCEPT ![b] = seq + 1]
    /\ bufOf' = [i \in 1..seq + 1 |-> IF i = seq + 1 THEN b ELSE bufOf[i]]
    /\ answerable' = answerable \cup {seq + 1}

(* The buffer whose text the core will miss when its pending update is dropped. *)
Dropped(b) == {x \in {b} : pending[x] # Nothing /\ pending[x].file}

(* send_state_update of a client that runs, to its end: the suggestion is  *)
(* whatever it was.                                                        *)
Sends(b, file) ==
    LET withFile == file \/ ~ sent[b]
    IN /\ NextStateId(b)
       /\ sent' = [sent EXCEPT ![b] = TRUE]
       /\ core' = IF withFile THEN [core EXCEPT ![b] = text[b]] ELSE core
       /\ lapsed' = IF withFile THEN lapsed \ {b} ELSE lapsed

(* Its other two returns: the buffer has no name, or the cursor stands in  *)
(* a comment or a string and suppress_in_comments_strings is set.  The     *)
(* update that was pending is gone, and with it that the file was due.     *)
Suppressed(b) ==
    /\ lapsed' = lapsed \cup Dropped(b)
    /\ UNCHANGED <<ids, sent, core, answerable>>

(* Where the cursor stands in the syntax is Neovim's business. *)
SendStateUpdate(b, file) ==
    \/ Sends(b, file) /\ UNCHANGED suggestion
    \/ Suppressed(b) /\ ClearSuggestion(b)

TimerExpires(b) ==
    /\ pending[b] # Nothing
    /\ ~ pending[b].expired
    /\ Cardinality(scheduled) < MaxScheduled
    /\ pending' = [pending EXCEPT ![b].expired = TRUE]
    /\ scheduled' = scheduled \cup {[timer |-> pending[b].timer, buf |-> b]}
    /\ UNCHANGED <<editor, auto, ids, suggestion, process, answerable, lapsed>>

(* A mutant: any pending update will do. *)
AnyPending(cb) == pending[cb.buf] # Nothing

IsOwn(cb) == pending[cb.buf] # Nothing /\ pending[cb.buf].timer = cb.timer

(* The scheduled callback of a timer: it sends only what it was set for. *)
Callback(cb) ==
    /\ scheduled' = scheduled \ {cb}
    /\ IF ~ IsOwn(cb)
       THEN UNCHANGED <<ids, pending, suggestion, sent, core, answerable, lapsed>>
       ELSE /\ StopPending(cb.buf)
            /\ IF auto /\ running
               THEN SendStateUpdate(cb.buf, pending[cb.buf].file)
               ELSE /\ lapsed' = IF auto THEN lapsed ELSE lapsed \cup Dropped(cb.buf)
                    /\ UNCHANGED <<ids, suggestion, sent, core, answerable>>
    /\ UNCHANGED <<editor, auto, running, starts>>

(* M.complete *)
Complete ==
    /\ running \/ (AutoStart /\ starts < MaxStarts)
    /\ StopPending(current)
    /\ ClearSuggestion(current)
    /\ IF running
       THEN (Sends(current, TRUE) \/ Suppressed(current)) /\ UNCHANGED <<running, starts>>
       ELSE \/ /\ running' = TRUE /\ starts' = starts + 1
               /\ NextStateId(current)
               /\ sent' = [b \in Buffers |-> b = current]
               /\ core' = [b \in Buffers |-> IF b = current THEN text[b] ELSE Nothing]
               /\ lapsed' = {}
            \/ StartCore /\ UNCHANGED <<ids, answerable>>
    /\ UNCHANGED <<editor, auto, scheduled>>

-----------------------------------------------------------------------------
(* on_response: words is 0 for an answer without a text *)
OnResponse(id, words) ==
    /\ id \in answerable
    /\ answerable' = answerable \ {id}
    /\ LET b == bufOf[id]
       IN IF latest[b] # id THEN UNCHANGED suggestion
          ELSE suggestion' = [suggestion EXCEPT
                    ![b] = IF words = 0 THEN Nothing ELSE [id |-> id, words |-> words]]
    /\ UNCHANGED <<editor, auto, ids, updates, process, lapsed>>

(* An error the plugin expects of a provider clears the current buffer's   *)
(* suggestion; it may come from a core that has ended since.               *)
OnExpectedError ==
    /\ starts > 0
    /\ ClearSuggestion(current)
    /\ UNCHANGED <<editor, auto, ids, updates, process, answerable, lapsed>>

RoomForChange == MapThenSumSet(LAMBDA b : text[b], Buffers) < MaxChanges

Change(b) ==
    /\ RoomForChange
    /\ text' = [text EXCEPT ![b] = text[b] + 1]

(* M.accept, and M.accept_word of the last word *)
Accept ==
    /\ suggestion[current] # Nothing
    /\ Change(current)
    /\ owed' = TRUE
    /\ ClearSuggestion(current)
    /\ Schedule(current, TRUE)
    /\ UNCHANGED <<mode, current, auto, ids, scheduled, process, answerable, lapsed>>

(* A mutant: a suggestion of which nothing remains is kept. *)
AnyWords(b) == suggestion[b].words > 0

WordsToSpare(b) == suggestion[b].words > 1

(* M.accept_word with words to spare *)
AcceptWord ==
    /\ suggestion[current] # Nothing
    /\ WordsToSpare(current)
    /\ Change(current)
    /\ owed' = TRUE
    /\ suggestion' = [suggestion EXCEPT ![current].words = @ - 1]
    /\ UNCHANGED <<mode, current, auto, ids, updates, process, answerable, lapsed>>

Dismiss ==
    /\ suggestion[current] # Nothing
    /\ ClearSuggestion(current)
    /\ UNCHANGED <<editor, auto, ids, updates, process, answerable, lapsed>>

-----------------------------------------------------------------------------
(* Keys and the autocommands they fire *)

(* TextChangedI, and the CursorMovedI that comes with it *)
TextChanged(b) == ClearSuggestion(b) /\ Schedule(b, TRUE)

Type ==
    /\ mode = "insert" /\ ~ owed
    /\ Change(current)
    /\ TextChanged(current)
    /\ UNCHANGED <<mode, current, owed, auto, ids, scheduled, process, answerable, lapsed>>

(* The events of a change the plugin made: TextChangedI in insert mode,    *)
(* CursorMoved otherwise.                                                  *)
OwedEvents ==
    /\ owed
    /\ owed' = FALSE
    /\ ClearSuggestion(current)
    /\ Schedule(current, mode = "insert")
    /\ UNCHANGED <<mode, current, text, auto, ids, scheduled, process, answerable, lapsed>>

(* CursorMovedI, CursorMoved *)
Move ==
    /\ ~ owed
    /\ ClearSuggestion(current)
    /\ Schedule(current, FALSE)
    /\ UNCHANGED <<editor, auto, ids, scheduled, process, answerable, lapsed>>

(* A change in normal mode: the plugin listens to no event of it. *)
NormalEdit ==
    /\ mode = "normal" /\ ~ owed
    /\ Change(current)
    /\ UNCHANGED <<mode, current, owed, auto, ids, updates, suggestion, process, answerable,
                   lapsed>>

InsertEnter ==
    /\ mode = "normal" /\ ~ owed
    /\ mode' = "insert"
    /\ \/ MaybeAutoStart /\ Schedule(current, TRUE)
       \/ AutoStart /\ StartRaises /\ UNCHANGED pending
    /\ UNCHANGED <<current, text, owed, auto, ids, scheduled, suggestion, answerable>>

InsertLeave ==
    /\ mode = "insert" /\ ~ owed
    /\ mode' = "normal"
    /\ StopPending(current)
    /\ ClearSuggestion(current)
    /\ UNCHANGED <<current, text, owed, auto, ids, scheduled, process, answerable, lapsed>>

(* BufLeave of one buffer, then BufEnter of another *)
SwitchBuffer(b) ==
    /\ mode = "normal" /\ ~ owed
    /\ b # current
    /\ current' = b
    /\ \/ /\ MaybeAutoStart
          /\ pending' = [pending EXCEPT
                ![current] = Nothing,
                ![b] = [timer |-> NewTimer(b), file |-> TRUE, expired |-> FALSE]]
       \/ AutoStart /\ StartRaises /\ StopPending(current)
    /\ ClearSuggestion(current)
    /\ UNCHANGED <<mode, text, owed, auto, ids, scheduled, answerable>>

Enable ==
    /\ ~ auto
    /\ auto' = TRUE
    /\ UNCHANGED <<editor, ids, updates, suggestion, process, answerable, lapsed>>

Disable ==
    /\ auto
    /\ auto' = FALSE
    /\ lapsed' = lapsed \cup UNION {Dropped(b) : b \in Buffers}
    /\ pending' = [b \in Buffers |-> Nothing]
    /\ ClearSuggestion(current)
    /\ UNCHANGED <<editor, ids, scheduled, process, answerable>>

-----------------------------------------------------------------------------
Init ==
    /\ mode = "normal"
    /\ current \in Buffers
    /\ text = [b \in Buffers |-> 0]
    /\ owed = FALSE
    /\ auto \in BOOLEAN
    /\ seq = 0
    /\ latest = [b \in Buffers |-> Nothing]
    /\ bufOf = <<>>
    /\ pending = [b \in Buffers |-> Nothing]
    /\ scheduled = {}
    /\ suggestion = [b \in Buffers |-> Nothing]
    /\ sent = [b \in Buffers |-> FALSE]
    /\ running = FALSE
    /\ starts = 0
    /\ core = [b \in Buffers |-> Nothing]
    /\ answerable = {}
    /\ lapsed = {}

Next ==
    \/ Start \/ StartFails \/ Stop \/ CoreExits
    \/ \E b \in Buffers : TimerExpires(b) \/ SwitchBuffer(b)
    \/ \E cb \in scheduled : Callback(cb)
    \/ \E id \in answerable, words \in {0, MaxWords} : OnResponse(id, words)
    \/ OnExpectedError \/ Complete \/ Accept \/ AcceptWord \/ Dismiss
    \/ Type \/ OwedEvents \/ Move \/ NormalEdit \/ InsertEnter \/ InsertLeave
    \/ Enable \/ Disable

Spec == Init /\ [][Next]_vars

-----------------------------------------------------------------------------
TypeOK ==
    /\ mode \in {"insert", "normal"} /\ current \in Buffers
    /\ text \in [Buffers -> Nat]
    /\ {owed, auto, running} \subseteq BOOLEAN
    /\ seq \in 0..MaxSeq /\ bufOf \in [1..seq -> Buffers]
    /\ latest \in [Buffers -> 1..seq \cup {Nothing}]
    /\ pending \in [Buffers -> [timer : Nat, file : BOOLEAN, expired : BOOLEAN] \cup {Nothing}]
    /\ scheduled \subseteq [timer : Nat, buf : Buffers]
    /\ IsFiniteSet(scheduled) /\ Cardinality(scheduled) <= MaxScheduled
    /\ suggestion \in [Buffers -> [id : 1..seq, words : 1..MaxWords] \cup {Nothing}]
    /\ sent \in [Buffers -> BOOLEAN]
    /\ starts \in 0..MaxStarts
    /\ core \in [Buffers -> Nat \cup {Nothing}]
    /\ answerable \subseteq 1..seq /\ lapsed \subseteq Buffers

(* A running core has a text of every path the plugin takes for sent, so   *)
(* that no cursor update names a file it never saw, across exits and       *)
(* restarts (sent_paths).                                                  *)
SentIsKnown ==
    running => \A b \in Buffers : sent[b] => core[b] # Nothing

(* While one types, a text the core does not have is always about to be    *)
(* sent: with the update that is pending, with the one the events of the   *)
(* last change will set, or with any update to come because the path was   *)
(* not sent.  Nothing that happens within the debounce, a cursor that      *)
(* moves, an answer, a core that is replaced, makes the file be forgotten  *)
(* (schedule_state_update).  Two things do, and until the next change the  *)
(* core then completes an old text (lapsed): switching the suggestions     *)
(* off, and a debounce that ends with the cursor in a comment or a string. *)
TypedTextIsPending ==
    mode = "insert" /\ running /\ core[current] # text[current] =>
        \/ owed
        \/ ~ sent[current]
        \/ pending[current] # Nothing /\ pending[current].file
        \/ current \in lapsed

(* The callback of a timer that is still set waits only once the timer has *)
(* expired: a timer is never taken for one whose callback waits.           *)
OwnHasExpired == \A cb \in scheduled : IsOwn(cb) => pending[cb.buf].expired

(* An update goes out only after the whole debounce without an event in    *)
(* its buffer: the waiting callback of a timer that was replaced sends     *)
(* nothing.                                                                *)
SendsAfterQuiet ==
    [][\A cb \in scheduled :
          Callback(cb) /\ latest'[cb.buf] # latest[cb.buf] => pending[cb.buf].expired]_vars
=============================================================================
