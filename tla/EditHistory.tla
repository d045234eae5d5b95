---------------------------- MODULE EditHistory -----------------------------
(***************************************************************************)
(* MemoryProvider, the history of recent edits the prompt is built from:   *)
(* one pending edit per file that nearby updates are merged into, and the  *)
(* stored edits, bounded per file and per project.  Every method holds the *)
(* mutex from its first access to its return and is one action.            *)
(*                                                                         *)
(* time.Now never returns the same instant twice here: each update reads a *)
(* later tick, so an edit's time identifies it.                            *)
(***************************************************************************)
EXTENDS EditText

CONSTANTS
    Paths,                \* the files the editor reports
    GoPaths,              \* those with the extension .go
    TestPaths,            \* those that end in _test.go
    Dir,                  \* the directory of each path
    Texts,                \* the contents a file may get
    Lines,                \* the lines the cursor may be on
    QueryTokens,          \* the sets of tokens a query may hold
    MaxEditsPerFile, MaxEditsPerProject, MaxPromptEdits,
    MergeWindow, NearbyLineThreshold, CursorJumpThreshold,
    MaxNow,               \* bound of the clock, and so of the updates
    NoLine, NoText, NoAnswer

ASSUME HistoryAssumption ==
    /\ GoPaths \subseteq Paths /\ TestPaths \subseteq GoPaths /\ IsFiniteSet(Paths)
    /\ DOMAIN Dir = Paths
    /\ \A text \in Texts : text \in Seq(ToSet(text))
    /\ \A tokens \in QueryTokens : IsFiniteSet(tokens)
    /\ Lines \subseteq Nat \ {0} /\ NoLine \notin Nat
    /\ MaxEditsPerFile \in Nat \ {0} /\ MaxEditsPerProject \in Nat \ {0}
    /\ MaxPromptEdits \in Nat /\ MergeWindow \in Nat
    /\ NearbyLineThreshold \in Nat /\ CursorJumpThreshold \in Nat
    /\ MaxNow \in Nat

VARIABLES
    files,         \* the stored edits of each file, oldest first
    pending,       \* the edit of each file that may still grow
    cursorLines,   \* the line the cursor was last seen on
    contents,      \* the text the session holds for the file, or NoText
    now,           \* the clock
    answer         \* what the call that was the last step returned

vars == <<files, pending, cursorLines, contents, now, answer>>

Init ==
    /\ files = [p \in Paths |-> <<>>]
    /\ pending = [p \in Paths |-> NoEdit]
    /\ cursorLines = [p \in Paths |-> NoLine]
    /\ contents = [p \in Paths |-> NoText]
    /\ now = 0
    /\ answer = NoAnswer

Slots(stored) == UNION {{p} \X DOMAIN stored[p] : p \in Paths}
Total(stored) == Cardinality(Slots(stored))

NewestPath(stored) ==
    CHOOSE p \in Paths :
        /\ stored[p] # <<>>
        /\ \A q \in Paths : stored[q] # <<>> => stored[p][1].at >= stored[q][1].at

\* The file whose first edit is the oldest of all first edits.
OldestPath(stored) ==
    CHOOSE p \in Paths :
        /\ stored[p] # <<>>
        /\ \A q \in Paths : stored[q] # <<>> => stored[p][1].at <= stored[q][1].at

\* The loop of enforceProjectLimitLocked runs at most once: a store adds one
\* edit to a history within its limits.
EnforceProjectLimit(stored) ==
    IF Total(stored) <= MaxEditsPerProject THEN stored
    ELSE [stored EXCEPT ![OldestPath(stored)] = Tail(@)]

EnforceFileLimit(edits) ==
    SubSeq(edits, IF Len(edits) > MaxEditsPerFile
                  THEN Len(edits) - MaxEditsPerFile + 1 ELSE 1, Len(edits))

StoreInFront(stored, e) ==
    IF ~ Storable(e.before, e.after) THEN stored
    ELSE EnforceProjectLimit(
            [stored EXCEPT ![e.path] = EnforceFileLimit(<<e>> \o @)])

StoreBeforeLimit(stored, e) ==
    IF ~ Storable(e.before, e.after) THEN stored
    ELSE [EnforceProjectLimit(stored) EXCEPT ![e.path] = EnforceFileLimit(Append(@, e))]

\* storeLocked: a merged edit may have become blank or too large.
Store(stored, e) ==
    IF ~ Storable(e.before, e.after) THEN stored
    ELSE EnforceProjectLimit(
            [stored EXCEPT ![e.path] = EnforceFileLimit(Append(@, e))])

StorePending(stored, p) ==
    IF pending[p] = NoEdit THEN stored ELSE Store(stored, pending[p])

ShouldMerge(previous, next) ==
    /\ next.at - previous.at <= MergeWindow
    /\ cursorLines[next.path] # NoLine =>
          DistanceFromRange(cursorLines[next.path], previous) <= CursorJumpThreshold
    /\ RangesNear(previous, next, NearbyLineThreshold)

Merges(p, e) == pending[p] # NoEdit /\ ShouldMerge(pending[p], e)

\* The session hands over a text only with the one it held before.
Open(p, text) ==
    /\ contents[p] = NoText
    /\ contents' = [contents EXCEPT ![p] = text]
    /\ answer' = NoAnswer
    /\ UNCHANGED <<files, pending, cursorLines, now>>

\* A path that is not Go, an empty old text and the same text leave the
\* history alone, and so does a hunk not worth keeping.
Tracked(p, text) == p \in GoPaths /\ contents[p] \notin {<<>>, text}

\* ObserveFileUpdate, called with the text the session held and the new one.
ObserveFileUpdate(p, text) ==
    LET e == DiffEdit(p, contents[p], text, now + 1)
    IN  /\ contents[p] # NoText
        /\ now < MaxNow
        /\ now' = now + 1
        /\ contents' = [contents EXCEPT ![p] = text]
        /\ answer' = NoAnswer
        /\ UNCHANGED cursorLines
        /\ \/ /\ ~ (Tracked(p, text) /\ e # NoEdit)
              /\ UNCHANGED <<files, pending>>
           \/ /\ Tracked(p, text) /\ e # NoEdit /\ Merges(p, e)
              /\ pending' = [pending EXCEPT ![p] =
                                MergeEdits(@, e, contents[p], text, now + 1)]
              /\ UNCHANGED files
           \/ /\ Tracked(p, text) /\ e # NoEdit /\ ~ Merges(p, e)
              /\ files' = StorePending(files, p)
              /\ pending' = [pending EXCEPT ![p] = e]

\* ObserveCursor flushes the edit of a file whose cursor jumps.
Jump(p, line) ==
    /\ p \in GoPaths
    /\ cursorLines[p] # NoLine
    /\ CursorJumpThreshold < IF line > cursorLines[p] THEN line - cursorLines[p]
                                                      ELSE cursorLines[p] - line

Bonus(condition, points) == IF condition THEN points ELSE 0

RelevanceScore(e, query) ==
    1 + (IF e.path = query.path THEN 1000
         ELSE Bonus(Dir[e.path] = Dir[query.path], 500))
      + Bonus({e.path, query.path} \subseteq TestPaths, 250)
      + 50 * Cardinality(EditTokens(e) \cap query.tokens)

UnderCursor(e, query) == e.path = query.path /\ LineInRange(query.line, e)

Precedes(e, f, query) ==
    \/ RelevanceScore(e, query) > RelevanceScore(f, query)
    \/ RelevanceScore(e, query) = RelevanceScore(f, query) /\ e.at > f.at

EditsOf(stored) == UNION {ToSet(stored[p]) : p \in Paths}

CandidatesAnywhere(stored, query) == EditsOf(stored)

Candidates(stored, query) == {e \in EditsOf(stored) : ~ UnderCursor(e, query)}

\* The pending edits are flushed in the order of a map, which Go leaves open:
\* the stored edits after each of them.
Flush(order) ==
    LET stored[i \in 0 .. Len(order)] ==
            IF i = 0 THEN files ELSE StorePending(stored[i - 1], order[i])
    IN  stored

Flushed(order) == Flush(order)[Len(order)]

Ranked(stored, query) ==
    CHOOSE s \in SetToSeqs(Candidates(stored, query)) :
        \A i, j \in DOMAIN s : i < j => Precedes(s[i], s[j], query)

\* The session calls ObserveCursor and at once Relevant with the same place:
\* the first flushes the file the cursor jumped in, the second all files, in
\* the order of a map, and scores, sorts and cuts.
CompleteAtCursor(query) ==
    \E order \in SetToSeqs(GoPaths) :
        /\ contents[query.path] # NoText
        /\ Jump(query.path, query.line) => order[1] = query.path
        /\ cursorLines' = IF query.path \in GoPaths
                          THEN [cursorLines EXCEPT ![query.path] = query.line]
                          ELSE cursorLines
        /\ files' = Flushed(order)
        /\ pending' = [p \in Paths |-> NoEdit]
        /\ answer' = [query |-> query,
                      edits |-> LET ranked == Ranked(files', query)
                                IN  SubSeq(ranked, 1, Least({MaxPromptEdits, Len(ranked)}))]
        /\ UNCHANGED <<contents, now>>

Queries == [path : Paths, line : Lines, tokens : QueryTokens]

Tick ==
    /\ now < MaxNow
    /\ now' = now + 1
    /\ answer' = NoAnswer
    /\ UNCHANGED <<files, pending, cursorLines, contents>>

Next ==
    \/ \E p \in Paths, text \in Texts : Open(p, text) \/ ObserveFileUpdate(p, text)
    \/ \E query \in Queries : CompleteAtCursor(query)
    \/ Tick

Spec == Init /\ [][Next]_vars

-----------------------------------------------------------------------------
Characters == UNION {ToSet(text) : text \in Texts}

Edits == [path : GoPaths, start : Nat \ {0}, end : Nat \ {0},
          before : Seq(Characters), after : Seq(Characters), at : 1 .. MaxNow]

Stored == EditsOf(files)
Pending == {pending[p] : p \in Paths} \ {NoEdit}

\* Every variable keeps its type, and every edit is filed under its own path.
TypeOK ==
    /\ files \in [Paths -> Seq(Edits)] /\ pending \in [Paths -> Edits \cup {NoEdit}]
    /\ \A p \in Paths : /\ \A i \in DOMAIN files[p] : files[p][i].path = p
                        /\ pending[p] # NoEdit => pending[p].path = p
    /\ cursorLines \in [Paths -> Lines \cup {NoLine}]
    /\ contents \in [Paths -> Texts \cup {NoText}]
    /\ now \in 0 .. MaxNow
    /\ answer # NoAnswer => answer.edits \in Seq(Edits)

(***************************************************************************)
(* storeLocked keeps both limits, whichever file the new edit is in and    *)
(* however many pending edits one call of Relevant stores.                 *)
(***************************************************************************)
Limits ==
    /\ \A p \in Paths : Len(files[p]) <= MaxEditsPerFile
    /\ Total(files) <= MaxEditsPerProject

(***************************************************************************)
(* The slices are in the order of creation, though edits are stored only   *)
(* when they stop growing and a merge moves an edit's time: what           *)
(* enforceProjectLimitLocked takes for the oldest edit of a file is it.    *)
(***************************************************************************)
Chronological ==
    \A p \in Paths :
        /\ \A i, j \in DOMAIN files[p] : i < j => files[p][i].at < files[p][j].at
        /\ pending[p] # NoEdit =>
              \A i \in DOMAIN files[p] : files[p][i].at < pending[p].at

(***************************************************************************)
(* Relevant walks the pending edits in the order of a map.  Whatever the   *)
(* order, and though each store may evict, the same edits remain.          *)
(***************************************************************************)
FlushOrderIrrelevant ==
    \A r, s \in SetToSeqs(GoPaths) : Flushed(r) = Flushed(s)

(***************************************************************************)
(* An edit is forgotten only at a limit, and what stays is newer: in its   *)
(* own file always, in the others too unless its file is at the limit.     *)
(***************************************************************************)
NewestSurvive ==
    [][\A p \in Paths : \A e \in ToSet(files[p]) \ ToSet(files'[p]) :
          \/ /\ Len(files'[p]) = MaxEditsPerFile
             /\ \A f \in ToSet(files'[p]) : e.at < f.at
          \/ /\ Total(files') = MaxEditsPerProject
             /\ \A q \in Paths : \A f \in ToSet(files'[q]) : e.at < f.at]_vars

(***************************************************************************)
(* What Relevant returns after its flush: the best edits there are, none   *)
(* better left out, none on the cursor's line, none still pending.         *)
(***************************************************************************)
AnswerIsBest ==
    answer # NoAnswer =>
        LET returned == ToSet(answer.edits)
            others == {e \in Stored : ~ UnderCursor(e, answer.query)} \ returned
        IN  /\ Pending = {} /\ returned \subseteq Stored
            /\ \A e \in returned : ~ UnderCursor(e, answer.query)
            /\ Cardinality(returned) = Len(answer.edits)
            /\ Len(answer.edits) = MaxPromptEdits \/ others = {}
            /\ \A e \in returned, f \in others : Precedes(e, f, answer.query)
            /\ \A i, j \in DOMAIN answer.edits :
                  i < j => Precedes(answer.edits[i], answer.edits[j], answer.query)

(***************************************************************************)
(* An edit becomes pending with the text of its own lines: After stands at *)
(* StartLine of the new text, and putting Before in its place gives the    *)
(* old one back (unless one of them is left empty, or lines were merged).  *)
(***************************************************************************)
HunkFits ==
    [][\A p \in Paths : pending'[p] \notin {pending[p], NoEdit} =>
          LET e == pending'[p]
              new == contents'[p]
              from == OffsetForLine(new, e.start)
              to == from + Len(e.after)
              merged == pending[p] # NoEdit /\ files' = files
          IN  /\ Slice(new, from, to) = e.after
              /\ ~ merged /\ <<>> \notin {e.before, e.after} =>
                    Slice(new, 0, from) \o e.before \o Slice(new, to, Len(new))
                        = contents[p]]_vars
=============================================================================
