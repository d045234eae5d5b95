------------------------------ MODULE EditText ------------------------------
(***************************************************************************)
(* What the edit history makes of two versions of a file: the hunk that    *)
(* separates them, widened to whole lines, and the hunk of two updates     *)
(* merged.  A text is a sequence of characters; offsets are 0-based as in  *)
(* the code, so offset i lies between s[i] and s[i + 1].                   *)
(***************************************************************************)
EXTENDS Integers, FiniteSets, Sequences, SequencesExt

CONSTANTS MaxHunkBytes, NoEdit

ASSUME HunkAssumption == MaxHunkBytes \in Nat

NL == "\n"
Space == " "

Least(S) == CHOOSE x \in S : \A y \in S : x <= y
Greatest(S) == CHOOSE x \in S : \A y \in S : x >= y

Blank(s) == \A i \in DOMAIN s : s[i] \in {NL, Space}

Slice(s, from, to) == SubSeq(s, from + 1, to)

CommonPrefix(a, b) == Len(LongestCommonPrefix({a, b}))
CommonSuffix(a, b) == CommonPrefix(Reverse(a), Reverse(b))

\* expandToLine, its two ends: back to a line's start, on past its newline.
LineStartUnmoved(s, offset) == offset
LineStart(s, offset) == Greatest({0} \cup {j \in 1 .. offset : s[j] = NL})
LineEnd(s, offset) == Least({Len(s)} \cup {j \in offset + 1 .. Len(s) : s[j] = NL})

LineNumberFromZero(s, offset) == Cardinality({j \in 1 .. offset : s[j] = NL})
LineNumber(s, offset) == Cardinality({j \in 1 .. offset : s[j] = NL}) + 1

OffsetForLine(s, line) ==
    IF line <= 1 THEN 0
    ELSE Least({Len(s)} \cup {j \in DOMAIN s : s[j] = NL /\ LineNumber(s, j) = line})

LinesRange(s, first, last) ==
    Slice(s, OffsetForLine(s, first), OffsetForLine(s, last + 1))

\* sortedTokens: the maximal runs of letters (every character of a model's
\* text but newline and space is one).
Tokens(s) ==
    LET Letter(i) == i \in DOMAIN s /\ ~ Blank(<<s[i]>>)
    IN  {SubSeq(s, r[1], r[2]) :
            r \in {q \in (DOMAIN s) \X (DOMAIN s) :
                     /\ q[1] <= q[2]
                     /\ \A i \in q[1] .. q[2] : Letter(i)
                     /\ ~ Letter(q[1] - 1) /\ ~ Letter(q[2] + 1)}}

EditTokens(e) == Tokens(e.before \o <<NL>> \o e.after)

Edit(path, first, last, before, after, at) ==
    [path |-> path, start |-> first, end |-> last,
     before |-> before, after |-> after, at |-> at]

\* A hunk worth keeping.
Storable(before, after) ==
    /\ ~ (Blank(before) /\ Blank(after))
    /\ Len(before) + Len(after) <= MaxHunkBytes

\* A pure insertion has no Before, a pure deletion no After; otherwise both
\* sides are whole lines.  EndLine is the line after the hunk's last newline.
DiffEdit(path, old, new, at) ==
    LET prefix == CommonPrefix(old, new)
        suffix == CommonSuffix(Slice(old, prefix, Len(old)), Slice(new, prefix, Len(new)))
        oldEnd == Len(old) - suffix
        newEnd == Len(new) - suffix
        before == IF oldEnd = prefix THEN <<>>
                  ELSE Slice(old, LineStart(old, prefix), LineEnd(old, oldEnd))
        after == IF newEnd = prefix THEN <<>>
                 ELSE Slice(new, LineStart(new, prefix), LineEnd(new, newEnd))
    IN  IF ~ Storable(before, after) THEN NoEdit
        ELSE Edit(path, LineNumber(new, LineStart(new, prefix)),
                  LineNumber(new, LineEnd(new, newEnd)), before, after, at)

\* The lines of both edits, taken from the text before and after the second.
MergeEdits(previous, next, old, new, now) ==
    LET first == Least({previous.start, next.start})
        last == Greatest({previous.end, next.end})
    IN  Edit(next.path, first, last, LinesRange(old, first, last),
             LinesRange(new, first, last), now)

RangesNear(e, f, threshold) ==
    f.start <= e.end + threshold /\ e.start <= f.end + threshold

DistanceFromRange(line, e) ==
    IF line < e.start THEN e.start - line
    ELSE IF line > e.end THEN line - e.end
    ELSE 0

LineInRange(line, e) == e.start <= line /\ line <= e.end
=============================================================================
