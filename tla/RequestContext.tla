--------------------------- MODULE RequestContext ---------------------------
(***************************************************************************)
(* From a cursor in a buffer to the items shown there: the package context *)
(* (GoContext), the window of text around the cursor                       *)
(* (document/window.go), the prompt (prompt/builder.go) and the trimming   *)
(* of the model's answer (ollama/provider.go), for one Go file of a        *)
(* package while its buffer and the disk change.                           *)
(*                                                                         *)
(* A text is a sequence of tokens.  The numbers above None are names; the  *)
(* tokens below it are named here.                                         *)
(***************************************************************************)
EXTENDS GoContext

CONSTANTS
    Current,        \* the path of the file being edited
    Starts,         \* pairs of a disk and a buffer to start from
    Versions,       \* contents the user edits the buffer from one to another of
    WindowBytes,    \* bytes of prefix and of suffix, none for the default
    Budget,         \* entries of one section of the prompt, 0 for the default
    DefaultBudget,  \* used where no budget is set
    Openings,       \* how an answer of the model may begin
    EchoBytes       \* bytes of the suffix an answer may repeat

VARIABLES
    disk,       \* the directory: its files' contents
    buffer,     \* the content of Current in the editor
    cursor,     \* the offset of the cursor in it
    context,    \* the package context of the request, NoContext without one
    prompt,     \* the prompt of the request, Nil before it is built
    items       \* the items of the response, Nil before there are any

vars == <<disk, buffer, cursor, context, prompt, items>>

Code    == -1
Newline == -2
Space   == -3
Package == -4
Import  == -5
LParen  == -6
RParen  == -7
Tick    == -8
GoTag   == -9

Blanks == {Newline, Space}

(* The header of a file that parses, as gofmt leaves it: its clause begins *)
(* with the word package, what follows it with neither a blank nor an      *)
(* import, and what begins in it ends in it if anything follows at all:    *)
(* the clause with its line, and the import that comes first behind that   *)
(* line with its own line or its parenthesis.  The words may stand         *)
(* anywhere else too: in a comment, in a string, at the end of a name.     *)
HeaderIsWhole(content) ==
    LET text   == content.text
        header == content.header
        clause == content.clause + 1
        closes(i, t) == \/ header = Len(text)
                        \/ \E j \in i + 1..header : text[j] = t
        begins(i, j) == /\ i < j /\ text[j] \notin Blanks
                        /\ \A k \in i + 1..j - 1 : text[k] \in Blanks
    IN /\ header \in 0..Len(text)
       /\ clause \in 1..header /\ text[clause] = Package /\ closes(clause, Newline)
       /\ \A i \in DOMAIN text : i = header + 1 => text[i] \notin Blanks \cup {Import}
       /\ \A n \in clause + 1..header : \A i, j \in DOMAIN text :
            /\ text[n] = Newline /\ \A k \in clause..n - 1 : text[k] # Newline
            /\ text[i] = Import /\ begins(n, i) /\ begins(i, j)
            => closes(j, IF text[j] = LParen THEN RParen ELSE Newline)

(* The functions of a file that parses, as gofmt lays them out: the        *)
(* statements of a body do not overlap, and what belongs to one stands     *)
(* within it.                                                              *)
FunctionsAreWhole(content) ==
    \A decl \in Range(content.decls) : decl.tok = "func" /\ decl.body # Nil => IsFunction(decl)

IsSource(content) ==
    IsFile(content) /\ (content.valid => HeaderIsWhole(content) /\ FunctionsAreWhole(content))

ASSUME ContextAssumption ==
    /\ Current \in Nat
    /\ WindowBytes \in Int /\ EchoBytes \in Nat
    /\ Budget \in Int /\ DefaultBudget \in Int
    /\ \A start \in Starts :
         /\ IsFiniteSet(DOMAIN start.disk) /\ DOMAIN start.disk \subseteq Nat
         /\ \A p \in DOMAIN start.disk : IsSource(start.disk[p])
         /\ IsSource(start.buffer)
    /\ \A content \in Versions : IsSource(content)

-----------------------------------------------------------------------------
(* Text. *)

From(text, n) == SubSeq(text, n + 1, Len(text))

DefaultWindowBytes == 2000

AroundCursor(text, offset, limit) ==
    LET at    == Min({Max({0, offset}), Len(text)})
        bytes == IF limit <= 0 THEN DefaultWindowBytes ELSE limit
    IN [prefix |-> SubSeq(text, Max({0, at - bytes}) + 1, at),
        suffix |-> SubSeq(text, at + 1, Min({Len(text), at + bytes}))]

(* skipSpace: how many tokens of text are passed, counting from pos. *)
SkipSpace(text, pos) ==
    Min({i \in pos..Len(text) : i = Len(text) \/ text[i + 1] \notin Blanks})

(* A mutant: everything up to the last token t is passed. *)
ThroughLast(text, pos, t) ==
    LET found == {i \in pos + 1..Len(text) : text[i] = t}
    IN IF found = {} THEN Len(text) ELSE Max(found)

(* The number of tokens up to and with the first token t after pos, all of *)
(* them when there is none.                                                *)
Through(text, pos, t) ==
    Min({i \in pos + 1..Len(text) : text[i] = t} \cup {Len(text)})

(* Where the text begins with the word package, its first line is cut, and *)
(* what the word import begins behind it; what follows an unfinished one   *)
(* is empty.                                                               *)
TrimPackageImportPreamble(text) ==
    LET start  == SkipSpace(text, 0)
        clause == SkipSpace(text, Through(text, start, Newline))
        spec   == SkipSpace(text, clause + 1)
        end    == IF spec < Len(text) /\ text[spec + 1] = LParen
                  THEN Through(text, spec, RParen) ELSE Through(text, spec, Newline)
    IN IF start = Len(text) \/ text[start + 1] # Package THEN text
       ELSE IF clause = Len(text) \/ text[clause + 1] # Import THEN From(text, clause)
       ELSE From(text, end + If(end < Len(text) /\ text[end + 1] = Newline, 1))

-----------------------------------------------------------------------------
(* The prompt. *)

WithDefaults(budget) == IF budget <= 0 THEN DefaultBudget ELSE budget

Section(list) ==
    LET max == WithDefaults(Budget)
    IN [kept    |-> SubSeq(list, 1, Min({Len(list), max})),
        omitted |-> Max({0, Len(list) - max})]

Lines(list, Line(_)) == [i \in DOMAIN list |-> Line(list[i])]

(* What is written of each entry: functions, siblings and types go without *)
(* their file.                                                             *)
PackageSections(ctx) ==
    LET Signature(fn) == fn.signature
        Named(type)   == <<type.name, type.kind>>
    IN [pkg         |-> ctx.pkg,
        files       |-> Section(ctx.files),
        current     |-> IF ctx.current = Nil THEN Nil ELSE ctx.current.signature,
        declaration |-> ctx.declaration,
        visible     |-> Section(ctx.visible),
        siblings    |-> Section(Lines(ctx.siblings, Signature)),
        imports     |-> Section(ctx.imports),
        types       |-> Section(Lines(ctx.types, Named)),
        values      |-> Section(ctx.values),
        interfaces  |-> Section(ctx.interfaces),
        functions   |-> Section(Lines(ctx.functions, Signature))]

(* A mutant: the preamble is cut whether or not a context replaces it. *)
NeverKeepsPreamble(ctx) == FALSE

KeepsPreamble(ctx) == ctx = NoContext \/ ctx.imports = <<>>

Build(ctx, text, offset) ==
    LET window == AroundCursor(text, offset, WindowBytes)
    IN [package |-> IF ctx = NoContext THEN <<>> ELSE <<PackageSections(ctx)>>,
        prefix  |-> IF KeepsPreamble(ctx) THEN window.prefix
                    ELSE TrimPackageImportPreamble(window.prefix),
        suffix  |-> window.suffix]

-----------------------------------------------------------------------------
(* The answer. *)

Trim(text, cut) ==
    LET left == {i \in DOMAIN text : text[i] \notin cut}
    IN IF left = {} THEN <<>> ELSE SubSeq(text, Min(left), Max(left))

Fence == <<GoTag, Newline>>

(* Blanks and back quotes go at both ends, then the word after a fence. *)
SanitizeCompletion(text) ==
    LET bare  == Trim(text, Blanks \cup {Tick})
        inner == IF IsPrefix(Fence, bare) THEN From(bare, Len(Fence)) ELSE bare
    IN IF inner = <<GoTag>> THEN <<>> ELSE Trim(inner, Blanks)

(* A mutant: an overlap as long as the shorter text is not looked for. *)
RemoveShorterOverlap(text, suffix) ==
    LET overlaps == {0} \cup {n \in 1..Min({Len(text), Len(suffix)}) - 1 :
                        From(text, Len(text) - n) = SubSeq(suffix, 1, n)}
    IN SubSeq(text, 1, Len(text) - Max(overlaps))

(* The longest end of the text that the suffix begins with goes. *)
RemoveSuffixOverlap(text, suffix) ==
    LET overlaps == {n \in 0..Min({Len(text), Len(suffix)}) :
                        From(text, Len(text) - n) = SubSeq(suffix, 1, n)}
    IN SubSeq(text, 1, Len(text) - Max(overlaps))

PostProcessCompletion(text, suffix) ==
    Trim(RemoveSuffixOverlap(SanitizeCompletion(text), suffix), Blanks)

(* The texts among the items; the item that ends every response is left out. *)
Items(answer, suffix) ==
    LET text == PostProcessCompletion(answer, suffix)
    IN IF text = <<>> THEN <<>> ELSE <<text>>

-----------------------------------------------------------------------------
Init ==
    /\ \E start \in Starts : disk = start.disk /\ buffer = start.buffer
    /\ cursor = 0
    /\ context = NoContext /\ prompt = Nil /\ items = Nil

(* state_update with a file and with a cursor. *)
Edit(content) ==
    /\ buffer' = content
    /\ cursor' = Len(content.text)
    /\ context' = NoContext /\ prompt' = Nil /\ items' = Nil
    /\ UNCHANGED disk

MoveCursor(offset) ==
    /\ cursor' = offset
    /\ context' = NoContext /\ prompt' = Nil /\ items' = Nil
    /\ UNCHANGED <<disk, buffer>>

(* The user saves the buffer. *)
Save ==
    /\ disk' = [p \in DOMAIN disk \cup {Current} |-> IF p = Current THEN buffer ELSE disk[p]]
    /\ context' = NoContext /\ prompt' = Nil /\ items' = Nil
    /\ UNCHANGED <<buffer, cursor>>

(* startCompletion: the context is collected and the prompt is built. *)
Prepare(order) ==
    /\ prompt = Nil
    /\ context' = Collect(disk, Current, buffer, cursor, order)
    /\ prompt' = Build(context', buffer.text, cursor)
    /\ UNCHANGED <<disk, buffer, cursor, items>>

(* The model answers. *)
Complete(answer) ==
    /\ prompt # Nil
    /\ items = Nil
    /\ items' = Items(answer, prompt.suffix)
    /\ UNCHANGED <<disk, buffer, cursor, context, prompt>>

Orders == SetToSeqs(InPackage(disk, buffer.pkg))

(* The answers tried: an opening, then some of what follows the cursor. *)
Answers == {opening \o SubSeq(prompt.suffix, 1, n) :
                opening \in Openings, n \in 0..Min({EchoBytes, Len(prompt.suffix)})}

Next ==
    \/ buffer \in Versions /\ \E content \in Versions : Edit(content)
    \/ \E offset \in DOMAIN buffer.text : MoveCursor(offset)
    \/ Save
    \/ prompt = Nil /\ \E order \in Orders : Prepare(order)
    \/ prompt # Nil /\ \E answer \in Answers : Complete(answer)

Spec == Init /\ [][Next]_vars

-----------------------------------------------------------------------------
(* What the collector read of file p. *)
Read(p) == CollectFile(p, IF p = Current THEN buffer ELSE disk[p])

(* The context is that of the buffer: the current file is read once, from  *)
(* the editor and never from the disk, comes first, and every declaration  *)
(* of every file of the package is gathered once (collect).                *)
BufferIsSource ==
    context # NoContext =>
        LET files == InPackage(disk, buffer.pkg) \cup {Current}
        IN /\ Range(context.files) = files /\ Len(context.files) = Cardinality(files)
           /\ context.files[1] = Current
           /\ \A field \in {"functions", "imports", "types", "values", "interfaces"} :
                /\ Range(context[field]) = UNION {Range(Read(p)[field]) : p \in files}
                /\ Len(context[field]) =
                      Cardinality(UNION {{p} \X (DOMAIN Read(p)[field]) : p \in files})

(* Two equal requests give equal prompts: what is written does not depend  *)
(* on the order in which the map of parsed files is ranged over.           *)
PromptIgnoresMapOrder ==
    prompt # Nil =>
        prompt = Build(Collect(disk, Current, buffer, cursor, SetToSeq(InPackage(disk, buffer.pkg))),
                       buffer.text, cursor)

(* A section that is full never shows an import, a type or an interface of *)
(* another file while it drops one of the current file, whatever names are *)
(* visible or near the cursor.                                             *)
OwnFileSurvivesBudget ==
    context # NoContext =>
        \A field \in {"imports", "types", "interfaces"} :
            LET list == context[field]
            IN \A i, j \in DOMAIN list :
                 i < j /\ list[j].file = Current => list[i].file = Current

AtCursor == CurrentFunction(buffer, cursor)

InBody == context # NoContext /\ AtCursor # Nil /\ Holds(AtCursor.body, cursor)

(* No name is offered as visible outside the scope of every declaration of *)
(* it, and none is offered twice (visibleIdentifiersAtOffset).             *)
NamesInScope ==
    InBody =>
        LET names == {d.id.name : d \in InScope(AtCursor, cursor)}
        IN \A i, j \in DOMAIN context.visible :
             /\ context.visible[i].name \in names
             /\ context.visible[i].name = context.visible[j].name => i = j

(* Where the code looks, the visible identifiers are the variables in      *)
(* scope, each with the type of its innermost declaration.                 *)
InnermostShown ==
    InBody /\ ~ NotLookedAt(AtCursor, cursor) =>
        Range(context.visible) = Innermost(AtCursor, cursor)

(* The prompt shows the text up to the cursor and from it on: what is cut, *)
(* at the front of the prefix, goes where the imports of the buffer are in *)
(* the prompt or counted among its omitted ones, and if the window begins  *)
(* with the file's own package clause no code goes with it, only tokens of *)
(* the header.  A window that begins anywhere else is not promised that:   *)
(* where it happens to begin with the word, in a comment, a string or a    *)
(* name, its first line of code is lost.                                   *)
PromptKeepsText ==
    prompt # Nil =>
        LET window == AroundCursor(buffer.text, cursor, WindowBytes)
            start  == cursor - Len(window.prefix)
            cut    == Len(window.prefix) - Len(prompt.prefix)
        IN /\ prompt.prefix = From(window.prefix, cut)
           /\ window.prefix \o window.suffix =
                SubSeq(buffer.text, start + 1, cursor + Len(window.suffix))
           /\ cut > 0 =>
                /\ start + SkipSpace(window.prefix, 0) = buffer.clause =>
                     start + cut <= buffer.header
                /\ prompt.package # <<>>
                /\ \A imp \in Range(buffer.imports) :
                     \/ [path |-> imp, file |-> Current] \in Range(prompt.package[1].imports.kept)
                     \/ prompt.package[1].imports.omitted > 0

(* An answer that only repeats what follows the cursor, code at both of    *)
(* its ends, shows nothing (removeSuffixOverlap), unless it begins like a  *)
(* fence, with the keyword go on a line of its own.                        *)
EchoAddsNothing ==
    [][prompt # Nil =>
        \A n \in 1..Min({EchoBytes, Len(prompt.suffix)}) :
            LET echo == SubSeq(prompt.suffix, 1, n)
            IN /\ {echo[1], echo[n]} \cap (Blanks \cup {Tick}) = {}
               /\ ~ IsPrefix(Fence, echo)
               /\ Complete(echo)
               => items' = <<>>]_vars
=============================================================================
