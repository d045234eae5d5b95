----------------------------- MODULE GoContext ------------------------------
(***************************************************************************)
(* The package context of a request (gocontext/package.go): the collector  *)
(* parses the files of the directory, puts the unsaved buffer in the place *)
(* of the current file, gathers every package-level declaration and sorts  *)
(* each kind by what matters at the cursor.                                *)
(*                                                                         *)
(* A file is [pkg, valid, text, clause, header, imports, decls]: the name  *)
(* in its package clause, whether it parses, its tokens, how many of them  *)
(* come before the clause and how many before the first declaration, its   *)
(* imports and its declarations; a function without a body has Nil there.  *)
(* Names, paths and signatures are numbers, ordered as the strings are;    *)
(* None is the empty string.  The type and the value of a declaration are  *)
(* the identifiers in them, in order, and whether the type was inferred    *)
(* from a call ("result of f").                                            *)
(***************************************************************************)
EXTENDS GoScope, FiniteSets

CONSTANTS
    Nil,            \* no function or declaration
    TestPaths,      \* the files whose name ends in _test.go
    CursorReach     \* how far from the cursor cursorTokens looks

None == 0

Untyped == [idents |-> <<>>, call |-> FALSE]

-----------------------------------------------------------------------------
(* What a file is made of: numbers for names, sequences of them in types   *)
(* and values, and specs as the kind of their declaration has them.        *)

TypeExprs == [idents : Seq(Nat), call : BOOLEAN]

ValueExprs == [idents : Seq(Nat), type : TypeExprs]

IsSpec(tok, spec) ==
    IF tok = "type" THEN spec.name \in Nat
    ELSE /\ spec.names \in Seq(Nat) /\ spec.type \in TypeExprs
         /\ spec.values \in Seq(ValueExprs)

IsDecl(decl) ==
    IF decl.tok = "func"
    THEN /\ decl.name \in Nat /\ decl.receiver \in Nat /\ decl.signature \in Nat
         /\ IsFiniteSet(decl.mentions)
    ELSE /\ decl.tok \in {"type", "const", "var"}
         /\ IsList(decl.specs) /\ \A spec \in Range(decl.specs) : IsSpec(decl.tok, spec)

IsFile(content) ==
    /\ content.text \in Seq(Int) /\ content.clause \in Nat /\ content.header \in Nat
    /\ content.imports \in Seq(Nat)
    /\ IsList(content.decls) /\ \A decl \in Range(content.decls) : IsDecl(decl)

-----------------------------------------------------------------------------
(* Lists. *)

(* The elements that are kept, in their order. *)
Those(list, Keep(_)) ==
    FlattenSeq([i \in DOMAIN list |-> IF Keep(list[i]) THEN <<list[i]>> ELSE <<>>])

(* The same elements in the order of their places: an element has as many  *)
(* before it as there are pairs of indices that end with its own.          *)
Arranged(list, pairs) ==
    LET place == [i \in DOMAIN list |->
                     1 + Cardinality({j \in DOMAIN list : <<j, i>> \in pairs})]
    IN [k \in DOMAIN list |-> list[CHOOSE i \in DOMAIN list : place[i] = k]]

(* The same elements, sorted; equal ones keep their order. *)
SliceStable(list, Before(_, _)) ==
    Arranged(list, {pair \in (DOMAIN list) \X (DOMAIN list) :
        \/ Before(list[pair[1]], list[pair[2]])
        \/ ~ Before(list[pair[2]], list[pair[1]]) /\ pair[1] < pair[2]})

-----------------------------------------------------------------------------
(* One file. *)

FunctionFromDecl(path, decl) ==
    [name |-> decl.name, receiver |-> decl.receiver, signature |-> decl.signature,
     mentions |-> decl.mentions, file |-> path]

Specs(content, tokens) ==
    FlattenSeq([i \in DOMAIN content.decls |->
        IF content.decls[i].tok \in tokens THEN content.decls[i].specs ELSE <<>>])

TypesOf(path, content) ==
    LET named == Those(Specs(content, {"type"}), LAMBDA s : s.kind # "interface")
    IN [i \in DOMAIN named |-> [name |-> named[i].name, kind |-> named[i].kind, file |-> path]]

InterfacesOf(path, content) ==
    LET named == Those(Specs(content, {"type"}), LAMBDA s : s.kind = "interface")
    IN [i \in DOMAIN named |-> [name |-> named[i].name, file |-> path]]

(* The type of name i of a var or const spec.  A type inferred for a name  *)
(* is kept for the names after it.                                         *)
TypeOfName(spec, stated, i) ==
    LET known == {j \in 1..i : /\ j <= Len(spec.values)
                               /\ spec.names[j] # Blank
                               /\ spec.values[j].type # Untyped}
    IN IF stated # Untyped \/ known = {} THEN stated ELSE spec.values[Min(known)].type

ValueOfName(values, i) ==
    IF i <= Len(values) THEN values[i].idents
    ELSE IF Len(values) = 1 THEN values[1].idents ELSE <<>>

(* A const spec without a type or without values repeats the last ones. *)
CollectSpec(path, tok, acc, spec) ==
    LET stated == IF spec.type # Untyped \/ tok = "var" THEN spec.type ELSE acc.lastType
        values == IF spec.values # <<>> \/ tok = "var" THEN spec.values ELSE acc.lastValues
        named  == Those([i \in DOMAIN spec.names |->
                        [name |-> spec.names[i], type |-> TypeOfName(spec, stated, i),
                         value |-> ValueOfName(values, i), kind |-> tok, file |-> path]],
                     LAMBDA v : v.name # Blank)
    IN [lastType   |-> IF spec.type # Untyped THEN spec.type ELSE acc.lastType,
        lastValues |-> IF spec.values # <<>> THEN spec.values ELSE acc.lastValues,
        out        |-> acc.out \o named]

CollectValueDecl(path, decl) ==
    LET after[n \in 0..Len(decl.specs)] ==
            IF n = 0 THEN [lastType |-> Untyped, lastValues |-> <<>>, out |-> <<>>]
            ELSE CollectSpec(path, decl.tok, after[n - 1], decl.specs[n])
    IN after[Len(decl.specs)].out

CollectFile(path, content) ==
    LET functions == Those(content.decls, LAMBDA d : d.tok = "func")
        valued    == Those(content.decls, LAMBDA d : d.tok \in {"const", "var"})
    IN [imports    |-> [i \in DOMAIN content.imports |->
                           [path |-> content.imports[i], file |-> path]],
        functions  |-> [i \in DOMAIN functions |-> FunctionFromDecl(path, functions[i])],
        types      |-> TypesOf(path, content),
        interfaces |-> InterfacesOf(path, content),
        values     |-> FlattenSeq([i \in DOMAIN valued |-> CollectValueDecl(path, valued[i])])]

-----------------------------------------------------------------------------
(* The declaration at the cursor. *)

Clamped(content, offset) == Min({offset, Len(content.text)})

CurrentFunction(content, offset) ==
    LET cursor  == Clamped(content, offset)
        holding == Those(content.decls,
                         LAMBDA d : d.tok = "func" /\ d.body # Nil /\ Holds(d, cursor))
    IN IF offset < 0 \/ holding = <<>> THEN Nil ELSE Last(holding)

DeclarationFromSpec(path, decl, spec) ==
    IF decl.tok = "type"
    THEN [kind |-> spec.kind, name |-> spec.name, file |-> path]
    ELSE [kind |-> decl.tok, name |-> spec.names[1], file |-> path]

(* The spec at the cursor, or the first one of the group around it. *)
CurrentDeclaration(path, content, offset) ==
    LET cursor == Clamped(content, offset)
        groups == Those(content.decls, LAMBDA d : d.tok # "func" /\ Holds(d, cursor))
        specs  == Those(groups[1].specs, LAMBDA s : Holds(s, cursor))
    IN IF offset < 0 \/ groups = <<>> \/ groups[1].specs = <<>> THEN Nil
       ELSE DeclarationFromSpec(path, groups[1],
                IF specs = <<>> THEN groups[1].specs[1] ELSE specs[1])

-----------------------------------------------------------------------------
(* Scores. *)

If(condition, score) == IF condition THEN score ELSE 0

(* A mutant: the current file counts for less than a name near the cursor. *)
WeakFileScore(file, current) == If(file = current, 100)

FileScore(file, current) == If(file = current, 1000)

CursorTokens(content, offset) ==
    LET cursor == Clamped(content, offset)
    IN IF offset < 0 THEN {}
       ELSE Range(SubSeq(content.text, Max({1, cursor - CursorReach + 1}),
                                       Min({Len(content.text), cursor + CursorReach})))

VisibleTypes(visible) == UNION {Range(id.type.idents) : id \in Range(visible)}

VisibleFunctions(visible) ==
    {Last(id.type.idents) : id \in {v \in Range(visible) : v.type.call}}

(* at: what the scores know of the cursor, [file, receiver, types, functions, tokens]. *)
ImportScore(imp, at) == FileScore(imp.file, at.file) + If(imp.path \in at.tokens, 300)

FunctionScore(fn, at) ==
    FileScore(fn.file, at.file)
    + If(fn.receiver # None /\ fn.receiver = at.receiver, 600)
    + If(fn.name \in at.functions \cup at.tokens, 300)
    + If(fn.receiver \in at.types, 250)
    + 100 * Cardinality(fn.mentions \cap at.types)

TypeScore(type, at) ==
    FileScore(type.file, at.file) + If(type.name \in at.types, 400)
    + If(type.name \in at.tokens, 300)

ValueScore(value, at) ==
    LET mentioned == value.type.idents \o value.value
    IN FileScore(value.file, at.file) + If(value.name \in at.tokens, 300)
       + 50 * Cardinality({i \in DOMAIN mentioned : mentioned[i] \in at.tokens})

-----------------------------------------------------------------------------
(* Sorting: by score, then by the keys the code names. *)

FilesBefore(f, g, current) == f # g /\ (f = current \/ (g # current /\ f < g))

ImportsBefore(a, b, at) ==
    LET m == ImportScore(a, at)
        n == ImportScore(b, at)
    IN IF m # n THEN m > n
       ELSE IF a.file = b.file THEN a.path < b.path ELSE a.file < b.file

(* A mutant: functions are sorted by their score alone. *)
FunctionsByScore(a, b, at) == FunctionScore(a, at) > FunctionScore(b, at)

FunctionsBefore(a, b, at) ==
    LET m == FunctionScore(a, at)
        n == FunctionScore(b, at)
    IN IF m # n THEN m > n ELSE a.signature < b.signature

NamedBefore(a, b, at) ==
    LET m == TypeScore(a, at)
        n == TypeScore(b, at)
    IN IF m # n THEN m > n ELSE a.name < b.name

ValuesBefore(a, b, at) ==
    LET m == ValueScore(a, at)
        n == ValueScore(b, at)
    IN IF m # n THEN m > n
       ELSE IF a.file = b.file THEN a.name < b.name ELSE a.file < b.file

SiblingMethods(functions, current) ==
    IF current = Nil THEN <<>>
    ELSE Those(functions, LAMBDA fn :
            /\ current.receiver # None
            /\ fn.receiver = current.receiver
            /\ fn.signature # current.signature)

-----------------------------------------------------------------------------
(* collect: order is the order in which the map of the package's files is  *)
(* ranged over.                                                            *)

InPackage(disk, name) == {p \in DOMAIN disk \ TestPaths : disk[p].pkg = name}

CollectFails(disk, path, overlay) ==
    \/ path \notin DOMAIN disk
    \/ \E p \in DOMAIN disk \ TestPaths : ~ disk[p].valid
    \/ InPackage(disk, overlay.pkg) = {}
    \/ ~ overlay.valid

(* A mutant: the file read from the overlay in the loop is added once more. *)
FilesReadAgain(path, order) == Append(order, path)

(* The current file is added last when the package of the buffer does not hold it. *)
FilesRead(path, order) == IF path \in Range(order) THEN order ELSE Append(order, path)

Gather(files, collected, field) ==
    FlattenSeq([i \in DOMAIN files |-> collected[files[i]][field]])

(* The empty PackageContext that comes with an error. *)
NoContext == [pkg |-> None]

Collect(disk, path, overlay, offset, order) ==
    LET files     == FilesRead(path, order)
        collected == [p \in Range(files) |->
                        CollectFile(p, IF p = path THEN overlay ELSE disk[p])]
        current   == CurrentFunction(overlay, offset)
        visible   == IF current = Nil THEN <<>>
                     ELSE VisibleIdentifiersAtOffset(current, Clamped(overlay, offset))
        at        == [file      |-> path,
                      receiver  |-> IF current = Nil THEN None ELSE current.receiver,
                      types     |-> VisibleTypes(visible),
                      functions |-> VisibleFunctions(visible),
                      tokens    |-> CursorTokens(overlay, offset)]
        functions == SliceStable(Gather(files, collected, "functions"),
                                 LAMBDA a, b : FunctionsBefore(a, b, at))
    IN IF CollectFails(disk, path, overlay) THEN NoContext
       ELSE [pkg         |-> overlay.pkg,
             files       |-> SliceStable(files, LAMBDA f, g : FilesBefore(f, g, path)),
             current     |-> IF current = Nil THEN Nil ELSE FunctionFromDecl(path, current),
             declaration |-> CurrentDeclaration(path, overlay, offset),
             visible     |-> visible,
             siblings    |-> SiblingMethods(functions, current),
             functions   |-> functions,
             imports     |-> SliceStable(Gather(files, collected, "imports"),
                                         LAMBDA a, b : ImportsBefore(a, b, at)),
             types       |-> SliceStable(Gather(files, collected, "types"),
                                         LAMBDA a, b : NamedBefore(a, b, at)),
             values      |-> SliceStable(Gather(files, collected, "values"),
                                         LAMBDA a, b : ValuesBefore(a, b, at)),
             interfaces  |-> SliceStable(Gather(files, collected, "interfaces"),
                                         LAMBDA a, b : NamedBefore(a, b, at))]
=============================================================================
