-------------------------- MODULE MCRequestContext --------------------------
(***************************************************************************)
(* Files for RequestContext.  A file is written down as shapes, statements *)
(* and declarations without offsets, and laid out token by token.          *)
(***************************************************************************)
EXTENDS RequestContext

(* Names, in the order of the strings. *)
a == 1
b == 2
c == 3
f == 4
g == 5
T == 6
U == 7
p == 11
q == 12

Of(names) == [idents |-> names, call |-> FALSE]
ResultOf(name) == [idents |-> <<name>>, call |-> TRUE]
Id(name, type) == [name |-> name, type |-> type]

Shape(kind, names, init, list, else) ==
    [kind |-> kind, names |-> names, init |-> init, list |-> list, else |-> else]

Leaf(kind, names) == Shape(kind, names, <<>>, <<>>, <<>>)
Define(name, type) == Leaf("define", <<Id(name, type)>>)
Var(name, type) == Leaf("var", <<Id(name, type)>>)
Other == Leaf("other", <<>>)
Block(list) == Shape("block", <<>>, <<>>, list, <<>>)
Clause(kind, names, list) == Shape(kind, names, <<>>, list, <<>>)

-----------------------------------------------------------------------------
(* Layout: every leaf and every bracket is one token, and one more token   *)
(* separates the statements of a list.  One operator lays one part, from   *)
(* the parts before it, which it has as parameters.                        *)
RECURSIVE LayList(_, _)

Laid(shape, at, init, open, list, shut, else) ==
    [kind |-> shape.kind, names |-> shape.names, pos |-> at, init |-> init, else |-> else,
     end |-> CASE shape.kind \in {"define", "var", "other"} -> at + 1
               [] shape.kind \in {"case", "comm"} -> shut
               [] else # <<>> -> Last(else).end
               [] OTHER -> shut,
     body |-> [pos |-> open, end |-> shut, list |-> list]]

LayElse(shape, at, init, open, list, shut) ==
    Laid(shape, at, init, open, list, shut, LayList(shape.else, shut + 1))

\* A clause ends with its last statement, a block with its bracket.
LayEnd(shape, at, init, open, list) ==
    LayElse(shape, at, init, open, list,
        CASE shape.kind \notin {"case", "comm"} ->
                IF list = <<>> THEN open + 2 ELSE Last(list).end + 2
          [] OTHER -> IF list = <<>> THEN open + 1 ELSE Last(list).end)

LayBody(shape, at, init, open) ==
    LayEnd(shape, at, init, open, LayList(shape.list, open + 1))

LayFrom(shape, at, init) ==
    LayBody(shape, at, init,
        CASE shape.kind = "block" -> at
          [] init # <<>> -> Last(init).end + 1
          [] OTHER -> at + 1)

LayStatement(shape, at) == LayFrom(shape, at, LayList(shape.init, at + 1))

LayRest(first, shapes) == <<first>> \o LayList(shapes, first.end + 1)

LayList(shapes, at) ==
    IF shapes = <<>> THEN <<>> ELSE LayRest(LayStatement(Head(shapes), at), Tail(shapes))

Func(name, receiver, signature, mentions, fields, list) ==
    [tok |-> "func", name |-> name, receiver |-> receiver, signature |-> signature,
     mentions |-> mentions, fields |-> fields, list |-> list]

Group(tok, specs) == [tok |-> tok, specs |-> specs]
TypeSpec(name, kind) == [name |-> name, kind |-> kind]
Val(idents, type) == [idents |-> idents, type |-> type]
ValueSpec(names, type, values) == [names |-> names, type |-> type, values |-> values]

LaidFunc(decl, at, body, end) ==
    [tok |-> "func", name |-> decl.name, receiver |-> decl.receiver,
     signature |-> decl.signature, mentions |-> decl.mentions,
     fields |-> decl.fields, body |-> body, pos |-> at, end |-> end]

LaidWhole(decl, at, body) == LaidFunc(decl, at, body, body.end)

(* A function begins with its name and the parenthesis after its parameters; *)
(* one without a body ends there.                                            *)
LayDecl(decl, at) ==
    IF decl.tok = "func"
    THEN IF decl.list = Nil THEN LaidFunc(decl, at, Nil, at + 2)
         ELSE LaidWhole(decl, at, LayStatement(Block(decl.list), at + 2).body)
    ELSE [tok |-> decl.tok, pos |-> at, end |-> at + 2 + 2 * Len(decl.specs),
          specs |-> [i \in DOMAIN decl.specs |->
                        decl.specs[i] @@ [pos |-> at + 2 * i, end |-> at + 2 * i + 1]]]

RECURSIVE LayDecls(_, _)

LayMore(first, decls) == <<first>> \o LayDecls(decls, first.end + 1)

LayDecls(decls, at) ==
    IF decls = <<>> THEN <<>> ELSE LayMore(LayDecl(Head(decls), at), Tail(decls))

(* A file with one import begins with a comment that has the word package. *)
Comment(imports) == IF Len(imports) = 1 THEN <<Code, Package, Code, Newline>> ELSE <<>>

Header(imports) ==
    Comment(imports) \o <<Package, Code, Newline>> \o
    (CASE imports = <<>> -> <<>>
       [] Len(imports) = 1 -> <<Newline, Import, Space, imports[1], Newline>>
       [] OTHER -> <<Newline, Import, Space, LParen>> \o imports \o <<RParen, Newline>>)

(* The value of the first const or var ends in the word package. *)
TokenAt(decls, at) ==
    LET funcs  == {d \in Range(decls) : d.tok = "func"}
        values == {d \in Range(decls) : d.tok \in {"const", "var"}}
    IN IF \E d \in values : d.pos + 3 = at THEN Package
       ELSE IF \E d \in funcs : d.pos = at THEN (CHOOSE d \in funcs : d.pos = at).name
       ELSE IF \E d \in funcs : d.pos + 1 = at THEN RParen
       ELSE IF \E d \in Range(decls) : d.end = at THEN Newline
       ELSE Code

Written(pkg, valid, imports, header, laid) ==
    [pkg |-> pkg, valid |-> valid, imports |-> imports, decls |-> laid,
     clause |-> Len(Comment(imports)), header |-> Len(header),
     text |-> header \o
         (IF laid = <<>> THEN <<>>
          ELSE [i \in 1 .. Last(laid).end + 1 - Len(header) |->
                   TokenAt(laid, Len(header) + i - 1)])]

File(pkg, valid, imports, decls) ==
    Written(pkg, valid, imports, Header(imports), LayDecls(decls, Len(Header(imports))))

-----------------------------------------------------------------------------
(* Function bodies: b before and c after a statement whose lists declare   *)
(* the parameter's name a, b, both, or one of them in a block.             *)
Inner == {<<>>, <<Define(a, Of(<<U>>))>>, <<Other, Var(b, ResultOf(g))>>,
          <<Block(<<Define(b, Of(<<U>>))>>), Define(a, Of(<<U>>))>>}

Few == {<<Define(c, Of(<<U>>))>>, <<>>}

Inits == {<<>>, <<Define(b, Of(<<g>>))>>}

Compounds ==
    {Block(l) : l \in Inner}
    \cup {Shape("if", <<>>, i, l, e) : i \in Inits, l \in Few,
            e \in {<<>>, <<Block(<<Define(a, Of(<<U>>))>>)>>,
                   <<Shape("if", <<>>, <<Define(a, Of(<<g>>))>>,
                           <<Define(b, Of(<<a>>))>>, <<>>)>>}}
    \cup {Shape("for", <<>>, i, l, <<>>) : i \in Inits, l \in Inner}
    \cup {Shape("range", <<Id(a, Untyped), Id(Blank, Untyped)>>, <<>>, l, <<>>) : l \in Few}
    \cup {Shape(k, IF k = "typeswitch" THEN <<Id(b, Untyped)>> ELSE <<>>, <<>>,
            <<Clause("case", <<>>, l), Clause("case", <<>>, <<Define(a, Of(<<U>>))>>)>>, <<>>) :
            k \in {"switch", "typeswitch"}, l \in Few}
    \cup {Shape("select", <<>>, <<>>,
            <<Clause("comm", <<Id(a, Untyped)>>, <<Define(b, Of(<<U>>))>>)>>, <<>>)}
    \cup {Shape("labeled", <<>>, <<>>, <<Shape("for", <<>>, i, <<Define(a, Of(<<U>>))>>, <<>>)>>, <<>>) :
            i \in Inits}

Bodies == {<<Define(b, Of(<<T>>)), s, Define(c, Untyped)>> : s \in Compounds}

Method(list) == Func(f, T, 20, {T}, <<Id(a, Of(<<T>>))>>, list)

Scoped == {File(1, TRUE, <<>>, <<Method(body)>>) : body \in Bodies}

-----------------------------------------------------------------------------
(* Packages: two other files of the package, one of another package, a     *)
(* test file that does not parse, and versions of the current file, one of *)
(* which does not parse.                                                   *)
Consts == Group("const", <<ValueSpec(<<a>>, Of(<<T>>), <<Val(<<g>>, Untyped)>>),
                           ValueSpec(<<b>>, Untyped, <<>>)>>)

Vars == Group("var", <<ValueSpec(<<a, b>>, Untyped, <<Val(<<g>>, ResultOf(g))>>)>>)

Plain == Func(g, None, 10, {}, <<>>, <<Define(a, ResultOf(g))>>)

Bodiless == Func(b, T, 25, {T}, <<>>, Nil)

Other1 == File(1, TRUE, <<p>>, <<Func(c, T, 30, {U}, <<>>, <<>>), Plain,
                                 Group("type", <<TypeSpec(U, "struct"), TypeSpec(c, "interface")>>)>>)
Other2 == File(1, TRUE, <<p, q>>, <<Plain, Vars,
                                    Group("type", <<TypeSpec(T, "struct"), TypeSpec(b, "interface")>>)>>)
Alien == File(2, TRUE, <<>>, <<Plain>>)
OnDisk == File(1, TRUE, <<q>>, <<Vars>>)
BrokenTest == File(1, FALSE, <<q>>, <<Plain>>)

Edited == {File(1, TRUE, <<p, q>>, <<Consts, Method(<<Define(b, Of(<<U>>))>>), Vars>>),
           File(1, TRUE, <<q>>, <<Plain, Bodiless, Group("type", <<TypeSpec(g, "alias"), TypeSpec(a, "interface")>>)>>),
           File(2, TRUE, <<>>, <<Plain>>),
           File(1, FALSE, <<q>>, <<Plain>>)}

MCStarts ==
    {[disk |-> <<OnDisk, Other1>>, buffer |-> content] : content \in Scoped}
    \cup {[disk |-> <<OnDisk, Other1, Other2, Alien, BrokenTest>>, buffer |-> OnDisk]}
    \cup {[disk |-> [path \in {2} |-> Other1], buffer |-> OnDisk]}

(* Bodies are only walked through; the other versions follow one another. *)
MCVersions == Edited \cup {OnDisk}

MCOpenings == {<<>>, <<Code>>, <<Tick, GoTag, Newline>>, <<Code, Space>>}
=============================================================================
