------------------------------ MODULE GoScope ------------------------------
(***************************************************************************)
(* The identifiers the prompt offers as visible at the cursor             *)
(* (gocontext/package.go, visibleIdentifiersAtOffset and what it calls),   *)
(* next to the scopes that the Go language gives the same declarations.    *)
(*                                                                         *)
(* A statement is what go/ast leaves of it: its kind, the offsets of its   *)
(* first byte and of the byte after its last one, the identifiers it       *)
(* declares itself, its init statement (a sequence of at most one), its    *)
(* body [pos, end, list] and its else branch (a sequence of at most one).  *)
(* An identifier is its name and its type; names are numbers.              *)
(*                                                                         *)
(* The code recurs into the one statement of a list that holds the cursor. *)
(* Here the lists it comes through are numbered from the outside, so that  *)
(* what it adds is what each list adds, one after the other.               *)
(***************************************************************************)
EXTENDS Integers, Sequences, SequencesExt, FiniteSetsExt

Blank == 0

IsList(list) == list \in Seq(Range(list))

Holds(node, cursor) == node.pos <= cursor /\ cursor <= node.end

-----------------------------------------------------------------------------
(* The statements of a function, and how gofmt lays them out.              *)

Clauses == {"case", "comm"}

Switches == {"switch", "typeswitch", "select"}

Declaring == {"var", "define", "range", "typeswitch", "comm"}

Simple == {"var", "define", "other"}

Compound == {"if", "for", "range", "block", "labeled"} \cup Switches \cup Clauses

Parts(stmt) == Range(stmt.init) \cup Range(stmt.body.list) \cup Range(stmt.else)

Level(fn) ==
    LET level[n \in 0..fn.body.end - fn.body.pos] ==
            IF n = 0 THEN Range(fn.body.list) ELSE UNION {Parts(s) : s \in level[n - 1]}
    IN level

Statements(fn) == UNION {Level(fn)[n] : n \in 0..fn.body.end - fn.body.pos}

DeclaresOnce(names) ==
    /\ IsList(names)
    /\ \A i, j \in DOMAIN names :
         names[i].name = names[j].name /\ names[i].name # Blank => i = j

IsBlock(block) ==
    /\ block.pos \in Nat /\ block.end \in Nat /\ block.pos < block.end
    /\ IsList(block.list)
    /\ \A i, j \in DOMAIN block.list :
         /\ block.pos < block.list[i].pos /\ block.list[i].end <= block.end
         /\ i < j => block.list[i].end < block.list[j].pos

(* An init statement stands before the body, an else branch after it.  No  *)
(* label stands before a declaration.                                      *)
IsStatement(stmt) ==
    /\ stmt.pos \in Nat /\ stmt.end \in Nat /\ stmt.pos < stmt.end
    /\ DeclaresOnce(stmt.names) /\ (stmt.kind \notin Declaring => stmt.names = <<>>)
    /\ IsList(stmt.init) /\ Len(stmt.init) <= 1 /\ IsList(stmt.else) /\ Len(stmt.else) <= 1
    /\ \A s \in Range(stmt.init) : s.kind \in Simple /\ stmt.pos < s.pos /\ s.end < stmt.body.pos
    /\ \A s \in Range(stmt.else) :
         s.kind \in {"if", "block"} /\ stmt.body.end < s.pos /\ s.end <= stmt.end
    /\ stmt.kind # "if" => stmt.else = <<>>
    /\ stmt.kind \notin {"if", "for", "switch", "typeswitch"} => stmt.init = <<>>
    /\ stmt.kind \in Simple => stmt.body.list = <<>>
    /\ stmt.kind \in Compound =>
         /\ IsBlock(stmt.body) /\ stmt.pos <= stmt.body.pos /\ stmt.body.end <= stmt.end
         /\ stmt.kind # "if" => stmt.body.end = stmt.end
    /\ stmt.kind \in Simple \cup Compound
    /\ \A s \in Range(stmt.body.list) :
         s.kind \in (IF stmt.kind = "select" THEN {"comm"}
                     ELSE IF stmt.kind \in Switches THEN {"case"}
                     ELSE IF stmt.kind = "labeled" THEN {"other"} \cup (Compound \ Clauses)
                     ELSE (Simple \cup Compound) \ Clauses)

IsFunction(fn) ==
    /\ DeclaresOnce(fn.fields) /\ IsBlock(fn.body)
    /\ \A s \in Range(fn.body.list) : s.kind \notin Clauses
    /\ \A s \in Statements(fn) : IsStatement(s)

-----------------------------------------------------------------------------
(* What the code collects. *)

(* var declarations and := ; a const declaration and = add nothing. *)
CollectSameScopeIdentifiers(stmt) ==
    IF stmt.kind \in {"var", "define"} THEN stmt.names ELSE <<>>

InitIdentifiers(stmt, cursor) ==
    FlattenSeq([i \in DOMAIN stmt.init |->
        IF stmt.init[i].end < cursor THEN CollectSameScopeIdentifiers(stmt.init[i]) ELSE <<>>])

(* What a statement that holds the cursor declares itself. *)
CollectContainedScopeIdentifiers(stmt, cursor) ==
    CASE stmt.kind \in {"var", "define"} -> IF stmt.end <= cursor THEN stmt.names ELSE <<>>
      [] stmt.kind = "range" -> IF Holds(stmt.body, cursor) THEN stmt.names ELSE <<>>
      [] OTHER -> InitIdentifiers(stmt, cursor)

(* A mutant: the block is searched wherever the cursor is. *)
CollectInAnyBlock(block, cursor) == block.list

CollectVisibleInBlock(block, cursor) == IF Holds(block, cursor) THEN block.list ELSE <<>>

(* The list it then goes through.  Of the clauses only those of a case are *)
(* looked into; what a label stands before is not.                         *)
CollectInside(stmt, cursor) ==
    CASE stmt.kind = "if" -> CollectVisibleInBlock(stmt.body, cursor) \o stmt.else
      [] stmt.kind \in {"for", "range", "block"} \cup Switches ->
            CollectVisibleInBlock(stmt.body, cursor)
      [] stmt.kind = "case" -> stmt.body.list
      [] OTHER -> <<>>

Deeper(list, cursor) ==
    FlattenSeq([i \in DOMAIN list |->
        IF Holds(list[i], cursor) THEN CollectInside(list[i], cursor) ELSE <<>>])

(* Each list begins later than the one around it. *)
Searched(fn, cursor) ==
    LET list[n \in 0..cursor - fn.body.pos] ==
            IF n = 0 THEN CollectVisibleInBlock(fn.body, cursor) ELSE Deeper(list[n - 1], cursor)
    IN list

(* Of a list: what the statements before the cursor declare, then what the *)
(* one that holds it does.                                                 *)
CollectStatements(list, cursor) ==
    FlattenSeq([i \in DOMAIN list |->
        CASE list[i].end < cursor   -> CollectSameScopeIdentifiers(list[i])
          [] Holds(list[i], cursor) -> CollectContainedScopeIdentifiers(list[i], cursor)
          [] OTHER                  -> <<>>])

(* A mutant: a name that was seen keeps its first identifier. *)
First(all, i) == all[i]

Latest(all, i) == all[Max({j \in DOMAIN all : all[j].name = all[i].name})]

(* A name seen before keeps its place and takes the new identifier. *)
Added(all) ==
    FlattenSeq([i \in DOMAIN all |->
        IF all[i].name = Blank \/ \E j \in 1..i - 1 : all[j].name = all[i].name
        THEN <<>> ELSE <<Latest(all, i)>>])

(* fn.fields: the named receiver, parameters and results, in that order. *)
Identifiers(fn, cursor) ==
    fn.fields \o FlattenSeq([n \in 1..cursor - fn.body.pos + 1 |->
                    CollectStatements(Searched(fn, cursor)[n - 1], cursor)])

VisibleIdentifiersAtOffset(fn, cursor) == Added(Identifiers(fn, cursor))

-----------------------------------------------------------------------------
(* The scopes of the Go language: every variable a function declares, with *)
(* the stretch of text in which it is in scope.  A cursor that touches the *)
(* closing brace of a block counts as inside it, as it does for the code.  *)

Over(names, from, to) == {[id |-> n, from |-> from, to |-> to] : n \in Range(names)}

ListScopes(list, to) ==
    UNION {Over(s.names, s.end, to) : s \in {d \in Range(list) : d.kind \in {"var", "define"}}}

(* What a clause declares is in scope until the next clause begins. *)
ClauseEnd(block, i) == IF i = Len(block.list) THEN block.end ELSE block.list[i + 1].pos - 1

ClauseScopes(block) ==
    UNION {LET clause == block.list[i]
               to == ClauseEnd(block, i)
           IN Over(clause.names, clause.body.pos, to) \cup ListScopes(clause.body.list, to)
           : i \in DOMAIN block.list}

StatementScopes(stmt) ==
    (UNION {Over(s.names, s.end + 1, stmt.end) : s \in Range(stmt.init)}) \cup
    CASE stmt.kind \in {"if", "for", "block"} -> ListScopes(stmt.body.list, stmt.body.end)
      [] stmt.kind = "range" -> Over(stmt.names, stmt.body.pos, stmt.end)
                                    \cup ListScopes(stmt.body.list, stmt.body.end)
      [] stmt.kind \in Switches -> Over(stmt.names, stmt.body.pos, stmt.end)
                                    \cup ClauseScopes(stmt.body)
      [] OTHER -> {}

Scopes(fn) ==
    Over(fn.fields, fn.body.pos, fn.body.end) \cup ListScopes(fn.body.list, fn.body.end)
        \cup UNION {StatementScopes(s) : s \in Statements(fn)}

InScope(fn, cursor) ==
    {d \in Scopes(fn) : d.id.name # Blank /\ d.from <= cursor /\ cursor <= d.to}

Innermost(fn, cursor) ==
    LET scope == InScope(fn, cursor)
    IN {d.id : d \in {e \in scope : \A o \in scope : o.id.name = e.id.name => o.from <= e.from}}

(* Where the code is known not to look: after the last statement of a case *)
(* clause (collectCaseClauseIdentifiers asks for cursor <= clause.End()),  *)
(* in the clauses of a select, at the variable of a type switch, and in a  *)
(* statement with a label.                                                 *)
NotLookedAt(fn, cursor) ==
    \E s \in Statements(fn) :
        \/ s.kind \in {"typeswitch", "select"} /\ Holds(s.body, cursor)
        \/ s.kind = "labeled" /\ Holds(s, cursor)
        \/ /\ s.kind = "switch"
           /\ \E i \in DOMAIN s.body.list :
                 s.body.list[i].end < cursor /\ cursor <= ClauseEnd(s.body, i)
=============================================================================
