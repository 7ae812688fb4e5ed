---------------------------- MODULE SymbolIndex ----------------------------
(***************************************************************************)
(* The semantic index from end to end: SymbolVisitor walks the syntax tree *)
(* of a C++ file, IndexService writes what it collected to symbols.sqlite3 *)
(* file by file, and SymbolGraphRetriever answers from that database.      *)
(*                                                                         *)
(* A translation unit is the sequence of the nodes the walk meets, with an *)
(* "enter" and a "leave" around the body of a function.  An entity is a    *)
(* canonical declaration of the unit.  A file with several compile         *)
(* commands is walked once for each of them into one collector: its unit   *)
(* is one walk behind the other, each with entities of its own.  A         *)
(* declaration says in which file it is spelled: Here, or another path     *)
(* when a macro of that file spells it.  A symbol's id is the tuple that   *)
(* is hashed.  Files are numbered in the order of their paths, which is    *)
(* the order of a scan.  They change between updates only (IndexService    *)
(* has the edits during one), and an update is stopped by an INSERT that   *)
(* violates a key or by the end of the process.  A query names a symbol    *)
(* once.                                                                   *)
(***************************************************************************)
EXTENDS Integers, FiniteSets, Sequences, SequencesExt

CONSTANTS
    File,       \* the C++ files of the repository
    Unit,       \* what they may contain
    Broken,     \* the units Clang cannot parse
    Query,      \* the questions: a set of qualified names, and a direction
    MaxEdits,   \* bound on the changes of files
    Here, NoUnit

ASSUME SymbolAssumption ==
    /\ Broken \subseteq Unit
    /\ NoUnit \notin Unit
    /\ File \subseteq Nat
    /\ Here \notin File
    /\ MaxEdits \in Nat

-----------------------------------------------------------------------------
(***************************************************************************)
(* SymbolVisitor, as a walk over the nodes of a unit.                      *)
(***************************************************************************)
\* kind_of: a conversion function is a method.
KindOf(d) == IF d.kind = "conversion" THEN "method" ELSE d.kind

\* extract_source_range of a declaration of file f: its path.
PathOf(f, d) == IF d.spelled = Here THEN f ELSE d.spelled

IdOf(f, d) == <<KindOf(d), d.name, PathOf(f, d), d.line>>

Collected == [scopes |-> << >>, symbols |-> << >>, pending |-> {}, chunks |-> << >>]

Indices(s, entity) == {i \in 1..Len(s.symbols) : s.symbols[i].entity = entity}

\* add_symbol: the first declaration makes the symbol, a definition that
\* comes later completes it.
AddSymbol(s, f, d) ==
    IF Indices(s, d.entity) # {}
    THEN [s EXCEPT !.symbols = [i \in DOMAIN @ |->
             IF @[i].entity = d.entity /\ d.def
             THEN [@[i] EXCEPT !.definition = d.line] ELSE @[i]]]
    ELSE [s EXCEPT !.symbols = Append(@,
             [entity |-> d.entity, id |-> IdOf(f, d),
              definition |-> IF d.def THEN d.line ELSE 0])]

\* Mutant: a chunk gets the id of its own declaration.
ChunkIdOfDefinition(s, f, d) == IdOf(f, d)

\* The id of the symbol, which may come from an earlier declaration.
ChunkId(s, f, d) == s.symbols[CHOOSE i \in Indices(s, d.entity) : TRUE].id

\* add_semantic_chunk: none when the lexer has no text for the range.
AddSemanticChunk(s, f, d) ==
    IF d.text THEN [s EXCEPT !.chunks = Append(@, ChunkId(s, f, d))] ELSE s

AddPending(s, d, relation) ==
    [s EXCEPT !.pending = @ \cup {<<d.entity, to, relation>> : to \in d.related}]

VisitFunctionDecl(s, f, d) ==
    LET added == AddSymbol(s, f, d)
        chunked == IF d.def THEN AddSemanticChunk(added, f, d) ELSE added
    IN  IF d.main THEN AddPending(chunked, d, "overrides") ELSE s

VisitCXXRecordDecl(s, f, d) ==
    IF d.main /\ d.def
    THEN AddPending(AddSemanticChunk(AddSymbol(s, f, d), f, d), d, "inherits")
    ELSE s

VisitEnumDecl(s, f, d) == IF d.main THEN AddSymbol(s, f, d) ELSE s

VisitCallExpr(s, callee) ==
    IF s.scopes = << >> THEN s
    ELSE [s EXCEPT !.pending = @ \cup {<<Last(s.scopes), callee, "calls">>}]

\* The Traverse functions that open a FunctionScope; there is none for
\* conversion functions.
OpensScope(d) == d.main /\ d.kind \in {"function", "method", "constructor", "destructor"}

\* Mutant: the scope is only closed for functions of the first kind.
LeaveFunctionsOnly(s, d) ==
    IF OpensScope(d) /\ d.kind = "function" THEN [s EXCEPT !.scopes = Front(@)] ELSE s

EnterScope(s, d) == IF OpensScope(d) THEN [s EXCEPT !.scopes = Append(@, d.entity)] ELSE s
LeaveScope(s, d) == IF OpensScope(d) THEN [s EXCEPT !.scopes = Front(@)] ELSE s

Visit(s, f, node) ==
    CASE node.at = "enter"  -> VisitFunctionDecl(EnterScope(s, node.decl), f, node.decl)
      [] node.at = "leave"  -> LeaveScope(s, node.decl)
      [] node.at = "record" -> VisitCXXRecordDecl(s, f, node.decl)
      [] node.at = "enum"   -> VisitEnumDecl(s, f, node.decl)
      [] node.at = "call"   -> VisitCallExpr(s, node.callee)

\* resolve_edges: between two different symbols of the unit, without repeats.
ResolveEdges(s) ==
    LET pairs == (DOMAIN s.symbols) \X (DOMAIN s.symbols) \X {"calls", "inherits", "overrides"}
        Joins(p) == /\ p[1] # p[2]
                    /\ <<s.symbols[p[1]].entity, s.symbols[p[2]].entity, p[3]>> \in s.pending
    IN  {<<s.symbols[p[1]].id, s.symbols[p[2]].id, p[3]>> : p \in {p \in pairs : Joins(p)}}

Nothing == [symbols |-> << >>, edges |-> {}, chunks |-> << >>]

\* What the visitor has collected at the end of the walk over unit u of file f.
Walk(f, u) ==
    LET upTo[k \in 0..Len(u)] == IF k = 0 THEN Collected ELSE Visit(upTo[k - 1], f, u[k])
    IN  upTo[Len(u)]

\* ClangCodeParser::parse, and what IndexService keeps of it: a unit that
\* fails or has no semantic chunk is indexed as text, without symbols.
Parse(f, u) ==
    LET s == Walk(f, u)
    IN  IF u \in {NoUnit} \cup Broken \/ s.chunks = << >> THEN Nothing
        ELSE [symbols |-> s.symbols, edges |-> ResolveEdges(s), chunks |-> s.chunks]

-----------------------------------------------------------------------------
(***************************************************************************)
(* symbols.sqlite3 and the update that writes it.                          *)
(***************************************************************************)
VARIABLES
    source,     \* the repository: file -> unit or NoUnit
    indexed,    \* the units whose chunks the last commits stored
    rows,       \* table symbols: id and definition
    edges,      \* table symbol_edges: from, to, relation
    pc,         \* "idle", "collect" or "replace"
    todo,       \* collect: files to parse; replace: files to write
    parsed,     \* symbol_replacements: what the parses of the update gave
    edits,      \* how often a file was changed
    applied,    \* history: the unit whose symbols were last written
    clean       \* history: no kill and no troublesome unit so far

vars == <<source, indexed, rows, edges, pc, todo, parsed, edits, applied, clean>>

Init ==
    /\ source = [f \in File |-> NoUnit]
    /\ indexed = [f \in File |-> NoUnit]
    /\ rows = {}
    /\ edges = {}
    /\ pc = "idle"
    /\ todo = {}
    /\ parsed = [f \in File |-> Nothing]
    /\ edits = 0
    /\ applied = [f \in File |-> NoUnit]
    /\ clean = TRUE

Spelled(s) == s.id[3]

\* Mutant: the unique index leaves the line out.
IdentityWithoutLine(s) == <<s.id[2], s.id[3]>>

\* idx_symbols_identity: qualified name, declaration path and line.
Identity(s) == <<s.id[2], s.id[3], s.id[4]>>

Declarations(u) ==
    {node.decl : node \in {node \in ToSet(u) : node.at \in {"enter", "record", "enum"}}}

\* A unit spells a declaration in another file, or declares two entities of
\* one name on one line: two overloads, or one function under each of two
\* compile commands.
Troublesome(u) ==
    \E c, d \in IF u = NoUnit THEN {} ELSE Declarations(u) :
        \/ d.main /\ d.spelled # Here
        \/ c.main /\ d.main /\ c.entity # d.entity /\ c.name = d.name /\ c.line = d.line

Parses == [f \in File |-> [u \in Unit \cup {NoUnit} |-> Parse(f, u)]]

Edit(f, u) ==
    /\ pc = "idle"
    /\ edits < MaxEdits
    /\ source[f] # u
    /\ source' = [source EXCEPT ![f] = u]
    /\ edits' = edits + 1
    /\ clean' = (clean /\ ~Troublesome(u))
    /\ UNCHANGED <<indexed, rows, edges, pc, todo, parsed, applied>>

\* The files whose content differs from what is stored.
StartUpdate ==
    /\ pc = "idle"
    /\ source # indexed
    /\ todo' = {f \in File : source[f] # indexed[f]}
    /\ pc' = "collect"
    /\ UNCHANGED <<source, indexed, rows, edges, parsed, edits, applied, clean>>

CollectFile(f) ==
    /\ pc = "collect"
    /\ f \in todo
    /\ \A g \in todo : f <= g
    /\ parsed' = [parsed EXCEPT ![f] = Parses[f][source[f]]]
    /\ todo' = todo \ {f}
    /\ UNCHANGED <<source, indexed, rows, edges, pc, edits, applied, clean>>

\* The chunks that g has in index.sqlite3 when f is replaced: removed files
\* are erased first, then the others are replaced in the order of the scan.
StandingChunks(f, g) ==
    Parses[g][IF g > f /\ source[g] # NoUnit THEN indexed[g] ELSE source[g]].chunks

\* An INSERT INTO chunks meets the id of another chunk.
ChunksCollide ==
    \E f \in {f \in File : source[f] # indexed[f]} :
        \/ ~IsInjective(parsed[f].chunks)
        \/ \E g \in File \ {f} : ToSet(parsed[f].chunks) \cap ToSet(StandingChunks(f, g)) # {}

\* The transaction of index.sqlite3: from now on the files count as indexed.
Commit ==
    /\ pc = "collect"
    /\ todo = {}
    /\ ~ChunksCollide
    /\ todo' = {f \in File : source[f] # indexed[f]}
    /\ indexed' = source
    /\ pc' = "replace"
    /\ UNCHANGED <<source, rows, edges, parsed, edits, applied, clean>>

\* The transaction is rolled back and the update throws.
CommitFails ==
    /\ pc = "collect"
    /\ todo = {}
    /\ ChunksCollide
    /\ pc' = "idle"
    /\ parsed' = [g \in File |-> Nothing]
    /\ UNCHANGED <<source, indexed, rows, edges, todo, edits, applied, clean>>

Row(s) == [id |-> s.id, definition |-> s.definition]

\* Mutant: the rows that were defined in the file are deleted instead.
KeptByDefinition(f) == {r \in rows : r.definition = 0 \/ r.id[3] # f}

\* DELETE FROM symbols WHERE declaration_path = f.
Kept(f) == {r \in rows : r.id[3] # f}

\* Mutant: foreign keys are not enforced.
EdgesStay(kept) == edges

\* ON DELETE CASCADE, at either end.
Cascaded(kept) == {e \in edges : {e[1], e[2]} \subseteq {r.id : r \in kept}}

\* An INSERT violates the primary key or the unique index.
Collides(f) ==
    LET symbols == parsed[f].symbols
    IN  \/ \E i, j \in 1..Len(symbols) :
              i # j /\ (symbols[i].id = symbols[j].id \/ Identity(symbols[i]) = Identity(symbols[j]))
        \/ \E s \in ToSet(symbols), r \in Kept(f) :
              s.id = r.id \/ Identity(s) = Identity(r)

\* Removed files come before replaced ones, which follow the scan.
InTurn(f) ==
    /\ f \in todo
    /\ source[f] # NoUnit => \A g \in todo : source[g] # NoUnit /\ f <= g

\* replace_file, one transaction.
ReplaceFile(f) ==
    /\ pc = "replace"
    /\ InTurn(f)
    /\ ~Collides(f)
    /\ rows' = Kept(f) \cup {Row(s) : s \in ToSet(parsed[f].symbols)}
    /\ edges' = Cascaded(Kept(f)) \cup parsed[f].edges
    /\ applied' = [applied EXCEPT ![f] = source[f]]
    /\ todo' = todo \ {f}
    /\ UNCHANGED <<source, indexed, pc, parsed, edits, clean>>

\* replace_file rolls back and throws, which ends the update: the symbols of
\* the other files in todo are not written either.
ReplaceFails(f) ==
    /\ pc = "replace"
    /\ InTurn(f)
    /\ Collides(f)
    /\ pc' = "idle"
    /\ todo' = {}
    /\ parsed' = [g \in File |-> Nothing]
    /\ UNCHANGED <<source, indexed, rows, edges, edits, applied, clean>>

EndUpdate ==
    /\ pc = "replace"
    /\ todo = {}
    /\ pc' = "idle"
    /\ parsed' = [g \in File |-> Nothing]
    /\ UNCHANGED <<source, indexed, rows, edges, todo, edits, applied, clean>>

\* The process is killed during an update.  What was committed stays: if that
\* is the chunks and not yet the symbols, no later update parses the file
\* again before it changes.
Kill ==
    /\ pc # "idle"
    /\ pc' = "idle"
    /\ todo' = {}
    /\ parsed' = [g \in File |-> Nothing]
    /\ clean' = FALSE
    /\ UNCHANGED <<source, indexed, rows, edges, edits, applied>>

\* No more changes within the bound.
Rest == pc = "idle" /\ source = indexed /\ edits = MaxEdits /\ UNCHANGED vars

UpdateStep ==
    \/ \E f \in File : CollectFile(f)
    \/ Commit
    \/ CommitFails
    \/ \E f \in File : ReplaceFile(f)
    \/ \E f \in File : ReplaceFails(f)
    \/ EndUpdate

Next ==
    \/ \E f \in File, u \in Unit \cup {NoUnit} : Edit(f, u)
    \/ StartUpdate
    \/ UpdateStep
    \/ Kill
    \/ Rest

\* An update that was started is carried on; nothing makes a user start one.
Spec == Init /\ [][Next]_vars /\ WF_vars(UpdateStep)

-----------------------------------------------------------------------------
(***************************************************************************)
(* SymbolGraphRetriever.                                                   *)
(***************************************************************************)
FindExact(name) == {r.id : r \in {r \in rows : r.id[2] = name}}

Outgoing(id) == {e \in edges : e[1] = id}
Incoming(id, relation) == {e \in edges : e[2] = id /\ e[3] = relation}

\* Mutant: callers are looked up along the outgoing edges.
FollowedForward(q, id) == Outgoing(id)

\* The edges of a named symbol that count.
Followed(q, id) == IF q.callers THEN Incoming(id, "calls") ELSE Outgoing(id)

FarEnd(q, e) == IF q.callers THEN e[1] ELSE e[2]

Named(q) == UNION {FindExact(n) : n \in q.names}

\* SymbolGraphRetriever::retrieve: two points for a name, one for an edge.
Score(q, id) ==
    (IF id \in Named(q) THEN 2 ELSE 0)
      + Cardinality({e \in UNION {Followed(q, n) : n \in Named(q)} : FarEnd(q, e) = id})

-----------------------------------------------------------------------------
(***************************************************************************)
(* What a unit declares and relates, read off its text without a walk.     *)
(***************************************************************************)
\* The positions where an entity is declared in a way that is collected.
Collecting(u) ==
    {i \in 1..Len(u) :
        /\ u[i].at \in {"enter", "enum", "record"}
        /\ u[i].decl.main
        /\ u[i].at = "record" => u[i].decl.def}

EntitiesOf(u) == {u[i].decl.entity : i \in Collecting(u)}

First(u, entity) ==
    CHOOSE i \in Collecting(u) : u[i].decl.entity = entity /\
        \A j \in Collecting(u) : u[j].decl.entity = entity => i <= j

SymbolId(f, u, entity) ==
    LET d == u[First(u, entity)].decl
    IN  <<IF d.kind = "conversion" THEN "method" ELSE d.kind, d.name,
          IF d.spelled = Here THEN f ELSE d.spelled, d.line>>

Definition(u, entity) ==
    {u[i].decl.line : i \in {i \in Collecting(u) : u[i].decl.entity = entity /\ u[i].decl.def}}

\* The functions whose bodies have begun by position j and not ended.
Open(u, j) ==
    {i \in 1..j : /\ u[i].at = "enter"
                  /\ \A l \in i..j : u[l].at = "leave" => u[l].decl # u[i].decl}

\* Those of the file; a conversion function does not count.
Enclosing(u, j) == {i \in Open(u, j) : u[i].decl.main /\ u[i].decl.kind # "conversion"}

\* What a position says: the innermost function calls, a record inherits, a
\* function overrides.
RelationsAt(u, j) ==
    IF u[j].at = "call"
    THEN {<<u[i].decl.entity, u[j].callee, "calls">> :
             i \in {i \in Enclosing(u, j) : \A k \in Enclosing(u, j) : k <= i}}
    ELSE IF j \in Collecting(u) /\ u[j].at # "enum"
    THEN {<<u[j].decl.entity, to, IF u[j].at = "record" THEN "inherits" ELSE "overrides">> :
             to \in u[j].decl.related}
    ELSE {}

Relations(u) == UNION {RelationsAt(u, j) : j \in 1..Len(u)}

\* What Clang guarantees of the walk over a unit: a function that is left is
\* the one entered last, and is not inside itself; an entity has one
\* definition, and lines count from 1.
ASSUME UnitAssumption ==
    \A u \in Unit :
        /\ u \in Seq(ToSet(u))
        /\ \A i \in 1..Len(u) :
              /\ u[i].at \in {"enter", "leave", "record", "enum", "call"}
              /\ u[i].at = "enter" =>
                    u[i].decl.kind \in {"function", "method", "constructor", "destructor", "conversion"}
              /\ u[i].at = "leave" =>
                    \E j \in Open(u, i - 1) :
                        /\ u[j].decl = u[i].decl
                        /\ \A k \in Open(u, i - 1) \ {j} : k < j /\ u[k].decl # u[i].decl
        /\ \A i \in Collecting(u) :
              /\ u[i].decl.line # 0
              /\ \A j \in Collecting(u) :
                    u[i].decl.entity = u[j].decl.entity /\ u[i].decl.def /\ u[j].decl.def => i = j

\* The entities of a unit that is indexed by its symbols: one definition of
\* a function or a record has a text.
Chunked(u) ==
    {u[i].decl.entity : i \in {i \in Collecting(u) :
        u[i].at # "enum" /\ u[i].decl.def /\ u[i].decl.text}}

IsSemantic(u) == u \notin {NoUnit} \cup Broken /\ Chunked(u) # {}

\* The relations between two symbols of the unit.
Graph(u) ==
    IF IsSemantic(u)
    THEN {e \in Relations(u) : e[1] # e[2] /\ {e[1], e[2]} \subseteq EntitiesOf(u)}
    ELSE {}

Entities(u) == IF IsSemantic(u) THEN EntitiesOf(u) ELSE {}

-----------------------------------------------------------------------------
(***************************************************************************)
(* Properties.                                                             *)
(***************************************************************************)
\* A parse of unit u of file f has the symbols, edges and chunks of its text.
Matches(p, f, u) ==
    /\ {<<s.id, IF s.definition = 0 THEN {} ELSE {s.definition}>> : s \in ToSet(p.symbols)}
          = {<<SymbolId(f, u, e), Definition(u, e)>> : e \in Entities(u)}
    /\ p.edges = {<<SymbolId(f, u, e[1]), SymbolId(f, u, e[2]), e[3]>> : e \in Graph(u)}
    /\ IsSemantic(u) => ToSet(p.chunks) = {SymbolId(f, u, e) : e \in Chunked(u)}

\* What one walk with its stack of scopes and its table of canonical
\* declarations collects is what the text of the unit says: a symbol for
\* every entity of the file with the id of its first declaration and its
\* definition wherever it is, the call edges of the innermost function, also
\* after a nested class, and chunks under the ids of the symbols
\* (SymbolVisitor).
VisitorMatchesSource ==
    pc = "replace" => \A f \in todo : Matches(parsed[f], f, source[f])

\* Ids that some unit spells in another file than its own.
ForeignIds ==
    UNION {{s.id : s \in {s \in ToSet(Parses[f][u].symbols) : Spelled(s) # f}} :
              f \in File, u \in Unit \cup {NoUnit}}

\* The database holds the symbols and the edges of the units written last and
\* nothing of the units before them, whatever failed or was killed, except for
\* what macros spell in other files; and no edge leads to a symbol that is
\* gone (replace_file with its cascading delete).
TableIsExact ==
    LET own == {r \in rows : r.id \notin ForeignIds}
        ids == {r.id : r \in own}
        Between(es) == {e \in es : {e[1], e[2]} \subseteq ids}
    IN  /\ own = UNION {{Row(s) : s \in {s \in ToSet(Parses[f][applied[f]].symbols) :
                                             s.id \notin ForeignIds}} : f \in File}
        /\ Between(edges) = Between(UNION {Parses[f][applied[f]].edges : f \in File})
        /\ \A e \in edges : {e[1], e[2]} \subseteq {r.id : r \in rows}

\* As long as no unit spells declarations in other files or declares two
\* entities of one name on one line, an update that was started ends with the
\* chunks and the symbols of every file written: no key of either database
\* stops it, whatever was indexed before, unless the process is killed
\* (IndexService::update).
CleanUpdatesSucceed ==
    (pc # "idle" /\ clean) ~>
        (~clean \/ (pc = "idle" /\ indexed = source /\ applied = source))

\* Once they are written, an answer of the symbol graph can be read off the
\* sources: a named symbol has two points, and a symbol has one for each call of a
\* named one when callers are asked for, or each relation from a named one
\* otherwise (SymbolGraphRetriever::retrieve over what the updates left).
GraphAnswers ==
    pc = "idle" /\ clean /\ applied = indexed =>
        \A q \in Query, f \in File : \A e \in Entities(indexed[f]) :
            LET u == indexed[f]
                Asked(x) == u[First(u, x)].decl.name \in q.names
            IN  Score(q, SymbolId(f, u, e)) =
                  (IF Asked(e) THEN 2 ELSE 0)
                    + Cardinality({g \in Graph(u) :
                        IF q.callers THEN g[1] = e /\ g[3] = "calls" /\ Asked(g[2])
                        ELSE g[2] = e /\ Asked(g[1])})
=============================================================================
