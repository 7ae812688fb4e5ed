------------------------- MODULE SymbolIndexProofs -------------------------
(***************************************************************************)
(* The semantic index, for any repository and whatever its units contain.  *)
(*                                                                         *)
(* - The symbol database is exact whichever transactions fail and wherever *)
(*   the process is killed.  Of a parse this uses only that its edges join *)
(*   its symbols.                                                          *)
(* - What one walk of the visitor collects of a unit is what its text says.*)
(*   The walk is followed node by node; UnitAssumption is all that is used *)
(*   of the units.                                                         *)
(* - As long as no unit is troublesome and nothing was killed, no update   *)
(*   fails, the symbols of every indexed file are written, and the answers *)
(*   of the symbol graph can be read off the sources.                      *)
(***************************************************************************)
EXTENDS SymbolIndex, WellFoundedInduction, SequenceTheorems, FiniteSetTheorems, TLAPS

Sources == Unit \cup {NoUnit}

\* The ids of the symbols a unit has in a file.
Ids(f, u) == {s.id : s \in ToSet(Parses[f][u].symbols)}

RowsOf(f, u) == {Row(s) : s \in ToSet(Parses[f][u].symbols)}

RowIds == {r.id : r \in rows}

-----------------------------------------------------------------------------
\* resolve_edges looks both ends up among the symbols of the unit.
LEMMA EdgesJoinSymbols ==
    ASSUME NEW f \in File, NEW u \in Sources, NEW e \in Parses[f][u].edges
    PROVE  {e[1], e[2]} \subseteq Ids(f, u)
  <1>1. Parses[f][u] = Parse(f, u)
    BY DEF Parses, Sources
  <1>2. PICK s : Parse(f, u) \in {Nothing, [symbols |-> s.symbols, edges |-> ResolveEdges(s),
                                            chunks |-> s.chunks]}
    BY DEF Parse
  <1>3. CASE Parse(f, u) = Nothing
    BY <1>1, <1>3 DEF Nothing
  <1>4. CASE Parse(f, u) # Nothing
    <2>1. Parses[f][u].symbols = s.symbols /\ e \in ResolveEdges(s)
      BY <1>1, <1>2, <1>4
    <2>2. PICK i \in DOMAIN s.symbols, j \in DOMAIN s.symbols,
               r \in {"calls", "inherits", "overrides"} :
              e = <<s.symbols[i].id, s.symbols[j].id, r>>
      BY <2>1 DEF ResolveEdges
    <2> QED
      BY <2>1, <2>2 DEF Ids, ToSet
  <1> QED
    BY <1>3, <1>4

\* An id that no unit spells in another file names the file it comes from.
LEMMA OwnIdsNameTheirFile ==
    ASSUME NEW f \in File, NEW u \in Sources, NEW id \in Ids(f, u), id \notin ForeignIds
    PROVE  id[3] = f
  <1>1. PICK s \in ToSet(Parses[f][u].symbols) : id = s.id
    BY DEF Ids
  <1> SUFFICES ASSUME id[3] # f PROVE FALSE
    OBVIOUS
  <1> DEFINE foreign(g, v) == {t.id : t \in {t \in ToSet(Parses[g][v].symbols) : Spelled(t) # g}}
             all == {foreign(g, v) : g \in File, v \in Unit \cup {NoUnit}}
  <1>2. id \in foreign(f, u)
    BY <1>1 DEF Spelled
  <1>3. ForeignIds = UNION all
    BY DEF ForeignIds
  <1> HIDE DEF foreign
  <1>4. foreign(f, u) \in all
    BY DEF Sources
  <1> QED
    BY <1>2, <1>3, <1>4

\* The rows of a unit are its symbols.
LEMMA RowsHaveTheIds ==
    ASSUME NEW f, NEW u
    PROVE  Ids(f, u) = {r.id : r \in RowsOf(f, u)}
  <1>1. \A s \in ToSet(Parses[f][u].symbols) : Row(s).id = s.id
    BY DEF Row
  <1> HIDE DEF Row
  <1> QED
    BY <1>1 DEF Ids, RowsOf

\* A unit without a file has no symbols.
LEMMA NoUnitHasNothing ==
    \A f \in File : Parses[f][NoUnit] = Nothing
  <1>1. NoUnit \in {NoUnit} \cup Broken
    OBVIOUS
  <1>2. ASSUME NEW f \in File PROVE Parse(f, NoUnit) = Nothing
    BY <1>1, Zenon DEF Parse
  <1> QED
    BY <1>2 DEF Parses

-----------------------------------------------------------------------------
(***************************************************************************)
(* The inductive invariant.                                                *)
(***************************************************************************)
\* The update holds the parses of the files it has collected, and of those
\* whose symbols it has still to write.
ParsesInHand ==
    /\ source \in [File -> Sources]
    /\ applied \in [File -> Sources]
    /\ parsed = [f \in File |-> parsed[f]]
    /\ todo \subseteq File
    /\ pc = "collect" =>
          \A f \in File \ todo : source[f] # indexed[f] => parsed[f] = Parses[f][source[f]]
    /\ pc = "replace" => \A f \in todo : parsed[f] = Parses[f][source[f]]

\* A row is one of the unit that was written last for some file.
RowOfAUnit(r) == \E f \in File : r \in RowsOf(f, applied[f])

EdgeOfAUnit(e) == \E f \in File : e \in Parses[f][applied[f]].edges

OwnRows == {r \in rows : r.id \notin ForeignIds}
OwnIds == {r.id : r \in OwnRows}

\* TableIsExact, element by element.
ExactRows == \A r : r.id \notin ForeignIds => (r \in rows <=> RowOfAUnit(r))
ExactEdges == \A e : {e[1], e[2]} \subseteq OwnIds => (e \in edges <=> EdgeOfAUnit(e))
NoDanglingEdge == \A e \in edges : {e[1], e[2]} \subseteq RowIds

TableInv == ParsesInHand /\ ExactRows /\ ExactEdges /\ NoDanglingEdge

LEMMA ElementwiseIsExact == TableInv => TableIsExact
  <1> SUFFICES ASSUME TableInv PROVE TableIsExact
    OBVIOUS
  <1> DEFINE written(f) == {s \in ToSet(Parses[f][applied[f]].symbols) : s.id \notin ForeignIds}
             all == UNION {{Row(s) : s \in written(f)} : f \in File}
  <1>1. ASSUME NEW r \in OwnRows PROVE r \in all
    <2>1. PICK f \in File : r \in RowsOf(f, applied[f])
      BY <1>1 DEF OwnRows, TableInv, ExactRows, RowOfAUnit
    <2>2. PICK s \in ToSet(Parses[f][applied[f]].symbols) : r = Row(s)
      BY <2>1 DEF RowsOf
    <2>3. s \in written(f)
      BY <1>1, <2>2 DEF OwnRows, Row
    <2> QED
      BY <2>2, <2>3
  <1>2. ASSUME NEW r \in all PROVE r \in OwnRows
    <2>0. PICK f \in File : r \in {Row(s) : s \in written(f)}
      BY <1>2
    <2>1. PICK s \in written(f) : r = Row(s)
      BY <2>0
    <2>2. r.id \notin ForeignIds
      BY <2>1 DEF Row
    <2> QED
      BY <2>1, <2>2 DEF OwnRows, TableInv, ExactRows, RowOfAUnit, RowsOf
  <1>3. OwnRows = all
    BY <1>1, <1>2
  <1>4. {e \in edges : {e[1], e[2]} \subseteq OwnIds}
          = {e \in UNION {Parses[f][applied[f]].edges : f \in File} : {e[1], e[2]} \subseteq OwnIds}
    BY DEF TableInv, ExactEdges, EdgeOfAUnit
  <1> QED
    BY <1>3, <1>4 DEF TableIsExact, OwnRows, OwnIds, TableInv, NoDanglingEdge, RowIds
-----------------------------------------------------------------------------
LEMMA InitEstablishesTable == Init => TableInv
  <1> SUFFICES ASSUME Init PROVE TableInv
    OBVIOUS
  <1>1. ParsesInHand
    BY DEF Init, ParsesInHand, Sources
  <1>2. \A f \in File : Parses[f][applied[f]] = Nothing
    BY NoUnitHasNothing DEF Init
  <1>3. ToSet(<< >>) = {}
    BY DEF ToSet
  <1>4. \A r : ~RowOfAUnit(r)
    BY <1>2, <1>3 DEF RowOfAUnit, RowsOf, Nothing
  <1>5. \A e : ~EdgeOfAUnit(e)
    BY <1>2 DEF EdgeOfAUnit, Nothing
  <1>6. rows = {} /\ edges = {}
    BY DEF Init
  <1> QED
    BY <1>1, <1>4, <1>5, <1>6 DEF TableInv, ExactRows, ExactEdges, NoDanglingEdge

\* Only replace_file writes the tables.
LEMMA TablesStay ==
    ASSUME TableInv, UNCHANGED <<rows, edges, applied>>
    PROVE  ExactRows' /\ ExactEdges' /\ NoDanglingEdge'
  BY DEF TableInv, ExactRows, ExactEdges, NoDanglingEdge, RowOfAUnit, EdgeOfAUnit,
         OwnIds, OwnRows, RowIds

\* replace_file deletes the file's own rows, and with them the edges at
\* either end, and inserts those of the unit just parsed.
LEMMA ReplaceKeepsTable ==
    ASSUME TableInv, NEW f \in File, ReplaceFile(f)
    PROVE  TableInv'
  <1>1. /\ pc = "replace" /\ f \in todo /\ parsed[f] = Parses[f][source[f]]
        /\ source[f] \in Sources
        /\ source \in [File -> Sources] /\ applied \in [File -> Sources]
    BY DEF TableInv, ParsesInHand, ReplaceFile, InTurn
  <1>2. /\ applied' \in [File -> Sources]
        /\ applied'[f] = source[f]
        /\ \A g \in File \ {f} : applied'[g] = applied[g]
    BY <1>1 DEF ReplaceFile
  <1>3. /\ rows' = Kept(f) \cup RowsOf(f, source[f])
        /\ edges' = Cascaded(Kept(f)) \cup Parses[f][source[f]].edges
    BY <1>1 DEF ReplaceFile, RowsOf
  <1>4. \A g \in File, u \in Sources : \A r \in RowsOf(g, u) :
            r.id \notin ForeignIds => r.id[3] = g
    BY OwnIdsNameTheirFile, RowsHaveTheIds
  <1>5. \A g \in File, u \in Sources : \A e \in Parses[g][u].edges :
            {e[1], e[2]} \subseteq Ids(g, u)
    BY EdgesJoinSymbols
  <1>6. Ids(f, source[f]) \subseteq RowIds'
    BY <1>3, RowsHaveTheIds DEF RowIds
  <1>7. ParsesInHand'
    BY DEF TableInv, ParsesInHand, ReplaceFile
  <1>8. ExactRows'
    <2> SUFFICES ASSUME NEW r, r.id \notin ForeignIds PROVE r \in rows' <=> RowOfAUnit(r)'
      BY DEF ExactRows
    <2>1. RowOfAUnit(r)' <=> \/ r \in RowsOf(f, source[f])
                             \/ \E g \in File \ {f} : r \in RowsOf(g, applied[g])
      BY <1>2 DEF RowOfAUnit
    <2>2. \A g \in File : r \in RowsOf(g, applied[g]) => r.id[3] = g
      BY <1>1, <1>4
    <2>3. r \in rows <=> \E g \in File : r \in RowsOf(g, applied[g])
      BY DEF TableInv, ExactRows, RowOfAUnit
    <2> QED
      BY <1>3, <2>1, <2>2, <2>3 DEF Kept
  \* The ids that stay were not the file's.
  <1>9. \A id \in OwnIds' : id[3] # f => id \in OwnIds /\ id \in {r.id : r \in Kept(f)}
    <2> SUFFICES ASSUME NEW r \in OwnRows', r.id[3] # f
                 PROVE  r \in OwnRows /\ r \in Kept(f)
      BY DEF OwnIds
    <2>1. r \in rows' /\ r.id \notin ForeignIds
      BY DEF OwnRows
    <2>2. r \notin RowsOf(f, source[f])
      BY <1>1, <1>4, <2>1
    <2> QED
      BY <1>3, <2>1, <2>2 DEF Kept, OwnRows
  <1>10. OwnIds' \cap ForeignIds = {}
    BY DEF OwnIds, OwnRows
  <1>11. ExactEdges'
    <2> SUFFICES ASSUME NEW e, {e[1], e[2]} \subseteq OwnIds'
                 PROVE  e \in edges' <=> EdgeOfAUnit(e)'
      BY DEF ExactEdges
    <2>1. EdgeOfAUnit(e)' <=> \/ e \in Parses[f][source[f]].edges
                              \/ \E g \in File \ {f} : e \in Parses[g][applied[g]].edges
      BY <1>2 DEF EdgeOfAUnit
    <2>2. \A g \in File : e \in Parses[g][applied[g]].edges => e[1][3] = g /\ e[2][3] = g
      BY <1>1, <1>5, <1>10, OwnIdsNameTheirFile
    <2>3. ASSUME e \in Cascaded(Kept(f)) PROVE EdgeOfAUnit(e)'
      <3>1. e \in edges /\ e[1][3] # f /\ e[2][3] # f
        BY <2>3 DEF Cascaded, Kept
      <3>2. {e[1], e[2]} \subseteq OwnIds
        BY <1>9, <3>1
      <3>3. PICK g \in File : e \in Parses[g][applied[g]].edges
        BY <3>1, <3>2 DEF TableInv, ExactEdges, EdgeOfAUnit
      <3> QED
        BY <2>1, <2>2, <3>1, <3>3
    <2>4. ASSUME NEW g \in File \ {f}, e \in Parses[g][applied[g]].edges
          PROVE  e \in Cascaded(Kept(f))
      <3>1. {e[1], e[2]} \subseteq OwnIds /\ {e[1], e[2]} \subseteq {r.id : r \in Kept(f)}
        BY <1>9, <2>2, <2>4
      <3>2. e \in edges
        BY <2>4, <3>1 DEF TableInv, ExactEdges, EdgeOfAUnit
      <3> QED
        BY <3>1, <3>2 DEF Cascaded
    <2> QED
      BY <1>3, <2>1, <2>3, <2>4
  <1>12. NoDanglingEdge'
    <2>1. {r.id : r \in Kept(f)} \subseteq RowIds'
      BY <1>3 DEF RowIds
    <2> QED
      BY <1>1, <1>3, <1>5, <1>6, <2>1 DEF NoDanglingEdge, Cascaded
  <1> QED
    BY <1>7, <1>8, <1>11, <1>12 DEF TableInv

LEMMA OtherStepsKeepParses ==
    ASSUME TableInv,
           \/ \E f \in File, u \in Unit \cup {NoUnit} : Edit(f, u)
           \/ StartUpdate \/ Commit \/ CommitFails \/ EndUpdate \/ Kill \/ UNCHANGED vars
           \/ \E f \in File : CollectFile(f) \/ ReplaceFails(f)
    PROVE  TableInv'
  <1>1. UNCHANGED <<rows, edges, applied>>
    BY DEF Edit, StartUpdate, Commit, CommitFails, EndUpdate, Kill, vars, CollectFile, ReplaceFails
  <1>2. ParsesInHand'
    <2> USE DEF TableInv, ParsesInHand
    <2>1. CASE \E f \in File, u \in Unit \cup {NoUnit} : Edit(f, u)
      BY <2>1 DEF Edit, Sources
    <2>2. CASE StartUpdate
      BY <2>2 DEF StartUpdate
    <2>3. CASE Commit
      BY <2>3 DEF Commit
    <2>4. CASE CommitFails \/ EndUpdate \/ Kill \/ \E f \in File : ReplaceFails(f)
      <3>1. /\ pc' = "idle" /\ parsed' = [g \in File |-> Nothing] /\ todo' \subseteq File
            /\ UNCHANGED <<source, applied>>
        BY <2>4 DEF CommitFails, EndUpdate, Kill, ReplaceFails
      <3> QED
        BY <3>1
    <2>5. ASSUME NEW f \in File, CollectFile(f) PROVE ParsesInHand'
      BY <2>5 DEF CollectFile
    <2>6. CASE UNCHANGED vars
      BY <2>6 DEF vars
    <2> QED
      BY <2>1, <2>2, <2>3, <2>4, <2>5, <2>6
  <1> QED
    BY <1>1, <1>2, TablesStay DEF TableInv

\* The inductive invariant of the symbol database.
THEOREM TableInvariant == Spec => []TableInv
  <1>1. TableInv /\ [Next]_vars => TableInv'
    BY ReplaceKeepsTable, OtherStepsKeepParses DEF Next, UpdateStep, Rest
  <1> QED
    BY <1>1, InitEstablishesTable, PTL DEF Spec

\* For every repository and every set of units: the database holds exactly
\* the symbols and edges of the units written last, and no edge leads to a
\* symbol that is gone.
THEOREM SymbolTableIsExact == Spec => []TableIsExact
  BY TableInvariant, ElementwiseIsExact, PTL
-----------------------------------------------------------------------------
(***************************************************************************)
(* The walk over a unit, step by step.                                     *)
(***************************************************************************)
\* A nonempty set of naturals has a least element.
LEMMA LeastElement ==
    ASSUME NEW T \in SUBSET Nat, T # {}
    PROVE  \E x \in T : \A y \in T : x <= y
  <1> DEFINE Less == {ss \in Nat \X Nat : ss[1] < ss[2]}
  <1>1. IsWellFoundedOn(Less, Nat)
    BY NatLessThanWellFounded, Zenon DEF OpToRel
  <1> HIDE DEF Less
  <1>2. PICK x \in T : \A y \in T : ~(<<y, x>> \in Less)
    BY <1>1, WFMin
  <1>3. \A y \in Nat : y < x => <<y, x>> \in Less
    BY DEF Less
  <1>4. \A y \in T : ~(y < x)
    BY <1>2, <1>3
  <1>5. x \in Nat /\ \A y \in T : y \in Nat
    OBVIOUS
  <1> QED
    BY <1>4, <1>5

\* w lists what the visitor holds after each of the first n nodes of u.
Steps(w, f, u, n) ==
    /\ w = [k \in 0..n |-> w[k]]
    /\ w[0] = Collected
    /\ \A k \in 1..n : w[k] = Visit(w[k - 1], f, u[k])

\* The recursion of Walk defines a function.
LEMMA StepsExist ==
    ASSUME NEW f, NEW u, NEW n \in Nat
    PROVE  \E w : Steps(w, f, u, n)
  <1> DEFINE Without == {m \in Nat : ~\E w : Steps(w, f, u, m)}
  <1> SUFFICES ASSUME Without # {} PROVE FALSE
    OBVIOUS
  <1>1. PICK m \in Without : \A l \in Without : m <= l
    BY LeastElement
  <1>2. m \in Nat /\ ~\E w : Steps(w, f, u, m)
    OBVIOUS
  <1>3. m # 0
    <2>1. Steps([k \in 0..0 |-> Collected], f, u, 0)
      BY DEF Steps
    <2> QED
      BY <1>2, <2>1
  <1>4. m - 1 \in Nat /\ m - 1 \notin Without
    <2>1. m - 1 \in Nat /\ ~(m <= m - 1)
      BY <1>2, <1>3
    <2> QED
      BY <1>1, <2>1
  <1>5. PICK v : Steps(v, f, u, m - 1)
    BY <1>4
  <1> DEFINE w == [k \in 0..m |-> IF k = m THEN Visit(v[m - 1], f, u[m]) ELSE v[k]]
  <1>6. Steps(w, f, u, m)
    <2>0. w = [k \in 0..m |-> w[k]]
      BY Zenon
    <2>1. w[0] = Collected
      BY <1>2, <1>3, <1>5 DEF Steps
    <2>2. ASSUME NEW k \in 1..m PROVE w[k] = Visit(w[k - 1], f, u[k])
      <3>1. CASE k = m
        BY <1>2, <1>3, <3>1
      <3>2. CASE k # m
        <4>1. k \in 1..(m - 1) /\ k \in 0..m /\ k - 1 \in 0..m /\ k - 1 # m
          BY <1>2, <3>2
        <4>2. w[k] = v[k] /\ w[k - 1] = v[k - 1]
          BY <3>2, <4>1
        <4> QED
          BY <1>5, <4>1, <4>2 DEF Steps
      <3> QED
        BY <3>1, <3>2
    <2> QED
      BY <2>0, <2>1, <2>2 DEF Steps
  <1> QED
    BY <1>2, <1>6

\* The walk ends with the last of its steps.
LEMMA WalkIsItsSteps ==
    ASSUME NEW f, NEW u, Len(u) \in Nat
    PROVE  \E w : Steps(w, f, u, Len(u)) /\ Walk(f, u) = w[Len(u)]
  <1> DEFINE w == CHOOSE v : v = [k \in 0..Len(u) |->
                      IF k = 0 THEN Collected ELSE Visit(v[k - 1], f, u[k])]
  <1>1. Walk(f, u) = w[Len(u)]
    BY Zenon DEF Walk
  <1>2. PICK v : Steps(v, f, u, Len(u))
    BY StepsExist
  <1>3. v = [k \in 0..Len(u) |-> IF k = 0 THEN Collected ELSE Visit(v[k - 1], f, u[k])]
    BY <1>2 DEF Steps
  <1>4. w = [k \in 0..Len(u) |-> IF k = 0 THEN Collected ELSE Visit(w[k - 1], f, u[k])]
    BY <1>3, Zenon
  <1> HIDE DEF w
  <1>5. Steps(w, f, u, Len(u))
    <2>1. w = [k \in 0..Len(u) |-> w[k]]
      BY <1>4
    <2>2. w[0] = Collected
      BY <1>4
    <2>3. ASSUME NEW k \in 1..Len(u) PROVE w[k] = Visit(w[k - 1], f, u[k])
      BY <1>4
    <2> QED
      BY <2>1, <2>2, <2>3 DEF Steps
  <1> QED
    BY <1>1, <1>5
-----------------------------------------------------------------------------
\* What the visitor holds is a record of four fields.
Held(s) == s = [scopes |-> s.scopes, symbols |-> s.symbols, pending |-> s.pending, chunks |-> s.chunks]

\* The positions of definitions that become semantic chunks.
Chunking(u) == {i \in Collecting(u) : u[i].at # "enum" /\ u[i].decl.def /\ u[i].decl.text}

\* The relations a node adds when these are the scopes.
Added(scopes, u, k) ==
    IF u[k].at = "call"
    THEN IF scopes = << >> THEN {} ELSE {<<Last(scopes), u[k].callee, "calls">>}
    ELSE RelationsAt(u, k)

\* The scopes after a node.
ScopesAfter(scopes, u, k) ==
    IF u[k].at \in {"enter", "leave"} /\ OpensScope(u[k].decl)
    THEN IF u[k].at = "enter" THEN Append(scopes, u[k].decl.entity) ELSE Front(scopes)
    ELSE scopes

\* add_symbol touches the symbols only.
LEMMA AddSymbolParts ==
    ASSUME NEW s, Held(s), NEW f, NEW d
    PROVE  /\ Held(AddSymbol(s, f, d))
           /\ AddSymbol(s, f, d).scopes = s.scopes
           /\ AddSymbol(s, f, d).pending = s.pending
           /\ AddSymbol(s, f, d).chunks = s.chunks
  BY DEF Held, AddSymbol

\* add_semantic_chunk touches the chunks only.
LEMMA AddChunkParts ==
    ASSUME NEW s, Held(s), NEW f, NEW d
    PROVE  /\ Held(AddSemanticChunk(s, f, d))
           /\ AddSemanticChunk(s, f, d).scopes = s.scopes
           /\ AddSemanticChunk(s, f, d).pending = s.pending
           /\ AddSemanticChunk(s, f, d).symbols = s.symbols
           /\ AddSemanticChunk(s, f, d).chunks =
                 IF d.text THEN Append(s.chunks, ChunkId(s, f, d)) ELSE s.chunks
  BY DEF Held, AddSemanticChunk

\* A pending edge touches nothing else.
LEMMA AddPendingParts ==
    ASSUME NEW s, Held(s), NEW d, NEW r
    PROVE  /\ Held(AddPending(s, d, r))
           /\ AddPending(s, d, r).scopes = s.scopes
           /\ AddPending(s, d, r).symbols = s.symbols
           /\ AddPending(s, d, r).chunks = s.chunks
           /\ AddPending(s, d, r).pending = s.pending \cup {<<d.entity, to, r>> : to \in d.related}
  BY DEF Held, AddPending

\* A FunctionScope touches the scopes only.
LEMMA ScopeParts ==
    ASSUME NEW s, Held(s), NEW d
    PROVE  /\ Held(EnterScope(s, d)) /\ Held(LeaveScope(s, d))
           /\ EnterScope(s, d).scopes = IF OpensScope(d) THEN Append(s.scopes, d.entity) ELSE s.scopes
           /\ LeaveScope(s, d).scopes = IF OpensScope(d) THEN Front(s.scopes) ELSE s.scopes
           /\ EnterScope(s, d).symbols = s.symbols /\ LeaveScope(s, d).symbols = s.symbols
           /\ EnterScope(s, d).pending = s.pending /\ LeaveScope(s, d).pending = s.pending
           /\ EnterScope(s, d).chunks = s.chunks /\ LeaveScope(s, d).chunks = s.chunks
  <1>1. CASE OpensScope(d)
    BY <1>1 DEF Held, EnterScope, LeaveScope
  <1>2. CASE ~OpensScope(d)
    BY <1>2 DEF Held, EnterScope, LeaveScope
  <1> QED
    BY <1>1, <1>2

\* A symbol and the id of a chunk do not depend on the scopes.
LEMMA SymbolsIgnoreScopes ==
    ASSUME NEW s, Held(s), NEW t, Held(t), s.symbols = t.symbols, NEW f, NEW d
    PROVE  /\ AddSymbol(s, f, d).symbols = AddSymbol(t, f, d).symbols
           /\ ChunkId(AddSymbol(s, f, d), f, d) = ChunkId(AddSymbol(t, f, d), f, d)
  <1>1. AddSymbol(s, f, d).symbols = AddSymbol(t, f, d).symbols
    BY DEF Held, AddSymbol, Indices
  <1> QED
    BY <1>1 DEF ChunkId, Indices

\* What each field becomes at a node.
VisitEffect(s, t, f, u, k) ==
    /\ Held(t)
    /\ t.scopes = ScopesAfter(s.scopes, u, k)
    /\ t.pending = s.pending \cup Added(s.scopes, u, k)
    /\ t.symbols = IF k \in Collecting(u) THEN AddSymbol(s, f, u[k].decl).symbols ELSE s.symbols
    /\ t.chunks = IF k \in Chunking(u)
                  THEN Append(s.chunks, ChunkId(AddSymbol(s, f, u[k].decl), f, u[k].decl))
                  ELSE s.chunks

\* TraverseFunctionDecl up to the body, with VisitFunctionDecl.
LEMMA EnterParts ==
    ASSUME NEW s, Held(s), NEW f, NEW u, NEW k \in 1..Len(u), u[k].at = "enter"
    PROVE  VisitEffect(s, Visit(s, f, u[k]), f, u, k)
  <1> DEFINE d == u[k].decl
             t == EnterScope(s, d)
             a == AddSymbol(t, f, d)
             c == IF d.def THEN AddSemanticChunk(a, f, d) ELSE a
  <1>0. Visit(s, f, u[k]) = VisitFunctionDecl(t, f, d)
    BY DEF Visit
  <1>1. /\ Held(t) /\ t.symbols = s.symbols /\ t.pending = s.pending /\ t.chunks = s.chunks
        /\ t.scopes = IF OpensScope(d) THEN Append(s.scopes, d.entity) ELSE s.scopes
    BY ScopeParts
  <1>1a. t.scopes = ScopesAfter(s.scopes, u, k)
    BY <1>1 DEF ScopesAfter
  <1>2. CASE d.main
    <2>1. VisitFunctionDecl(t, f, d) = AddPending(c, d, "overrides")
      BY <1>2 DEF VisitFunctionDecl
    <2>2. Held(a) /\ a.scopes = t.scopes /\ a.pending = t.pending /\ a.chunks = t.chunks
      BY <1>1, AddSymbolParts
    <2>3. a.symbols = AddSymbol(s, f, d).symbols /\ ChunkId(a, f, d) = ChunkId(AddSymbol(s, f, d), f, d)
      BY <1>1, SymbolsIgnoreScopes
    <2> HIDE DEF t, a
    <2>4. /\ Held(c) /\ c.scopes = a.scopes /\ c.pending = a.pending /\ c.symbols = a.symbols
          /\ c.chunks = IF d.def /\ d.text THEN Append(a.chunks, ChunkId(a, f, d)) ELSE a.chunks
      BY <2>2, AddChunkParts
    <2> HIDE DEF c
    <2>5. k \in Collecting(u) /\ (k \in Chunking(u) <=> d.def /\ d.text)
      BY <1>2 DEF Collecting, Chunking
    <2>6. Added(s.scopes, u, k) = {<<d.entity, to, "overrides">> : to \in d.related}
      BY <2>5 DEF Added, RelationsAt
    <2>7. /\ Held(AddPending(c, d, "overrides"))
          /\ AddPending(c, d, "overrides").scopes = c.scopes
          /\ AddPending(c, d, "overrides").symbols = c.symbols
          /\ AddPending(c, d, "overrides").chunks = c.chunks
          /\ AddPending(c, d, "overrides").pending
                = c.pending \cup {<<d.entity, to, "overrides">> : to \in d.related}
      BY <2>4, AddPendingParts
    <2> HIDE DEF d
    <2> QED
      BY <1>0, <1>1, <1>1a, <2>1, <2>2, <2>3, <2>4, <2>5, <2>6, <2>7 DEF VisitEffect, d
  <1>3. CASE ~d.main
    <2>1. VisitFunctionDecl(t, f, d) = t
      BY <1>3 DEF VisitFunctionDecl
    <2>2. k \notin Collecting(u) /\ k \notin Chunking(u)
      BY <1>3 DEF Collecting, Chunking
    <2>3. Added(s.scopes, u, k) = {}
      BY <2>2 DEF Added, RelationsAt
    <2> HIDE DEF t
    <2> QED
      BY <1>0, <1>1, <1>1a, <2>1, <2>2, <2>3 DEF VisitEffect
  <1> QED
    BY <1>2, <1>3

\* VisitCXXRecordDecl.
LEMMA RecordParts ==
    ASSUME NEW s, Held(s), NEW f, NEW u, NEW k \in 1..Len(u), u[k].at = "record"
    PROVE  VisitEffect(s, Visit(s, f, u[k]), f, u, k)
  <1> DEFINE d == u[k].decl
             a == AddSymbol(s, f, d)
             c == AddSemanticChunk(a, f, d)
  <1>0. Visit(s, f, u[k]) = VisitCXXRecordDecl(s, f, d)
    BY DEF Visit
  <1>1. ScopesAfter(s.scopes, u, k) = s.scopes
    BY DEF ScopesAfter
  <1>2. CASE d.main /\ d.def
    <2>1. VisitCXXRecordDecl(s, f, d) = AddPending(c, d, "inherits")
      BY <1>2 DEF VisitCXXRecordDecl
    <2>2. Held(a) /\ a.scopes = s.scopes /\ a.pending = s.pending /\ a.chunks = s.chunks
      BY AddSymbolParts
    <2>4. /\ Held(c) /\ c.scopes = a.scopes /\ c.pending = a.pending /\ c.symbols = a.symbols
          /\ c.chunks = IF d.text THEN Append(a.chunks, ChunkId(a, f, d)) ELSE a.chunks
      BY <2>2, AddChunkParts
    <2> HIDE DEF c
    <2>5. k \in Collecting(u) /\ (k \in Chunking(u) <=> d.text)
      BY <1>2 DEF Collecting, Chunking
    <2>6. Added(s.scopes, u, k) = {<<d.entity, to, "inherits">> : to \in d.related}
      BY <2>5 DEF Added, RelationsAt
    <2>7. /\ Held(AddPending(c, d, "inherits"))
          /\ AddPending(c, d, "inherits").scopes = c.scopes
          /\ AddPending(c, d, "inherits").symbols = c.symbols
          /\ AddPending(c, d, "inherits").chunks = c.chunks
          /\ AddPending(c, d, "inherits").pending
                = c.pending \cup {<<d.entity, to, "inherits">> : to \in d.related}
      BY <2>4, AddPendingParts
    <2> QED
      BY <1>0, <1>1, <2>1, <2>2, <2>4, <2>5, <2>6, <2>7 DEF VisitEffect
  <1>3. CASE ~(d.main /\ d.def)
    <2>1. VisitCXXRecordDecl(s, f, d) = s
      BY <1>3 DEF VisitCXXRecordDecl
    <2>2. k \notin Collecting(u) /\ k \notin Chunking(u)
      BY <1>3 DEF Collecting, Chunking
    <2>3. Added(s.scopes, u, k) = {}
      BY <2>2 DEF Added, RelationsAt
    <2> QED
      BY <1>0, <1>1, <2>1, <2>2, <2>3 DEF VisitEffect
  <1> QED
    BY <1>2, <1>3

\* VisitEnumDecl.
LEMMA EnumParts ==
    ASSUME NEW s, Held(s), NEW f, NEW u, NEW k \in 1..Len(u), u[k].at = "enum"
    PROVE  VisitEffect(s, Visit(s, f, u[k]), f, u, k)
  <1>0. Visit(s, f, u[k]) = VisitEnumDecl(s, f, u[k].decl)
    BY DEF Visit
  <1>1. ScopesAfter(s.scopes, u, k) = s.scopes
    BY DEF ScopesAfter
  <1>2. k \notin Chunking(u) /\ (k \in Collecting(u) <=> u[k].decl.main)
    BY DEF Collecting, Chunking
  <1>3. Added(s.scopes, u, k) = {}
    BY DEF Added, RelationsAt
  <1>4. CASE u[k].decl.main
    BY <1>0, <1>1, <1>2, <1>3, <1>4, AddSymbolParts DEF VisitEffect, VisitEnumDecl
  <1>5. CASE ~u[k].decl.main
    BY <1>0, <1>1, <1>2, <1>3, <1>5 DEF VisitEffect, VisitEnumDecl
  <1> QED
    BY <1>4, <1>5

\* The end of a FunctionScope, and VisitCallExpr.
LEMMA LeaveOrCallParts ==
    ASSUME NEW s, Held(s), NEW f, NEW u, NEW k \in 1..Len(u), u[k].at \in {"leave", "call"}
    PROVE  VisitEffect(s, Visit(s, f, u[k]), f, u, k)
  <1>1. k \notin Collecting(u) /\ k \notin Chunking(u)
    BY DEF Collecting, Chunking
  <1>2. CASE u[k].at = "leave"
    <2>1. Visit(s, f, u[k]) = LeaveScope(s, u[k].decl)
      BY <1>2 DEF Visit
    <2>2. Added(s.scopes, u, k) = {}
      BY <1>1, <1>2 DEF Added, RelationsAt
    <2>3. ScopesAfter(s.scopes, u, k) = IF OpensScope(u[k].decl) THEN Front(s.scopes) ELSE s.scopes
      BY <1>2 DEF ScopesAfter
    <2> DEFINE t == LeaveScope(s, u[k].decl)
    <2>4. /\ Held(t) /\ t.symbols = s.symbols /\ t.pending = s.pending /\ t.chunks = s.chunks
          /\ t.scopes = IF OpensScope(u[k].decl) THEN Front(s.scopes) ELSE s.scopes
      BY ScopeParts
    <2> HIDE DEF t
    <2> QED
      BY <1>1, <2>1, <2>2, <2>3, <2>4 DEF VisitEffect, t
  <1>3. CASE u[k].at = "call"
    <2>1. Visit(s, f, u[k]) = VisitCallExpr(s, u[k].callee)
      BY <1>3 DEF Visit
    <2>2. ScopesAfter(s.scopes, u, k) = s.scopes
      BY <1>3 DEF ScopesAfter
    <2>3. Held(VisitCallExpr(s, u[k].callee))
      BY DEF Held, VisitCallExpr
    <2>4. /\ VisitCallExpr(s, u[k].callee).scopes = s.scopes
          /\ VisitCallExpr(s, u[k].callee).symbols = s.symbols
          /\ VisitCallExpr(s, u[k].callee).chunks = s.chunks
          /\ VisitCallExpr(s, u[k].callee).pending = s.pending \cup Added(s.scopes, u, k)
      BY <1>3 DEF Held, VisitCallExpr, Added
    <2> QED
      BY <1>1, <2>1, <2>2, <2>3, <2>4 DEF VisitEffect
  <1> QED
    BY <1>2, <1>3

\* One step of the walk, field by field.
LEMMA VisitParts ==
    ASSUME NEW s, Held(s), NEW f, NEW u \in Unit, NEW k \in 1..Len(u)
    PROVE  VisitEffect(s, Visit(s, f, u[k]), f, u, k)
  <1>1. u[k].at \in {"enter", "leave", "record", "enum", "call"}
    BY UnitAssumption
  <1> QED
    BY <1>1, EnterParts, RecordParts, EnumParts, LeaveOrCallParts
-----------------------------------------------------------------------------
(***************************************************************************)
(* The table of canonical declarations.                                    *)
(***************************************************************************)
Lines(u) == {u[i].decl.line : i \in Collecting(u)}

SymbolType(f, u) ==
    [entity : EntitiesOf(u), id : {SymbolId(f, u, e) : e \in EntitiesOf(u)},
     definition : {0} \cup Lines(u)]

\* The positions of an entity that the walk has passed.
Passed(u, k, e) == {p \in Collecting(u) : p <= k /\ u[p].decl.entity = e}

\* One symbol for every entity declared so far, with the id of its first
\* declaration and the line of its definition.
SymbolsInv(symbols, f, u, k) ==
    /\ symbols \in Seq(SymbolType(f, u))
    /\ \A i, j \in 1..Len(symbols) : symbols[i].entity = symbols[j].entity => i = j
    /\ \A i \in 1..Len(symbols) : symbols[i].id = SymbolId(f, u, symbols[i].entity)
    /\ \A i \in 1..Len(symbols) : Passed(u, k, symbols[i].entity) # {}
    /\ \A p \in Collecting(u) : p <= k => \E i \in 1..Len(symbols) : symbols[i].entity = u[p].decl.entity
    /\ \A i \in 1..Len(symbols) : \A p \in Passed(u, k, symbols[i].entity) :
          u[p].decl.def => symbols[i].definition = u[p].decl.line
    /\ \A i \in 1..Len(symbols) : symbols[i].definition # 0 =>
          \E p \in Passed(u, k, symbols[i].entity) :
              u[p].decl.def /\ symbols[i].definition = u[p].decl.line

\* Units are sequences.
LEMMA UnitIsASequence == \A u \in Unit : Len(u) \in Nat /\ DOMAIN u = 1..Len(u)
  BY UnitAssumption

\* Collected positions are positions of the unit.
LEMMA PositionsAreNaturals ==
    ASSUME NEW u \in Unit
    PROVE  \A i \in Collecting(u) : i \in Nat /\ i \in 1..Len(u)
  BY UnitIsASequence DEF Collecting

\* The first declaration gives the id.
LEMMA IdOfFirst ==
    ASSUME NEW u \in Unit, NEW f, NEW i \in Collecting(u),
           \A j \in Collecting(u) : u[j].decl.entity = u[i].decl.entity => i <= j
    PROVE  IdOf(f, u[i].decl) = SymbolId(f, u, u[i].decl.entity)
  <1> DEFINE e == u[i].decl.entity
  <1>1. First(u, e) = i
    <2>1. \A j \in Collecting(u) :
             u[j].decl.entity = e /\ (\A l \in Collecting(u) : u[l].decl.entity = e => j <= l) => j = i
      <3> SUFFICES ASSUME NEW j \in Collecting(u), u[j].decl.entity = e,
                          \A l \in Collecting(u) : u[l].decl.entity = e => j <= l
                   PROVE  j = i
        OBVIOUS
      <3>1. i <= j /\ j <= i
        OBVIOUS
      <3>2. i \in Nat /\ j \in Nat
        BY PositionsAreNaturals
      <3> QED
        BY <3>1, <3>2
    <2>2. u[i].decl.entity = e /\ (\A l \in Collecting(u) : u[l].decl.entity = e => i <= l)
      OBVIOUS
    <2> HIDE DEF e
    <2> QED
      BY <2>1, <2>2 DEF First
  <1> QED
    BY <1>1 DEF IdOf, SymbolId, KindOf, PathOf

\* add_symbol: a first declaration makes the symbol, a definition completes it.
LEMMA AddSymbolKeepsTable ==
    ASSUME NEW s, Held(s), NEW f, NEW u \in Unit, NEW k \in Collecting(u),
           SymbolsInv(s.symbols, f, u, k - 1)
    PROVE  SymbolsInv(AddSymbol(s, f, u[k].decl).symbols, f, u, k)
  <1> DEFINE d == u[k].decl
             old == s.symbols
             new == AddSymbol(s, f, d).symbols
  <1>1. k \in Nat /\ k \in 1..Len(u) /\ d.entity \in EntitiesOf(u) /\ d.line \in Lines(u)
    BY PositionsAreNaturals DEF EntitiesOf, Lines
  <1>1a. \A p \in Collecting(u) : p \in Nat /\ (p <= k <=> p = k \/ p <= k - 1)
    BY <1>1, PositionsAreNaturals
  <1>2. \A e : Passed(u, k, e) = IF e = d.entity THEN Passed(u, k - 1, e) \cup {k} ELSE Passed(u, k - 1, e)
    BY <1>1, <1>1a DEF Passed
  <1>3. \A e : \A p \in Passed(u, k - 1, e) : d.def /\ u[p].decl.def => e # d.entity
    <2> SUFFICES ASSUME NEW p \in Collecting(u), p <= k - 1, d.def, u[p].decl.def,
                        u[p].decl.entity = d.entity
                 PROVE  FALSE
      BY DEF Passed
    <2>1. p = k
      BY UnitAssumption
    <2> QED
      BY <1>1, <2>1
  <1>4. d.line # 0
    BY UnitAssumption
  <1>5. CASE Indices(s, d.entity) # {}
    <2>1. PICK n \in 1..Len(old) : old[n].entity = d.entity
      BY <1>5 DEF Indices
    <2>2. new = [i \in DOMAIN old |-> IF old[i].entity = d.entity /\ d.def
                                      THEN [old[i] EXCEPT !.definition = d.line] ELSE old[i]]
      BY <1>5 DEF AddSymbol, Held
    <2>3. old \in Seq(SymbolType(f, u)) /\ Len(old) \in Nat /\ DOMAIN old = 1..Len(old)
      BY DEF SymbolsInv
    <2>4. \A i \in 1..Len(old) : old[i] \in SymbolType(f, u)
      BY <2>3
    <2>5. \A i \in 1..Len(old) :
            /\ new[i] \in SymbolType(f, u)
            /\ new[i].entity = old[i].entity /\ new[i].id = old[i].id
            /\ new[i].definition = IF i = n /\ d.def THEN d.line ELSE old[i].definition
      <3> SUFFICES ASSUME NEW i \in 1..Len(old)
                   PROVE  /\ new[i] \in SymbolType(f, u)
                          /\ new[i].entity = old[i].entity /\ new[i].id = old[i].id
                          /\ new[i].definition = IF i = n /\ d.def THEN d.line ELSE old[i].definition
        OBVIOUS
      <3>1. old[i].entity = d.entity <=> i = n
        BY <2>1 DEF SymbolsInv
      <3>2. new[i] = IF i = n /\ d.def THEN [old[i] EXCEPT !.definition = d.line] ELSE old[i]
        BY <2>2, <2>3, <3>1
      <3> HIDE DEF d, old, new
      <3> QED
        BY <1>1, <2>4, <3>2 DEF SymbolType
    <2>6. new \in Seq(SymbolType(f, u)) /\ Len(new) = Len(old)
      <3>1. DOMAIN new = 1..Len(old)
        BY <2>2, <2>3
      <3>2. new \in [1..Len(old) -> SymbolType(f, u)]
        BY <2>2, <2>3, <2>5
      <3> HIDE DEF old, new
      <3> QED
        BY <2>3, <3>1, <3>2
    <2>7. SymbolsInv(old, f, u, k - 1)
      OBVIOUS
    <2> HIDE DEF old, new, d
    <2>8. \A i \in 1..Len(new) : Passed(u, k, new[i].entity) # {}
      BY <1>2, <2>5, <2>6, <2>7 DEF SymbolsInv
    <2>9. \A p \in Collecting(u) : p <= k => \E i \in 1..Len(new) : new[i].entity = u[p].decl.entity
      BY <1>1a, <2>1, <2>5, <2>6, <2>7 DEF SymbolsInv, d
    <2>10. ASSUME NEW i \in 1..Len(new), NEW p \in Passed(u, k, new[i].entity), u[p].decl.def
           PROVE  new[i].definition = u[p].decl.line
      <3>1. CASE p = k
        <4>1. u[k].decl.entity = new[i].entity
          BY <3>1 DEF Passed
        <4>2. i = n /\ d.def
          BY <2>1, <2>5, <2>6, <2>7, <2>10, <3>1, <4>1 DEF SymbolsInv, d
        <4> QED
          BY <2>5, <2>6, <3>1, <4>2 DEF d
      <3>2. CASE p # k
        <4>1. p \in Passed(u, k - 1, old[i].entity)
          BY <1>2, <2>5, <2>6, <3>2
        <4>2. old[i].definition = u[p].decl.line
          BY <2>6, <2>7, <2>10, <4>1 DEF SymbolsInv
        <4>3. ~(i = n /\ d.def)
          BY <1>3, <2>1, <2>10, <4>1
        <4> QED
          BY <2>5, <2>6, <4>2, <4>3
      <3> QED
        BY <3>1, <3>2
    <2>11. ASSUME NEW i \in 1..Len(new), new[i].definition # 0
           PROVE  \E p \in Passed(u, k, new[i].entity) :
                      u[p].decl.def /\ new[i].definition = u[p].decl.line
      <3>1. CASE i = n /\ d.def
        <4>1. k \in Passed(u, k, new[i].entity)
          BY <1>2, <2>1, <2>5, <2>6, <3>1
        <4> QED
          BY <2>5, <2>6, <3>1, <4>1 DEF d
      <3>2. CASE ~(i = n /\ d.def)
        <4>1. PICK p \in Passed(u, k - 1, old[i].entity) :
                 u[p].decl.def /\ old[i].definition = u[p].decl.line
          BY <2>5, <2>6, <2>7, <2>11, <3>2 DEF SymbolsInv
        <4>2. p \in Passed(u, k, new[i].entity)
          BY <1>2, <2>5, <2>6, <4>1
        <4> QED
          BY <2>5, <2>6, <3>2, <4>1, <4>2
      <3> QED
        BY <3>1, <3>2
    <2>12. \A i, j \in 1..Len(new) : new[i].entity = new[j].entity => i = j
      <3>1. \A i, j \in 1..Len(old) : old[i].entity = old[j].entity => i = j
        BY <2>7 DEF SymbolsInv
      <3> QED
        BY <2>5, <2>6, <3>1
    <2>13. \A i \in 1..Len(new) : new[i].id = SymbolId(f, u, new[i].entity)
      <3>1. \A i \in 1..Len(old) : old[i].id = SymbolId(f, u, old[i].entity)
        BY <2>7 DEF SymbolsInv
      <3> QED
        BY <2>5, <2>6, <3>1
    <2>14. SymbolsInv(new, f, u, k)
      BY <2>6, <2>8, <2>9, <2>10, <2>11, <2>12, <2>13 DEF SymbolsInv
    <2> QED
      BY <2>14 DEF new, d
  <1>6. CASE Indices(s, d.entity) = {}
    <2> DEFINE x == [entity |-> d.entity, id |-> IdOf(f, d), definition |-> IF d.def THEN d.line ELSE 0]
    <2>1. new = Append(old, x)
      BY <1>6 DEF AddSymbol, Held
    <2>2. \A i \in 1..Len(old) : old[i].entity # d.entity
      BY <1>6 DEF Indices
    <2>3. SymbolsInv(old, f, u, k - 1)
      OBVIOUS
    <2>4. Passed(u, k - 1, d.entity) = {}
      <3> SUFFICES ASSUME NEW p \in Collecting(u), p <= k - 1, u[p].decl.entity = d.entity PROVE FALSE
        BY DEF Passed
      <3> QED
        BY <2>2, <2>3 DEF SymbolsInv
    <2>5. IdOf(f, d) = SymbolId(f, u, d.entity)
      <3>1. ASSUME NEW j \in Collecting(u), u[j].decl.entity = d.entity PROVE k <= j
        <4>1. ~(j <= k - 1)
          BY <2>4, <3>1 DEF Passed
        <4> QED
          BY <1>1, <1>1a, <4>1
      <3> QED
        BY <3>1, IdOfFirst
    <2>6. /\ x.entity = d.entity /\ x.id = SymbolId(f, u, d.entity)
          /\ x.definition = (IF d.def THEN d.line ELSE 0)
          /\ x \in SymbolType(f, u)
      BY <1>1, <2>5 DEF SymbolType
    <2> HIDE DEF x, new, old
    <2>7. old \in Seq(SymbolType(f, u)) /\ Len(old) \in Nat
      BY <2>3 DEF SymbolsInv
    <2>8. /\ new \in Seq(SymbolType(f, u)) /\ Len(new) = Len(old) + 1
          /\ \A i \in 1..Len(old) : new[i] = old[i] /\ i # Len(old) + 1
          /\ new[Len(old) + 1] = x
          /\ \A i \in 1..Len(new) : i \in 1..Len(old) \/ i = Len(old) + 1
          /\ \A i \in 1..Len(old) : i \in 1..Len(new)
          /\ Len(old) + 1 \in 1..Len(new)
      BY <2>1, <2>6, <2>7
    <2> DEFINE l == Len(old) + 1
               top == Len(new)
               bottom == Len(old)
    <2>8a. /\ \A i \in 1..bottom : new[i] = old[i] /\ i # l /\ i \in 1..top
           /\ new[l] = x /\ l \in 1..top
           /\ \A i \in 1..top : i \in 1..bottom \/ i = l
      BY <2>8
    <2>8b. /\ \A i, j \in 1..bottom : old[i].entity = old[j].entity => i = j
           /\ \A i \in 1..bottom : old[i].id = SymbolId(f, u, old[i].entity)
           /\ \A i \in 1..bottom : Passed(u, k - 1, old[i].entity) # {}
           /\ \A p \in Collecting(u) : p <= k - 1 => \E i \in 1..bottom : old[i].entity = u[p].decl.entity
           /\ \A i \in 1..bottom : \A p \in Passed(u, k - 1, old[i].entity) :
                u[p].decl.def => old[i].definition = u[p].decl.line
           /\ \A i \in 1..bottom : old[i].definition # 0 =>
                \E p \in Passed(u, k - 1, old[i].entity) :
                    u[p].decl.def /\ old[i].definition = u[p].decl.line
           /\ \A i \in 1..bottom : old[i].entity # d.entity
      BY <2>2, <2>3 DEF SymbolsInv
    <2>8c. Passed(u, k, d.entity) = {k} /\ \A e : e # d.entity => Passed(u, k, e) = Passed(u, k - 1, e)
      BY <1>2, <2>4
    <2> HIDE DEF l, top, bottom
    <2>9. \A i, j \in 1..top : new[i].entity = new[j].entity => i = j
      BY <2>6, <2>8a, <2>8b
    <2>10. \A i \in 1..top : new[i].id = SymbolId(f, u, new[i].entity)
      BY <2>6, <2>8a, <2>8b
    <2>11. \A i \in 1..top : Passed(u, k, new[i].entity) # {}
      BY <2>6, <2>8a, <2>8b, <2>8c
    <2>12. \A p \in Collecting(u) : p <= k => \E i \in 1..top : new[i].entity = u[p].decl.entity
      BY <1>1a, <2>6, <2>8a, <2>8b
    <2>13. ASSUME NEW i \in 1..top, NEW p \in Passed(u, k, new[i].entity), u[p].decl.def
           PROVE  new[i].definition = u[p].decl.line
      <3>1. CASE i = l
        <4>1. p = k
          BY <2>6, <2>8a, <2>8c, <2>13, <3>1
        <4> QED
          BY <2>6, <2>8a, <2>13, <3>1, <4>1
      <3>2. CASE i # l
        <4>1. i \in 1..bottom /\ new[i] = old[i] /\ p \in Passed(u, k - 1, old[i].entity)
          BY <2>8a, <2>8b, <2>8c, <3>2
        <4> QED
          BY <2>8b, <2>13, <4>1
      <3> QED
        BY <3>1, <3>2
    <2>14. ASSUME NEW i \in 1..top, new[i].definition # 0
           PROVE  \E p \in Passed(u, k, new[i].entity) :
                      u[p].decl.def /\ new[i].definition = u[p].decl.line
      <3>1. CASE i = l
        <4>1. k \in Passed(u, k, new[i].entity)
          BY <2>6, <2>8a, <2>8c, <3>1
        <4>2. d.def /\ new[i].definition = d.line
          BY <2>6, <2>8a, <2>14, <3>1
        <4> QED
          BY <4>1, <4>2
      <3>2. CASE i # l
        <4>1. i \in 1..bottom /\ new[i] = old[i] /\ Passed(u, k, new[i].entity) = Passed(u, k - 1, old[i].entity)
          BY <2>8a, <2>8b, <2>8c, <3>2
        <4> QED
          BY <2>8b, <2>14, <4>1
      <3> QED
        BY <3>1, <3>2
    <2>15. SymbolsInv(new, f, u, k)
      BY <2>8, <2>9, <2>10, <2>11, <2>12, <2>13, <2>14 DEF SymbolsInv, top
    <2> QED
      BY <2>15 DEF new
  <1> QED
    BY <1>5, <1>6

\* A node that declares nothing leaves the table as it is.
LEMMA TableOutlivesOtherNodes ==
    ASSUME NEW symbols, NEW f, NEW u \in Unit, NEW k \in 1..Len(u), k \notin Collecting(u),
           SymbolsInv(symbols, f, u, k - 1)
    PROVE  SymbolsInv(symbols, f, u, k)
  <1>1. k \in Nat /\ \A p \in Collecting(u) : p <= k <=> p <= k - 1
    BY UnitIsASequence, PositionsAreNaturals
  <1>2. \A e : Passed(u, k, e) = Passed(u, k - 1, e)
    BY <1>1 DEF Passed
  <1> QED
    BY <1>1, <1>2 DEF SymbolsInv

\* A chunk is stored under the id of its symbol.
LEMMA ChunkHasTheId ==
    ASSUME NEW s, Held(s), NEW f, NEW u \in Unit, NEW k \in Collecting(u),
           SymbolsInv(s.symbols, f, u, k)
    PROVE  ChunkId(s, f, u[k].decl) = SymbolId(f, u, u[k].decl.entity)
  <1>1. k \in Nat
    BY PositionsAreNaturals
  <1>2. Indices(s, u[k].decl.entity) # {}
    BY <1>1 DEF SymbolsInv, Indices
  <1> DEFINE n == CHOOSE i \in Indices(s, u[k].decl.entity) : TRUE
  <1>3. n \in Indices(s, u[k].decl.entity)
    BY <1>2
  <1>4. ChunkId(s, f, u[k].decl) = s.symbols[n].id
    BY DEF ChunkId
  <1> HIDE DEF n
  <1> QED
    BY <1>3, <1>4 DEF SymbolsInv, Indices
-----------------------------------------------------------------------------
(***************************************************************************)
(* The stack of scopes.                                                    *)
(***************************************************************************)
\* The scopes are the functions that enclose the position, outermost first.
Stacked(scopes, pos, u, k) ==
    /\ pos \in [1..Len(scopes) -> Enclosing(u, k)]
    /\ \A m, n \in 1..Len(scopes) : m < n => pos[m] < pos[n]
    /\ \A i \in Enclosing(u, k) : \E n \in 1..Len(scopes) : pos[n] = i
    /\ \A n \in 1..Len(scopes) : scopes[n] = u[pos[n]].decl.entity

ScopesInv(scopes, u, k) ==
    /\ scopes \in Seq(EntitiesOf(u))
    /\ \E pos : Stacked(scopes, pos, u, k)

\* A node opens or closes at most the innermost function.
LEMMA OpenAfter ==
    ASSUME NEW u \in Unit, NEW k \in 1..Len(u)
    PROVE  /\ u[k].at = "enter" => Open(u, k) = Open(u, k - 1) \cup {k}
           /\ u[k].at = "leave" =>
                 Open(u, k) = {i \in Open(u, k - 1) : u[i].decl # u[k].decl}
           /\ u[k].at \notin {"enter", "leave"} => Open(u, k) = Open(u, k - 1)
           /\ \A i \in Open(u, k - 1) : i \in Nat /\ i < k /\ i \in 1..Len(u) /\ u[i].at = "enter"
  <1>1. Len(u) \in Nat /\ k \in Nat
    BY UnitIsASequence
  <1>2. \A i \in 1..k : i \in Nat /\ (i \in 1..(k - 1) \/ i = k) /\ k \in i..k
    BY <1>1
  <1>3. \A i \in 1..(k - 1) : /\ i \in 1..k /\ i < k /\ i \in Nat /\ i \in 1..Len(u)
                              /\ \A l \in i..k : l \in i..(k - 1) \/ l = k
                              /\ \A l \in i..(k - 1) : l \in i..k
    BY <1>1
  <1>4. k \in 1..k /\ \A l \in k..k : l = k
    BY <1>1
  <1>5. CASE u[k].at = "enter"
    BY <1>2, <1>3, <1>4, <1>5 DEF Open
  <1>6. CASE u[k].at = "leave"
    BY <1>2, <1>3, <1>4, <1>6 DEF Open
  <1>7. CASE u[k].at \notin {"enter", "leave"}
    BY <1>2, <1>3, <1>4, <1>7 DEF Open
  <1>8. \A i \in Open(u, k - 1) : i \in Nat /\ i < k /\ i \in 1..Len(u) /\ u[i].at = "enter"
    BY <1>3 DEF Open
  <1> QED
    BY <1>5, <1>6, <1>7, <1>8

\* A function of the file opens a scope exactly if it counts as enclosing.
LEMMA OpensScopeIsEnclosing ==
    ASSUME NEW u \in Unit, NEW k \in 1..Len(u), u[k].at = "enter"
    PROVE  OpensScope(u[k].decl) <=> u[k].decl.main /\ u[k].decl.kind # "conversion"
  <1>1. u[k].decl.kind \in {"function", "method", "constructor", "destructor", "conversion"}
    BY UnitAssumption
  <1> QED
    BY <1>1 DEF OpensScope

\* Nothing that is no scope is opened or closed.
LEMMA EnclosingStays ==
    ASSUME NEW u \in Unit, NEW k \in 1..Len(u),
           u[k].at \in {"enter", "leave"} => ~OpensScope(u[k].decl)
    PROVE  Enclosing(u, k) = Enclosing(u, k - 1)
  <1> USE OpenAfter
  <1>1. CASE u[k].at = "enter"
    BY <1>1, OpensScopeIsEnclosing DEF Enclosing
  <1>2. CASE u[k].at = "leave"
    <2>1. \A i \in Open(u, k - 1) : u[i].decl = u[k].decl =>
              ~(u[i].decl.main /\ u[i].decl.kind # "conversion")
      BY <1>2, OpensScopeIsEnclosing
    <2> QED
      BY <1>2, <2>1 DEF Enclosing
  <1>3. CASE u[k].at \notin {"enter", "leave"}
    BY <1>3 DEF Enclosing
  <1> QED
    BY <1>1, <1>2, <1>3

\* A function that is entered is the innermost.
LEMMA EnterStacks ==
    ASSUME NEW u \in Unit, NEW k \in 1..Len(u), u[k].at = "enter", OpensScope(u[k].decl),
           NEW scopes, ScopesInv(scopes, u, k - 1)
    PROVE  ScopesInv(Append(scopes, u[k].decl.entity), u, k)
  <1>1. PICK pos : Stacked(scopes, pos, u, k - 1)
    BY DEF ScopesInv
  <1> DEFINE new == Append(scopes, u[k].decl.entity)
             l == Len(scopes) + 1
             p == [n \in 1..l |-> IF n = l THEN k ELSE pos[n]]
  <1>2. u[k].decl.entity \in EntitiesOf(u)
    BY OpensScopeIsEnclosing DEF EntitiesOf, Collecting
  <1>3. /\ scopes \in Seq(EntitiesOf(u)) /\ Len(scopes) \in Nat
        /\ new \in Seq(EntitiesOf(u)) /\ Len(new) = l /\ new[l] = u[k].decl.entity
        /\ \A n \in 1..Len(scopes) : new[n] = scopes[n]
    BY <1>2 DEF ScopesInv
  <1>4. Enclosing(u, k) = Enclosing(u, k - 1) \cup {k}
    BY OpenAfter, OpensScopeIsEnclosing DEF Enclosing
  <1>5. \A i \in Enclosing(u, k - 1) : i < k
    BY OpenAfter DEF Enclosing
  <1>6. /\ \A n \in 1..l : n \in 1..Len(scopes) \/ n = l
        /\ \A n \in 1..Len(scopes) : n \in 1..l /\ n # l /\ p[n] = pos[n] /\ ~(l < n)
        /\ l \in 1..l /\ p[l] = k /\ ~(l < l)
    BY <1>3
  <1> HIDE DEF new, l, p
  <1>7. Stacked(new, p, u, k)
    <2>1. \A n \in 1..Len(scopes) : pos[n] \in Enclosing(u, k - 1)
      BY <1>1 DEF Stacked
    <2>2. p \in [1..l -> Enclosing(u, k)]
      <3>1. \A n \in 1..l : p[n] \in Enclosing(u, k)
        BY <1>4, <1>6, <2>1
      <3>2. p = [n \in 1..l |-> p[n]]
        BY DEF p
      <3> QED
        BY <3>1, <3>2
    <2>3. ASSUME NEW m \in 1..l, NEW n \in 1..l, m < n PROVE p[m] < p[n]
      <3>1. m \in 1..Len(scopes)
        BY <1>6, <2>3
      <3>2. CASE n = l
        BY <1>5, <1>6, <2>1, <3>1, <3>2
      <3>3. CASE n # l
        BY <1>1, <1>6, <2>3, <3>1, <3>3 DEF Stacked
      <3> QED
        BY <3>2, <3>3
    <2>4. \A i \in Enclosing(u, k) : \E n \in 1..l : p[n] = i
      BY <1>1, <1>4, <1>6 DEF Stacked
    <2>5. \A n \in 1..l : new[n] = u[p[n]].decl.entity
      BY <1>1, <1>3, <1>6 DEF Stacked
    <2> QED
      BY <1>3, <2>2, <2>3, <2>4, <2>5 DEF Stacked
  <1> QED
    BY <1>3, <1>7 DEF ScopesInv, new

\* A function that is left was the innermost.
LEMMA LeaveUnstacks ==
    ASSUME NEW u \in Unit, NEW k \in 1..Len(u), u[k].at = "leave", OpensScope(u[k].decl),
           NEW scopes, ScopesInv(scopes, u, k - 1)
    PROVE  ScopesInv(Front(scopes), u, k)
  <1>1. PICK pos : Stacked(scopes, pos, u, k - 1)
    BY DEF ScopesInv
  <1>2. PICK j \in Open(u, k - 1) :
            /\ u[j].decl = u[k].decl
            /\ \A i \in Open(u, k - 1) \ {j} : i < j /\ u[i].decl # u[k].decl
    BY UnitAssumption
  <1>3. j \in Nat /\ j \in 1..Len(u) /\ u[j].at = "enter" /\ \A i \in Open(u, k - 1) : i \in Nat
    BY OpenAfter
  <1>4. j \in Enclosing(u, k - 1)
    BY <1>2, <1>3, OpensScopeIsEnclosing DEF Enclosing
  <1>5. Enclosing(u, k) = Enclosing(u, k - 1) \ {j}
    BY <1>2, OpenAfter DEF Enclosing
  <1>6. \A i \in Enclosing(u, k - 1) : i \in Nat /\ (i = j \/ i < j)
    BY <1>2, <1>3 DEF Enclosing
  <1> DEFINE L == Len(scopes)
  <1>7. PICK n \in 1..L : pos[n] = j
    BY <1>1, <1>4 DEF Stacked
  <1>8. scopes \in Seq(EntitiesOf(u)) /\ L \in Nat
    BY DEF ScopesInv
  \* The function that ends is the last scope.
  <1>9. n = L /\ L # 0
    <2> SUFFICES ASSUME n # L PROVE FALSE
      BY <1>7, <1>8
    <2>1. n < L /\ L \in 1..L
      BY <1>7, <1>8
    <2>2. pos[n] < pos[L] /\ pos[L] \in Enclosing(u, k - 1)
      BY <1>1, <2>1 DEF Stacked
    <2> QED
      BY <1>3, <1>6, <1>7, <2>2
  <1> DEFINE new == Front(scopes)
             p == [m \in 1..(L - 1) |-> pos[m]]
  <1>10. /\ new \in Seq(EntitiesOf(u)) /\ Len(new) = L - 1
         /\ \A m \in 1..(L - 1) : new[m] = scopes[m]
    <2>1. new = SubSeq(scopes, 1, L - 1)
      BY DEF Front
    <2> QED
      BY <1>8, <1>9, <2>1
  <1>11. \A m \in 1..(L - 1) : m \in 1..L /\ m < L /\ p[m] = pos[m]
    BY <1>8
  <1>11a. \A m \in 1..L : m \in 1..(L - 1) \/ m = L
    BY <1>8
  <1>12. p = [m \in 1..(L - 1) |-> p[m]]
    BY Zenon
  <1> HIDE DEF p, new, L
  <1>13. Stacked(new, p, u, k)
    <2>1. ASSUME NEW m \in 1..(L - 1) PROVE p[m] \in Enclosing(u, k)
      <3>1. pos[m] \in Enclosing(u, k - 1) /\ pos[m] < pos[L]
        BY <1>1, <1>9, <1>11, <1>7 DEF Stacked, L
      <3> QED
        BY <1>3, <1>5, <1>7, <1>9, <1>11, <3>1
    <2>2. p \in [1..(L - 1) -> Enclosing(u, k)]
      BY <1>12, <2>1
    <2>3. \A i, m \in 1..(L - 1) : i < m => p[i] < p[m]
      BY <1>1, <1>11 DEF Stacked, L
    <2>4. ASSUME NEW i \in Enclosing(u, k) PROVE \E m \in 1..(L - 1) : p[m] = i
      <3>1. PICK m \in 1..L : pos[m] = i
        BY <1>1, <1>5 DEF Stacked, L
      <3>2. m # L
        BY <1>5, <1>7, <1>9, <3>1
      <3> QED
        BY <1>11, <1>11a, <3>1, <3>2
    <2>5. \A m \in 1..(L - 1) : new[m] = u[p[m]].decl.entity
      BY <1>1, <1>10, <1>11 DEF Stacked, L
    <2> QED
      BY <1>10, <2>2, <2>3, <2>4, <2>5 DEF Stacked
  <1> QED
    BY <1>10, <1>13 DEF ScopesInv, new

\* The scopes follow the nesting of the text.
LEMMA ScopesFollow ==
    ASSUME NEW u \in Unit, NEW k \in 1..Len(u), NEW scopes, ScopesInv(scopes, u, k - 1)
    PROVE  ScopesInv(ScopesAfter(scopes, u, k), u, k)
  <1>1. CASE u[k].at = "enter" /\ OpensScope(u[k].decl)
    BY <1>1, EnterStacks DEF ScopesAfter
  <1>2. CASE u[k].at = "leave" /\ OpensScope(u[k].decl)
    BY <1>2, LeaveUnstacks DEF ScopesAfter
  <1>3. CASE u[k].at \in {"enter", "leave"} => ~OpensScope(u[k].decl)
    BY <1>3, EnclosingStays DEF ScopesAfter, ScopesInv, Stacked
  <1> QED
    BY <1>1, <1>2, <1>3

\* A call belongs to the innermost scope.
LEMMA CallOfInnermost ==
    ASSUME NEW u \in Unit, NEW k \in 1..Len(u), NEW scopes, ScopesInv(scopes, u, k - 1)
    PROVE  Added(scopes, u, k) = RelationsAt(u, k)
  <1>1. CASE u[k].at # "call"
    BY <1>1 DEF Added
  <1>2. CASE u[k].at = "call"
    <2> DEFINE inner == {i \in Enclosing(u, k) : \A l \in Enclosing(u, k) : l <= i}
               L == Len(scopes)
    <2>1. Enclosing(u, k) = Enclosing(u, k - 1)
      BY <1>2, EnclosingStays
    <2>2. PICK pos : Stacked(scopes, pos, u, k)
      BY <2>1 DEF ScopesInv, Stacked
    <2>3. scopes \in Seq(EntitiesOf(u)) /\ L \in Nat
      BY DEF ScopesInv
    <2>4. RelationsAt(u, k) = {<<u[i].decl.entity, u[k].callee, "calls">> : i \in inner}
      BY <1>2 DEF RelationsAt
    <2>5. CASE scopes = << >>
      <3>1. Enclosing(u, k) = {}
        BY <2>2, <2>5 DEF Stacked
      <3> QED
        BY <1>2, <2>4, <2>5, <3>1 DEF Added
    <2>6. CASE scopes # << >>
      <3>1. L \in 1..L /\ \A n \in 1..L : n = L \/ n < L
        BY <2>3, <2>6
      <3>2. \A i \in Enclosing(u, k) : i \in Nat
        BY <2>1, OpenAfter DEF Enclosing
      <3>3. pos[L] \in Enclosing(u, k) /\ \A i \in Enclosing(u, k) : i = pos[L] \/ i < pos[L]
        <4> HIDE DEF L
        <4> QED
          BY <2>2, <3>1 DEF Stacked, L
      <3>4. inner = {pos[L]}
        BY <3>2, <3>3
      <3>5. Last(scopes) = u[pos[L]].decl.entity
        BY <2>2, <3>1 DEF Last, Stacked
      <3> HIDE DEF L, inner
      <3> QED
        BY <1>2, <2>4, <2>6, <3>4, <3>5 DEF Added
    <2> QED
      BY <2>5, <2>6
  <1> QED
    BY <1>1, <1>2
-----------------------------------------------------------------------------
(***************************************************************************)
(* What the walk has collected.                                            *)
(***************************************************************************)
\* The ids of the chunks up to a position.
ChunkIds(f, u, k) == {SymbolId(f, u, u[i].decl.entity) : i \in {i \in Chunking(u) : i <= k}}

\* The relations up to a position.
RelationsUpTo(u, k) == UNION {RelationsAt(u, j) : j \in 1..k}

\* Different entities have different ids.
DistinctIds(f, u) == \A x, y \in EntitiesOf(u) : SymbolId(f, u, x) = SymbolId(f, u, y) => x = y

WalkInv(s, f, u, k) ==
    /\ Held(s)
    /\ ScopesInv(s.scopes, u, k)
    /\ SymbolsInv(s.symbols, f, u, k)
    /\ s.pending = RelationsUpTo(u, k)
    /\ s.chunks \in Seq({SymbolId(f, u, e) : e \in EntitiesOf(u)})
    /\ \A id : id \in ChunkIds(f, u, k) <=> \E i \in 1..Len(s.chunks) : s.chunks[i] = id
    /\ DistinctIds(f, u) => \A i, j \in 1..Len(s.chunks) : s.chunks[i] = s.chunks[j] => i = j

\* Nothing is collected before the first node.
LEMMA WalkBegins ==
    ASSUME NEW f, NEW u \in Unit
    PROVE  WalkInv(Collected, f, u, 0)
  <1>1. /\ Held(Collected) /\ Collected.scopes = << >> /\ Collected.symbols = << >>
        /\ Collected.pending = {} /\ Collected.chunks = << >>
    BY DEF Held, Collected
  <1>2. ScopesInv(<< >>, u, 0)
    <2>1. Enclosing(u, 0) = {}
      BY DEF Enclosing, Open
    <2>2. Stacked(<< >>, [n \in {} |-> n], u, 0)
      BY <2>1 DEF Stacked
    <2>3. << >> \in Seq(EntitiesOf(u))
      OBVIOUS
    <2> QED
      BY <2>2, <2>3 DEF ScopesInv
  <1>2a. RelationsUpTo(u, 0) = {}
    BY DEF RelationsUpTo
  <1>3. \A i \in Collecting(u) : ~(i <= 0)
    BY PositionsAreNaturals DEF Collecting
  <1>4. SymbolsInv(<< >>, f, u, 0)
    BY <1>3 DEF SymbolsInv
  <1>5. ChunkIds(f, u, 0) = {}
    BY <1>3 DEF ChunkIds, Chunking
  <1> QED
    BY <1>1, <1>2, <1>2a, <1>4, <1>5 DEF WalkInv

\* One node more.
LEMMA WalkGoesOn ==
    ASSUME NEW s, NEW f, NEW u \in Unit, NEW k \in 1..Len(u), WalkInv(s, f, u, k - 1)
    PROVE  WalkInv(Visit(s, f, u[k]), f, u, k)
  <1> DEFINE t == Visit(s, f, u[k])
             d == u[k].decl
             Id == {SymbolId(f, u, e) : e \in EntitiesOf(u)}
  <1>1. VisitEffect(s, t, f, u, k)
    BY VisitParts DEF WalkInv
  <1>2. k \in Nat /\ Len(u) \in Nat /\ \A i \in Collecting(u) : i <= k <=> i = k \/ i <= k - 1
    BY UnitIsASequence, PositionsAreNaturals
  <1> HIDE DEF t
  <1>3. ScopesInv(t.scopes, u, k)
    BY <1>1, ScopesFollow DEF VisitEffect, WalkInv
  <1>4. SymbolsInv(t.symbols, f, u, k)
    <2>1. Held(s) /\ SymbolsInv(s.symbols, f, u, k - 1)
      BY DEF WalkInv
    <2>2. CASE k \in Collecting(u)
      <3>1. SymbolsInv(AddSymbol(s, f, u[k].decl).symbols, f, u, k)
        BY <2>1, <2>2, AddSymbolKeepsTable
      <3> QED
        BY <1>1, <2>2, <3>1 DEF VisitEffect
    <2>3. CASE k \notin Collecting(u)
      <3>1. SymbolsInv(s.symbols, f, u, k)
        BY <2>1, <2>3, TableOutlivesOtherNodes
      <3> QED
        BY <1>1, <2>3, <3>1 DEF VisitEffect
    <2> QED
      BY <2>2, <2>3
  <1>5. t.pending = RelationsUpTo(u, k)
    <2>1. t.pending = RelationsUpTo(u, k - 1) \cup RelationsAt(u, k)
      <3>1. t.pending = s.pending \cup Added(s.scopes, u, k)
        BY <1>1 DEF VisitEffect
      <3>2. s.pending = RelationsUpTo(u, k - 1) /\ ScopesInv(s.scopes, u, k - 1)
        BY DEF WalkInv
      <3>3. Added(s.scopes, u, k) = RelationsAt(u, k)
        BY <3>2, CallOfInnermost
      <3> QED
        BY <3>1, <3>2, <3>3
    <2>2. \A j : j \in 1..k <=> j \in 1..(k - 1) \/ j = k
      BY <1>2
    <2>3. RelationsUpTo(u, k) = RelationsUpTo(u, k - 1) \cup RelationsAt(u, k)
      <3>1. \A n, r : r \in RelationsUpTo(u, n) <=> \E j \in 1..n : r \in RelationsAt(u, j)
        BY Zenon DEF RelationsUpTo
      <3> QED
        BY <2>2, <3>1, Zenon
    <2> QED
      BY <2>1, <2>3
  <1>6. s.chunks \in Seq(Id) /\ Len(s.chunks) \in Nat
    BY DEF WalkInv
  <1>7. /\ t.chunks \in Seq(Id)
        /\ \A id : id \in ChunkIds(f, u, k) <=> \E i \in 1..Len(t.chunks) : t.chunks[i] = id
        /\ DistinctIds(f, u) => \A i, j \in 1..Len(t.chunks) : t.chunks[i] = t.chunks[j] => i = j
    <2>1. CASE k \in Chunking(u)
      <3>1. k \in Collecting(u)
        BY <2>1 DEF Chunking
      <3> DEFINE a == AddSymbol(s, f, d)
                 c == SymbolId(f, u, d.entity)
      <3>2. Held(a) /\ SymbolsInv(a.symbols, f, u, k)
        BY <3>1, AddSymbolParts, AddSymbolKeepsTable DEF WalkInv
      <3>3. ChunkId(a, f, d) = c
        BY <3>1, <3>2, ChunkHasTheId
      <3>4. t.chunks = Append(s.chunks, c)
        BY <1>1, <2>1, <3>3 DEF VisitEffect
      <3>5. c \in Id
        BY <3>1 DEF EntitiesOf
      <3>6. ChunkIds(f, u, k) = ChunkIds(f, u, k - 1) \cup {c}
        BY <1>2, <2>1 DEF ChunkIds, Chunking
      \* The entity has no other definition.
      <3>6a. ASSUME DistinctIds(f, u) PROVE c \notin ChunkIds(f, u, k - 1)
        <4> SUFFICES ASSUME NEW i \in Chunking(u), i <= k - 1, c = SymbolId(f, u, u[i].decl.entity)
                     PROVE  FALSE
          BY DEF ChunkIds
        <4>1. i \in Collecting(u) /\ u[i].decl.def /\ d.def
          BY <2>1 DEF Chunking
        <4>2. u[i].decl.entity = d.entity
          BY <3>1, <3>6a, <4>1 DEF DistinctIds, EntitiesOf
        <4>3. i = k
          BY <3>1, <4>1, <4>2, UnitAssumption
        <4> QED
          BY <1>2, <4>3
      <3> HIDE DEF a, c, Id
      <3>7. /\ t.chunks \in Seq(Id) /\ Len(t.chunks) = Len(s.chunks) + 1
            /\ \A i \in 1..Len(s.chunks) : t.chunks[i] = s.chunks[i] /\ i \in 1..Len(t.chunks)
            /\ t.chunks[Len(s.chunks) + 1] = c
            /\ Len(s.chunks) + 1 \in 1..Len(t.chunks)
            /\ \A i \in 1..Len(t.chunks) : i \in 1..Len(s.chunks) \/ i = Len(s.chunks) + 1
        BY <1>6, <3>4, <3>5
      <3>8. \A id : id \in ChunkIds(f, u, k - 1) <=> \E i \in 1..Len(s.chunks) : s.chunks[i] = id
        BY DEF WalkInv
      <3>9. ASSUME NEW id
            PROVE  id \in ChunkIds(f, u, k) <=> \E i \in 1..Len(t.chunks) : t.chunks[i] = id
        <4>1. ASSUME id \in ChunkIds(f, u, k) PROVE \E i \in 1..Len(t.chunks) : t.chunks[i] = id
          BY <3>6, <3>7, <3>8, <4>1
        <4>2. ASSUME NEW i \in 1..Len(t.chunks), t.chunks[i] = id PROVE id \in ChunkIds(f, u, k)
          BY <3>6, <3>7, <3>8, <4>2
        <4> QED
          BY <4>1, <4>2
      <3>10. ASSUME DistinctIds(f, u), NEW i \in 1..Len(t.chunks), NEW j \in 1..Len(t.chunks),
                    t.chunks[i] = t.chunks[j]
             PROVE  i = j
        <4>1. \A l \in 1..Len(s.chunks) : t.chunks[l] # c
          BY <3>6a, <3>7, <3>8, <3>10
        <4>2. \A l, m \in 1..Len(s.chunks) : s.chunks[l] = s.chunks[m] => l = m
          BY <3>10 DEF WalkInv
        <4> QED
          BY <3>7, <3>10, <4>1, <4>2
      <3> QED
        BY <3>7, <3>9, <3>10
    <2>2. CASE k \notin Chunking(u)
      <3>1. ChunkIds(f, u, k) = ChunkIds(f, u, k - 1)
        BY <1>2, <2>2 DEF ChunkIds, Chunking
      <3>2. t.chunks = s.chunks
        BY <1>1, <2>2 DEF VisitEffect
      <3> QED
        BY <1>6, <3>1, <3>2 DEF WalkInv
    <2> QED
      BY <2>1, <2>2
  <1>8. Held(t)
    BY <1>1 DEF VisitEffect
  <1>9. WalkInv(t, f, u, k)
    BY <1>3, <1>4, <1>5, <1>7, <1>8 DEF WalkInv
  <1> QED
    BY <1>9 DEF t

\* The invariant holds at the end of the walk.
LEMMA WalkCollects ==
    ASSUME NEW f, NEW u \in Unit
    PROVE  WalkInv(Walk(f, u), f, u, Len(u))
  <1>1. Len(u) \in Nat
    BY UnitIsASequence
  <1>2. PICK w : Steps(w, f, u, Len(u)) /\ Walk(f, u) = w[Len(u)]
    BY <1>1, WalkIsItsSteps
  <1> DEFINE Wrong == {k \in Nat : k <= Len(u) /\ ~WalkInv(w[k], f, u, k)}
  <1>3. Wrong = {}
    <2> SUFFICES ASSUME Wrong # {} PROVE FALSE
      OBVIOUS
    <2>1. PICK k \in Wrong : \A l \in Wrong : k <= l
      BY LeastElement
    <2>2. k \in Nat /\ k <= Len(u) /\ ~WalkInv(w[k], f, u, k)
      OBVIOUS
    <2>3. k # 0
      BY <1>2, <2>2, WalkBegins DEF Steps
    <2>4. k \in 1..Len(u) /\ k - 1 \in Nat /\ k - 1 <= Len(u) /\ ~(k <= k - 1)
      BY <1>1, <2>2, <2>3
    <2>5. WalkInv(w[k - 1], f, u, k - 1)
      BY <2>1, <2>4
    <2>6. w[k] = Visit(w[k - 1], f, u[k])
      BY <1>2, <2>4 DEF Steps
    <2> QED
      BY <2>2, <2>4, <2>5, <2>6, WalkGoesOn
  <1>4. Len(u) \in Nat /\ Len(u) <= Len(u)
    BY <1>1
  <1> QED
    BY <1>2, <1>3, <1>4
\* At the end of the unit the symbols are its entities.
OfEntities(symbols, f, u) ==
    /\ \A i \in 1..Len(symbols) :
          /\ symbols[i].entity \in EntitiesOf(u)
          /\ symbols[i].id = SymbolId(f, u, symbols[i].entity)
          /\ (IF symbols[i].definition = 0 THEN {} ELSE {symbols[i].definition})
                = Definition(u, symbols[i].entity)
    /\ \A e \in EntitiesOf(u) : \E i \in 1..Len(symbols) : symbols[i].entity = e
    /\ \A i, j \in 1..Len(symbols) : symbols[i].entity = symbols[j].entity => i = j

LEMMA SymbolsAreEntities ==
    ASSUME NEW f, NEW u \in Unit, NEW symbols, SymbolsInv(symbols, f, u, Len(u))
    PROVE  OfEntities(symbols, f, u)
  <1>1. \A p \in Collecting(u) : p <= Len(u)
    BY UnitIsASequence, PositionsAreNaturals
  <1>2. ASSUME NEW i \in 1..Len(symbols)
        PROVE  (IF symbols[i].definition = 0 THEN {} ELSE {symbols[i].definition})
                  = Definition(u, symbols[i].entity)
    <2> DEFINE e == symbols[i].entity
               defs == {p \in Collecting(u) : u[p].decl.entity = e /\ u[p].decl.def}
    <2>1. \A p \in defs : p \in Passed(u, Len(u), e) /\ u[p].decl.def
      BY <1>1 DEF Passed
    <2>2. \A p \in Passed(u, Len(u), e) : u[p].decl.def => p \in defs
      BY DEF Passed
    <2>3. \A p \in defs : symbols[i].definition = u[p].decl.line /\ u[p].decl.line # 0
      BY <2>1, UnitAssumption DEF SymbolsInv
    <2>4. symbols[i].definition # 0 => \E p \in defs : symbols[i].definition = u[p].decl.line
      BY <2>2 DEF SymbolsInv
    <2>5. Definition(u, e) = {u[p].decl.line : p \in defs}
      BY DEF Definition
    <2> HIDE DEF defs, e
    <2> QED
      BY <2>3, <2>4, <2>5 DEF e
  <1>3. \A i \in 1..Len(symbols) : symbols[i].entity \in EntitiesOf(u)
    <2>1. \A i \in 1..Len(symbols) : symbols[i] \in SymbolType(f, u)
      BY DEF SymbolsInv
    <2> QED
      BY <2>1 DEF SymbolType
  <1>4. ASSUME NEW e \in EntitiesOf(u) PROVE \E i \in 1..Len(symbols) : symbols[i].entity = e
    BY <1>1 DEF EntitiesOf, SymbolsInv
  <1>5. /\ \A i \in 1..Len(symbols) : symbols[i].id = SymbolId(f, u, symbols[i].entity)
        /\ \A i, j \in 1..Len(symbols) : symbols[i].entity = symbols[j].entity => i = j
    BY DEF SymbolsInv
  <1> QED
    BY <1>2, <1>3, <1>4, <1>5 DEF OfEntities

\* A relation is a triple.
LEMMA RelationsHaveThree ==
    ASSUME NEW u, NEW g \in Relations(u)
    PROVE  g = <<g[1], g[2], g[3]>> /\ g[3] \in {"calls", "inherits", "overrides"}
  <1>1. PICK j \in 1..Len(u) : g \in RelationsAt(u, j)
    BY DEF Relations
  <1> QED
    BY <1>1 DEF RelationsAt

\* resolve_edges keeps the relations between two symbols of the unit.
LEMMA EdgesAreTheGraph ==
    ASSUME NEW f, NEW u \in Unit, NEW s, WalkInv(s, f, u, Len(u)), IsSemantic(u)
    PROVE  ResolveEdges(s) = {<<SymbolId(f, u, e[1]), SymbolId(f, u, e[2]), e[3]>> : e \in Graph(u)}
  <1> DEFINE edge(g) == <<SymbolId(f, u, g[1]), SymbolId(f, u, g[2]), g[3]>>
             L == Len(s.symbols)
  <1>1. s.pending = Relations(u) /\ SymbolsInv(s.symbols, f, u, Len(u))
    BY DEF WalkInv, RelationsUpTo, Relations
  <1>2. DOMAIN s.symbols = 1..L
    BY <1>1 DEF SymbolsInv
  <1>3. /\ \A i \in 1..L : /\ s.symbols[i].entity \in EntitiesOf(u)
                           /\ s.symbols[i].id = SymbolId(f, u, s.symbols[i].entity)
        /\ \A e \in EntitiesOf(u) : \E i \in 1..L : s.symbols[i].entity = e
        /\ \A i, j \in 1..L : s.symbols[i].entity = s.symbols[j].entity => i = j
    <2>1. OfEntities(s.symbols, f, u)
      BY <1>1, SymbolsAreEntities
    <2> QED
      BY <2>1 DEF OfEntities
  <1>4. \A g : g \in Graph(u) <=> g \in Relations(u) /\ g[1] # g[2] /\ {g[1], g[2]} \subseteq EntitiesOf(u)
    BY DEF Graph
  <1> HIDE DEF L
  <1>5. ASSUME NEW x \in ResolveEdges(s) PROVE \E g \in Graph(u) : x = edge(g)
    <2>1. PICK i \in 1..L, j \in 1..L, r \in {"calls", "inherits", "overrides"} :
             /\ x = <<s.symbols[i].id, s.symbols[j].id, r>>
             /\ i # j /\ <<s.symbols[i].entity, s.symbols[j].entity, r>> \in s.pending
      BY <1>2, <1>5 DEF ResolveEdges
    <2> DEFINE g == <<s.symbols[i].entity, s.symbols[j].entity, r>>
    <2>2. g \in Graph(u)
      BY <1>1, <1>3, <1>4, <2>1
    <2>3. x = edge(g)
      BY <1>3, <2>1
    <2> QED
      BY <2>2, <2>3
  <1>6. ASSUME NEW g \in Graph(u) PROVE edge(g) \in ResolveEdges(s)
    <2>1. /\ g \in Relations(u) /\ g[1] # g[2] /\ {g[1], g[2]} \subseteq EntitiesOf(u)
          /\ g = <<g[1], g[2], g[3]>> /\ g[3] \in {"calls", "inherits", "overrides"}
      BY <1>4, RelationsHaveThree
    <2>2. PICK i \in 1..L : s.symbols[i].entity = g[1]
      BY <1>3, <2>1
    <2>3. PICK j \in 1..L : s.symbols[j].entity = g[2]
      BY <1>3, <2>1
    <2> DEFINE pairs == (DOMAIN s.symbols) \X (DOMAIN s.symbols) \X {"calls", "inherits", "overrides"}
               p == <<i, j, g[3]>>
    <2>4. /\ p \in pairs /\ p[1] # p[2]
          /\ <<s.symbols[p[1]].entity, s.symbols[p[2]].entity, p[3]>> \in s.pending
      BY <1>1, <1>2, <2>1, <2>2, <2>3
    <2>5. edge(g) = <<s.symbols[p[1]].id, s.symbols[p[2]].id, p[3]>>
      BY <1>3, <2>2, <2>3
    <2> QED
      BY <2>4, <2>5, Zenon DEF ResolveEdges
  <1> QED
    BY <1>5, <1>6, Zenon

\* A semantic chunk is there exactly if some definition of a function or a
\* record has a text.
LEMMA ChunksAreChunked ==
    ASSUME NEW f, NEW u \in Unit, NEW s, WalkInv(s, f, u, Len(u))
    PROVE  /\ s.chunks = << >> <=> Chunked(u) = {}
           /\ ToSet(s.chunks) = {SymbolId(f, u, e) : e \in Chunked(u)}
  <1>1. \A p \in Chunking(u) : p <= Len(u)
    BY UnitIsASequence, PositionsAreNaturals DEF Chunking
  <1>2. Chunked(u) = {u[i].decl.entity : i \in Chunking(u)}
    BY DEF Chunked, Chunking
  <1>3. ChunkIds(f, u, Len(u)) = {SymbolId(f, u, e) : e \in Chunked(u)}
    BY <1>1, <1>2 DEF ChunkIds
  <1>4. ToSet(s.chunks) = ChunkIds(f, u, Len(u))
    <2>1. DOMAIN s.chunks = 1..Len(s.chunks)
      BY DEF WalkInv
    <2> QED
      BY <2>1 DEF WalkInv, ToSet
  <1>5. s.chunks = << >> <=> ToSet(s.chunks) = {}
    <2>1. s.chunks \in Seq({SymbolId(f, u, e) : e \in EntitiesOf(u)})
      BY DEF WalkInv
    <2>2. ASSUME s.chunks # << >> PROVE ToSet(s.chunks) # {}
      <3>1. 1 \in DOMAIN s.chunks
        BY <2>1, <2>2
      <3> QED
        BY <3>1 DEF ToSet
    <2>3. ToSet(<< >>) = {}
      BY DEF ToSet
    <2> QED
      BY <2>2, <2>3
  <1> QED
    BY <1>3, <1>4, <1>5

\* A parse has what the text of the unit says.
LEMMA ParseMatches ==
    ASSUME NEW f, NEW u \in Sources
    PROVE  Matches(Parse(f, u), f, u)
  <1>1. CASE ~IsSemantic(u)
    <2>1. Parse(f, u) = Nothing
      <3>1. CASE u \in {NoUnit} \cup Broken
        BY <3>1 DEF Parse
      <3>2. CASE u \notin {NoUnit} \cup Broken
        <4>1. u \in Unit /\ Chunked(u) = {}
          BY <1>1, <3>2 DEF IsSemantic, Sources
        <4>2. Walk(f, u).chunks = << >>
          BY <4>1, WalkCollects, ChunksAreChunked
        <4> QED
          BY <4>2 DEF Parse
      <3> QED
        BY <3>1, <3>2
    <2>2. ToSet(<< >>) = {}
      BY DEF ToSet
    <2>3. Entities(u) = {} /\ Graph(u) = {}
      BY <1>1 DEF Entities, Graph
    <2> QED
      BY <1>1, <2>1, <2>2, <2>3 DEF Matches, Nothing
  <1>2. CASE IsSemantic(u)
    <2> DEFINE s == Walk(f, u)
    <2>1. u \in Unit /\ u \notin {NoUnit} \cup Broken /\ Chunked(u) # {}
      BY <1>2 DEF IsSemantic, Sources
    <2>2. WalkInv(s, f, u, Len(u))
      BY <2>1, WalkCollects
    <2>3. Parse(f, u) = [symbols |-> s.symbols, edges |-> ResolveEdges(s), chunks |-> s.chunks]
      BY <2>1, <2>2, ChunksAreChunked DEF Parse
    <2> HIDE DEF s
    <2>4. /\ ResolveEdges(s) = {<<SymbolId(f, u, e[1]), SymbolId(f, u, e[2]), e[3]>> : e \in Graph(u)}
          /\ ToSet(s.chunks) = {SymbolId(f, u, e) : e \in Chunked(u)}
      BY <1>2, <2>1, <2>2, EdgesAreTheGraph, ChunksAreChunked
    <2>5. SymbolsInv(s.symbols, f, u, Len(u)) /\ DOMAIN s.symbols = 1..Len(s.symbols)
      BY <2>2 DEF WalkInv, SymbolsInv
    <2> DEFINE L == Len(s.symbols)
               described(x) == <<x.id, IF x.definition = 0 THEN {} ELSE {x.definition}>>
               said(e) == <<SymbolId(f, u, e), Definition(u, e)>>
    <2>6. /\ \A i \in 1..L : /\ s.symbols[i].entity \in EntitiesOf(u)
                             /\ described(s.symbols[i]) = said(s.symbols[i].entity)
          /\ \A e \in EntitiesOf(u) : \E i \in 1..L : s.symbols[i].entity = e
      <3>1. OfEntities(s.symbols, f, u)
        BY <2>1, <2>5, SymbolsAreEntities
      <3> QED
        BY <3>1 DEF OfEntities
    <2>7. ToSet(s.symbols) = {s.symbols[i] : i \in 1..L}
      BY <2>5 DEF ToSet
    <2>8. Entities(u) = EntitiesOf(u)
      BY <1>2 DEF Entities
    <2>9. {described(x) : x \in ToSet(s.symbols)} = {said(e) : e \in Entities(u)}
      <3> HIDE DEF L, described, said
      <3> QED
        BY <2>6, <2>7, <2>8
    <2> QED
      BY <2>3, <2>4, <2>9 DEF Matches
  <1> QED
    BY <1>1, <1>2

\* For every repository and every set of units: what the walk collects of a
\* file is what its text says, symbols, definitions, edges and chunks.
THEOREM SymbolVisitorMatchesSource == Spec => []VisitorMatchesSource
  <1>1. TableInv => VisitorMatchesSource
    <2> SUFFICES ASSUME TableInv, pc = "replace", NEW f \in todo
                 PROVE  Matches(parsed[f], f, source[f])
      BY DEF VisitorMatchesSource
    <2>1. f \in File /\ source[f] \in Sources /\ parsed[f] = Parses[f][source[f]]
      BY DEF TableInv, ParsesInHand
    <2>2. parsed[f] = Parse(f, source[f])
      BY <2>1 DEF Parses, Sources
    <2> QED
      BY <2>1, <2>2, ParseMatches
  <1> QED
    BY <1>1, TableInvariant, PTL
-----------------------------------------------------------------------------
(***************************************************************************)
(* The database as long as no unit was troublesome and nothing was killed. *)
(***************************************************************************)
\* Every entity has a first declaration.
LEMMA FirstIsCollecting ==
    ASSUME NEW u \in Unit, NEW e \in EntitiesOf(u)
    PROVE  First(u, e) \in Collecting(u) /\ u[First(u, e)].decl.entity = e
  <1> DEFINE Of == {i \in Nat : i \in Collecting(u) /\ u[i].decl.entity = e}
  <1>1. Of # {}
    BY PositionsAreNaturals DEF EntitiesOf
  <1>2. PICK i \in Of : \A j \in Of : i <= j
    BY <1>1, LeastElement
  <1>3. /\ i \in Collecting(u)
        /\ u[i].decl.entity = e /\ \A j \in Collecting(u) : u[j].decl.entity = e => i <= j
    BY <1>2, PositionsAreNaturals
  <1>4. \E x \in Collecting(u) :
           u[x].decl.entity = e /\ \A j \in Collecting(u) : u[j].decl.entity = e => x <= j
    BY <1>3
  <1> QED
    BY <1>4 DEF First

\* What is collected is a declaration of the main file.
LEMMA CollectingDeclares ==
    ASSUME NEW u \in Unit, NEW i \in Collecting(u)
    PROVE  u[i].decl \in Declarations(u) /\ u[i].decl.main
  <1>1. u[i] \in ToSet(u) /\ u[i].at \in {"enter", "record", "enum"} /\ u[i].decl.main
    BY UnitIsASequence DEF ToSet, Collecting
  <1> QED
    BY <1>1 DEF Declarations

\* The entities of a unit without trouble have ids of their own, under the
\* path of the file.
LEMMA IdsWithoutTrouble ==
    ASSUME NEW f, NEW u \in Sources, ~Troublesome(u)
    PROVE  /\ \A x \in Entities(u) :
                 SymbolId(f, u, x)[2] = u[First(u, x)].decl.name /\ SymbolId(f, u, x)[3] = f
           /\ \A x, y \in Entities(u) : SymbolId(f, u, x) = SymbolId(f, u, y) => x = y
  <1> SUFFICES ASSUME Entities(u) # {}
               PROVE  /\ \A x \in Entities(u) :
                           SymbolId(f, u, x)[2] = u[First(u, x)].decl.name /\ SymbolId(f, u, x)[3] = f
                      /\ \A x, y \in Entities(u) : SymbolId(f, u, x) = SymbolId(f, u, y) => x = y
    OBVIOUS
  <1>1. u \in Unit /\ u # NoUnit /\ Entities(u) = EntitiesOf(u)
    BY DEF Entities, IsSemantic, Sources
  <1>2. \A c, d \in Declarations(u) :
            /\ d.main => d.spelled = Here
            /\ c.main /\ d.main /\ c.name = d.name /\ c.line = d.line => c.entity = d.entity
    BY <1>1 DEF Troublesome
  <1> DEFINE D(x) == u[First(u, x)].decl
  <1>3. \A x \in Entities(u) : D(x) \in Declarations(u) /\ D(x).main /\ D(x).entity = x
    BY <1>1, FirstIsCollecting, CollectingDeclares
  <1>4. \A x : SymbolId(f, u, x) = <<IF D(x).kind = "conversion" THEN "method" ELSE D(x).kind,
                                     D(x).name, IF D(x).spelled = Here THEN f ELSE D(x).spelled,
                                     D(x).line>>
    BY DEF SymbolId
  <1> HIDE DEF D
  <1>5. \A x \in Entities(u) : SymbolId(f, u, x)[2] = D(x).name /\ SymbolId(f, u, x)[3] = f
    BY <1>2, <1>3, <1>4
  <1>6. ASSUME NEW x \in Entities(u), NEW y \in Entities(u), SymbolId(f, u, x) = SymbolId(f, u, y)
        PROVE  x = y
    <2>1. D(x).name = D(y).name /\ D(x).line = D(y).line
      BY <1>4, <1>6
    <2> QED
      BY <1>2, <1>3, <2>1
  <1> QED
    BY <1>5, <1>6 DEF D

\* The ids of a parse are those of the entities.
LEMMA IdsAreOfEntities ==
    ASSUME NEW f \in File, NEW u \in Sources
    PROVE  Ids(f, u) = {SymbolId(f, u, x) : x \in Entities(u)}
  <1> DEFINE p == Parses[f][u]
             described(s) == <<s.id, IF s.definition = 0 THEN {} ELSE {s.definition}>>
             said(e) == <<SymbolId(f, u, e), Definition(u, e)>>
  <1>1. p = Parse(f, u)
    BY DEF Parses, Sources
  <1>2. {described(s) : s \in ToSet(p.symbols)} = {said(e) : e \in Entities(u)}
    BY <1>1, ParseMatches DEF Matches
  <1>3. \A s : described(s)[1] = s.id
    OBVIOUS
  <1>4. \A e : said(e)[1] = SymbolId(f, u, e)
    OBVIOUS
  <1> HIDE DEF described, said, p
  <1>5. {s.id : s \in ToSet(p.symbols)} = {SymbolId(f, u, x) : x \in Entities(u)}
    <2>1. ASSUME NEW s \in ToSet(p.symbols) PROVE \E x \in Entities(u) : s.id = SymbolId(f, u, x)
      <3>1. described(s) \in {said(e) : e \in Entities(u)}
        BY <1>2
      <3>2. PICK x \in Entities(u) : described(s) = said(x)
        BY <3>1
      <3> QED
        BY <1>3, <1>4, <3>2
    <2>2. ASSUME NEW x \in Entities(u) PROVE \E s \in ToSet(p.symbols) : s.id = SymbolId(f, u, x)
      <3>1. said(x) \in {described(s) : s \in ToSet(p.symbols)}
        BY <1>2
      <3>2. PICK s \in ToSet(p.symbols) : described(s) = said(x)
        BY <3>1
      <3> QED
        BY <1>3, <1>4, <3>2
    <2> QED
      BY <2>1, <2>2
  <1> QED
    BY <1>5 DEF Ids, p

\* The ids of a unit without trouble name its file.
LEMMA CleanIdsNameTheirFile ==
    ASSUME NEW f \in File, NEW u \in Sources, ~Troublesome(u), NEW id \in Ids(f, u)
    PROVE  id[3] = f
  BY IdsAreOfEntities, IdsWithoutTrouble

\* The tables hold the units written last, and nothing else.
WholeRows == \A r : r \in rows <=> RowOfAUnit(r)
WholeEdges == \A e : e \in edges <=> EdgeOfAUnit(e)
NoTrouble == \A f \in File : ~Troublesome(source[f]) /\ ~Troublesome(applied[f])

CleanInv ==
    /\ clean \in BOOLEAN
    /\ clean => WholeRows /\ WholeEdges /\ NoTrouble

\* The tables begin empty.
LEMMA InitIsClean == Init => CleanInv
  <1> SUFFICES ASSUME Init PROVE CleanInv
    OBVIOUS
  <1>1. NoTrouble
    BY DEF Init, NoTrouble, Troublesome
  <1>2. \A f \in File : Parses[f][applied[f]] = Nothing
    BY NoUnitHasNothing DEF Init
  <1>3. ToSet(<< >>) = {}
    BY DEF ToSet
  <1>4. \A r : ~RowOfAUnit(r)
    BY <1>2, <1>3 DEF RowOfAUnit, RowsOf, Nothing
  <1>5. \A e : ~EdgeOfAUnit(e)
    BY <1>2 DEF EdgeOfAUnit, Nothing
  <1> QED
    BY <1>1, <1>4, <1>5 DEF Init, CleanInv, WholeRows, WholeEdges

\* replace_file exchanges the rows and edges of its file and no others.
LEMMA ReplaceKeepsWhole ==
    ASSUME TableInv, CleanInv, NEW f \in File, ReplaceFile(f), clean
    PROVE  WholeRows' /\ WholeEdges' /\ NoTrouble'
  <1>1. /\ parsed[f] = Parses[f][source[f]] /\ source[f] \in Sources
        /\ source \in [File -> Sources] /\ applied \in [File -> Sources]
    BY DEF TableInv, ParsesInHand, ReplaceFile, InTurn
  <1>2. /\ applied'[f] = source[f] /\ source' = source
        /\ \A g \in File \ {f} : applied'[g] = applied[g]
    BY <1>1 DEF ReplaceFile
  <1>3. /\ rows' = Kept(f) \cup RowsOf(f, source[f])
        /\ edges' = Cascaded(Kept(f)) \cup Parses[f][source[f]].edges
    BY <1>1 DEF ReplaceFile, RowsOf
  <1>4. \A g \in File : \A id \in Ids(g, applied[g]) : id[3] = g
    BY <1>1, CleanIdsNameTheirFile DEF CleanInv, NoTrouble
  <1>5. \A g \in File : \A r \in RowsOf(g, applied[g]) : r.id[3] = g
    BY <1>4, RowsHaveTheIds
  <1>6. \A g \in File : \A e \in Parses[g][applied[g]].edges : {e[1], e[2]} \subseteq Ids(g, applied[g])
    BY <1>1, EdgesJoinSymbols
  <1>7. NoTrouble'
    BY <1>2 DEF CleanInv, NoTrouble
  <1>8. \A r : r \in Kept(f) <=> \E g \in File \ {f} : r \in RowsOf(g, applied[g])
    BY <1>5 DEF CleanInv, WholeRows, RowOfAUnit, Kept
  <1>9. WholeRows'
    BY <1>2, <1>3, <1>8 DEF WholeRows, RowOfAUnit
  <1>10. \A e : e \in Cascaded(Kept(f)) <=> \E g \in File \ {f} : e \in Parses[g][applied[g]].edges
    <2> SUFFICES ASSUME NEW e
                 PROVE  e \in Cascaded(Kept(f)) <=> \E g \in File \ {f} : e \in Parses[g][applied[g]].edges
      OBVIOUS
    <2>1. ASSUME e \in Cascaded(Kept(f)) PROVE \E g \in File \ {f} : e \in Parses[g][applied[g]].edges
      <3>1. e \in edges /\ e[1][3] # f
        BY <2>1 DEF Cascaded, Kept
      <3>2. PICK g \in File : e \in Parses[g][applied[g]].edges
        BY <3>1 DEF CleanInv, WholeEdges, EdgeOfAUnit
      <3>3. e[1][3] = g
        BY <1>4, <1>6, <3>2
      <3> QED
        BY <3>1, <3>2, <3>3
    <2>2. ASSUME NEW g \in File \ {f}, e \in Parses[g][applied[g]].edges PROVE e \in Cascaded(Kept(f))
      <3>1. {e[1], e[2]} \subseteq {r.id : r \in RowsOf(g, applied[g])}
        BY <1>6, <2>2, RowsHaveTheIds
      <3>2. {e[1], e[2]} \subseteq {r.id : r \in Kept(f)}
        BY <1>8, <3>1
      <3>3. e \in edges
        BY <2>2 DEF CleanInv, WholeEdges, EdgeOfAUnit
      <3> QED
        BY <3>2, <3>3 DEF Cascaded
    <2> QED
      BY <2>1, <2>2
  <1>11. WholeEdges'
    BY <1>2, <1>3, <1>10 DEF WholeEdges, EdgeOfAUnit
  <1> QED
    BY <1>7, <1>9, <1>11

\* Every step keeps CleanInv.
LEMMA StepsStayClean ==
    ASSUME TableInv, CleanInv, [Next]_vars
    PROVE  CleanInv'
  <1>1. ASSUME UNCHANGED <<rows, edges, applied>> PROVE (WholeRows /\ WholeEdges) => (WholeRows /\ WholeEdges)'
    BY <1>1 DEF WholeRows, WholeEdges, RowOfAUnit, EdgeOfAUnit
  <1>2. ASSUME NEW f \in File, NEW u \in Unit \cup {NoUnit}, Edit(f, u) PROVE CleanInv'
    <2>1. /\ UNCHANGED <<rows, edges, applied>> /\ clean' = (clean /\ ~Troublesome(u))
          /\ source' = [source EXCEPT ![f] = u]
      BY <1>2 DEF Edit
    <2>2. clean' \in BOOLEAN
      BY <2>1
    <2>3. ASSUME clean' PROVE (WholeRows /\ WholeEdges /\ NoTrouble)'
      <3>1. clean /\ ~Troublesome(u)
        BY <2>1, <2>3
      <3>2. NoTrouble'
        BY <2>1, <3>1 DEF CleanInv, NoTrouble, TableInv, ParsesInHand
      <3> QED
        BY <1>1, <2>1, <3>1, <3>2 DEF CleanInv
    <2> QED
      BY <2>2, <2>3 DEF CleanInv
  <1>3. CASE \/ StartUpdate \/ Commit \/ CommitFails \/ EndUpdate \/ UNCHANGED vars
             \/ \E f \in File : CollectFile(f) \/ ReplaceFails(f)
    <2>1. UNCHANGED <<rows, edges, applied, source, clean>>
      BY <1>3 DEF StartUpdate, Commit, CommitFails, EndUpdate, vars, CollectFile, ReplaceFails
    <2> QED
      BY <1>1, <2>1 DEF CleanInv, NoTrouble
  <1>4. CASE Kill
    BY <1>4 DEF Kill, CleanInv
  <1>5. ASSUME NEW f \in File, ReplaceFile(f) PROVE CleanInv'
    <2>1. clean' = clean
      BY <1>5 DEF ReplaceFile
    <2> QED
      BY <1>5, <2>1, ReplaceKeepsWhole DEF CleanInv
  <1> QED
    BY <1>2, <1>3, <1>4, <1>5 DEF Next, UpdateStep, Rest
-----------------------------------------------------------------------------
(***************************************************************************)
(* The answers of the symbol graph.                                        *)
(***************************************************************************)
\* A unit has finitely many relations.
LEMMA GraphIsFinite ==
    ASSUME NEW u \in Sources
    PROVE  IsFiniteSet(Graph(u))
  <1>1. CASE ~IsSemantic(u)
    BY <1>1, FS_EmptySet DEF Graph
  <1>2. CASE IsSemantic(u)
    <2>1. u \in Unit
      BY <1>2 DEF IsSemantic, Sources
    <2> DEFINE P == Collecting(u)
               E == EntitiesOf(u)
               h == [i \in P |-> u[i].decl.entity]
               R == {"calls", "inherits", "overrides"}
    <2>2. IsFiniteSet(P)
      <3>1. Len(u) \in Int /\ 1 \in Int /\ P \in SUBSET (1..Len(u))
        BY <2>1, UnitIsASequence DEF Collecting
      <3>2. IsFiniteSet(1..Len(u))
        BY <3>1, FS_Interval
      <3> HIDE DEF P
      <3> QED
        BY <3>1, <3>2, FS_Subset
    <2>3. h \in Surjection(P, E)
      BY DEF EntitiesOf, Surjection
    <2> HIDE DEF P, E, h
    <2>4. IsFiniteSet(E)
      BY <2>2, <2>3, FS_Surjection
    <2>5. IsFiniteSet(R)
      <3>1. IsFiniteSet({"calls"}) /\ IsFiniteSet({"inherits"}) /\ IsFiniteSet({"overrides"})
        BY FS_Singleton
      <3>2. IsFiniteSet({"calls"} \cup {"inherits"})
        BY <3>1, FS_Union
      <3>3. IsFiniteSet(({"calls"} \cup {"inherits"}) \cup {"overrides"})
        BY <3>1, <3>2, FS_Union
      <3>4. ({"calls"} \cup {"inherits"}) \cup {"overrides"} = R
        OBVIOUS
      <3> QED
        BY <3>3, <3>4
    <2> HIDE DEF R
    <2> DEFINE ER == E \X R
               T == E \X ER
               k == [g \in Graph(u) |-> <<g[1], <<g[2], g[3]>>>>]
    <2>6. IsFiniteSet(T)
      <3>1. IsFiniteSet(ER)
        BY <2>4, <2>5, FS_Product
      <3> HIDE DEF ER
      <3> QED
        BY <2>4, <3>1, FS_Product
    <2>7. \A g \in Graph(u) : /\ g = <<g[1], g[2], g[3]>> /\ g[3] \in R
                              /\ g[1] \in E /\ g[2] \in E
      BY <1>2, RelationsHaveThree DEF Graph, R, E
    <2>8. k \in Injection(Graph(u), T)
      <3>1. \A g \in Graph(u) : k[g] \in T
        BY <2>7
      <3>2. \A g, x \in Graph(u) : k[g] = k[x] => g = x
        BY <2>7
      <3>3. k \in [Graph(u) -> T] /\ DOMAIN k = Graph(u)
        BY <3>1
      <3> HIDE DEF k, T
      <3> QED
        BY <3>2, <3>3 DEF Injection, IsInjective
    <2> HIDE DEF k, T
    <2> QED
      BY <2>6, <2>8, FS_Injection
  <1> QED
    BY <1>1, <1>2

\* The rows and edges, in terms of the sources.
LEMMA TablesOfSources ==
    ASSUME TableInv, CleanInv, clean
    PROVE  /\ \A id : id \in RowIds <=>
                 \E g \in File : \E x \in Entities(applied[g]) : id = SymbolId(g, applied[g], x)
           /\ \A e : e \in edges <=>
                 \E g \in File : \E r \in Graph(applied[g]) :
                     e = <<SymbolId(g, applied[g], r[1]), SymbolId(g, applied[g], r[2]), r[3]>>
  <1>1. \A g \in File : applied[g] \in Sources
    BY DEF TableInv, ParsesInHand
  <1>2. \A id : id \in RowIds <=> \E g \in File : id \in Ids(g, applied[g])
    <2>1. \A r : r \in rows <=> \E g \in File : r \in RowsOf(g, applied[g])
      BY DEF CleanInv, WholeRows, RowOfAUnit
    <2>2. \A g \in File : Ids(g, applied[g]) = {r.id : r \in RowsOf(g, applied[g])}
      BY RowsHaveTheIds
    <2> QED
      BY <2>1, <2>2 DEF RowIds
  <1>3. \A g \in File : Ids(g, applied[g]) = {SymbolId(g, applied[g], x) : x \in Entities(applied[g])}
    BY <1>1, IdsAreOfEntities
  <1>4. \A g \in File : Parses[g][applied[g]].edges =
           {<<SymbolId(g, applied[g], r[1]), SymbolId(g, applied[g], r[2]), r[3]>> : r \in Graph(applied[g])}
    <2> SUFFICES ASSUME NEW g \in File
                 PROVE  Parses[g][applied[g]].edges =
           {<<SymbolId(g, applied[g], r[1]), SymbolId(g, applied[g], r[2]), r[3]>> : r \in Graph(applied[g])}
      OBVIOUS
    <2>1. Parses[g][applied[g]] = Parse(g, applied[g])
      BY <1>1 DEF Parses, Sources
    <2>2. Matches(Parse(g, applied[g]), g, applied[g])
      BY <1>1, ParseMatches
    <2> QED
      BY <2>1, <2>2 DEF Matches
  <1>5. \A e : e \in edges <=> \E g \in File : e \in Parses[g][applied[g]].edges
    BY DEF CleanInv, WholeEdges, EdgeOfAUnit
  <1>6. \A id : id \in RowIds <=>
                 \E g \in File : \E x \in Entities(applied[g]) : id = SymbolId(g, applied[g], x)
    <2>1. \A g \in File : \A id : id \in Ids(g, applied[g]) <=>
              \E x \in Entities(applied[g]) : id = SymbolId(g, applied[g], x)
      BY <1>3, Zenon
    <2>2. ASSUME NEW id \in RowIds
          PROVE  \E g \in File : \E x \in Entities(applied[g]) : id = SymbolId(g, applied[g], x)
      <3>1. PICK g \in File : id \in Ids(g, applied[g])
        BY <1>2
      <3> QED
        BY <2>1, <3>1
    <2>3. ASSUME NEW g \in File, NEW x \in Entities(applied[g])
          PROVE  SymbolId(g, applied[g], x) \in RowIds
      BY <1>2, <2>1
    <2> QED
      BY <2>2, <2>3
  <1>7. \A e : e \in edges <=>
                 \E g \in File : \E r \in Graph(applied[g]) :
                     e = <<SymbolId(g, applied[g], r[1]), SymbolId(g, applied[g], r[2]), r[3]>>
    BY <1>4, <1>5
  <1> QED
    BY <1>6, <1>7

\* find_exact over all names of a question.
LEMMA NamedIsByRows ==
    ASSUME NEW q
    PROVE  \A id : id \in Named(q) <=> id \in RowIds /\ id[2] \in q.names
  <1>1. \A n, id : id \in FindExact(n) <=> id \in RowIds /\ id[2] = n
    BY DEF FindExact, RowIds
  <1>2. \A id : id \in Named(q) <=> \E n \in q.names : id \in FindExact(n)
    BY Zenon DEF Named
  <1> QED
    BY <1>1, <1>2

\* The edges that lead from the named symbols to a symbol.
Leading(q, id) == {e \in UNION {Followed(q, n) : n \in Named(q)} : FarEnd(q, e) = id}

\* Which edges lead to a symbol, in both directions of a question.
LEMMA LeadingEdges ==
    ASSUME NEW q, NEW id
    PROVE  \A e : e \in Leading(q, id) <=>
              /\ e \in edges
              /\ IF q.callers THEN e[1] = id /\ e[3] = "calls" /\ e[2] \in Named(q)
                 ELSE e[2] = id /\ e[1] \in Named(q)
  <1>1. \A e : e \in Leading(q, id) <=> (\E n \in Named(q) : e \in Followed(q, n)) /\ FarEnd(q, e) = id
    BY Zenon DEF Leading
  <1>2. CASE q.callers
    BY <1>1, <1>2 DEF Followed, FarEnd, Incoming
  <1>3. CASE ~q.callers
    BY <1>1, <1>3 DEF Followed, FarEnd, Outgoing
  <1> QED
    BY <1>2, <1>3

\* What a question counts in the text.
AskedFor(q, u, x) == u[First(u, x)].decl.name \in q.names
Counted(q, u, e) ==
    {g \in Graph(u) : IF q.callers THEN g[1] = e /\ g[3] = "calls" /\ AskedFor(q, u, g[2])
                      ELSE g[2] = e /\ AskedFor(q, u, g[1])}

\* The edges that lead to a symbol are as many as the relations of the text.
LEMMA AnswersAreCounted ==
    ASSUME TableInv, CleanInv, clean, NEW q, NEW f \in File, NEW e \in Entities(applied[f])
    PROVE  LET u == applied[f]
           IN  /\ SymbolId(f, u, e) \in Named(q) <=> AskedFor(q, u, e)
               /\ Cardinality(Leading(q, SymbolId(f, u, e))) = Cardinality(Counted(q, u, e))
  <1> DEFINE u == applied[f]
             ID(x) == SymbolId(f, u, x)
             h == [g \in Counted(q, u, e) |-> <<ID(g[1]), ID(g[2]), g[3]>>]
             S == Counted(q, u, e)
             T == Leading(q, ID(e))
  <1>1. \A g \in File : applied[g] \in Sources /\ ~Troublesome(applied[g])
    BY DEF TableInv, ParsesInHand, CleanInv, NoTrouble
  <1>2. /\ \A x \in Entities(u) : ID(x)[2] = u[First(u, x)].decl.name /\ ID(x)[3] = f
        /\ \A x, y \in Entities(u) : ID(x) = ID(y) => x = y
    BY <1>1, IdsWithoutTrouble
  <1>3. \A g \in File : \A x \in Entities(applied[g]) : SymbolId(g, applied[g], x)[3] = g
    BY <1>1, IdsWithoutTrouble
  <1>4. \A g : \A r \in Graph(applied[g]) :
            r = <<r[1], r[2], r[3]>> /\ r[1] \in Entities(applied[g]) /\ r[2] \in Entities(applied[g])
    BY RelationsHaveThree DEF Graph, Entities
  <1>5. \A x \in Entities(u) : ID(x) \in Named(q) <=> AskedFor(q, u, x)
    <2>1. \A x \in Entities(u) : ID(x) \in RowIds
      BY TablesOfSources
    <2> QED
      BY <1>2, <2>1, NamedIsByRows DEF AskedFor
  <1>6. \A x : x \in T <=>
              /\ x \in edges
              /\ IF q.callers THEN x[1] = ID(e) /\ x[3] = "calls" /\ x[2] \in Named(q)
                 ELSE x[2] = ID(e) /\ x[1] \in Named(q)
    BY LeadingEdges
  <1>7. \A g \in Graph(u) : <<ID(g[1]), ID(g[2]), g[3]>> \in edges
    BY TablesOfSources
  <1>8. \A x \in edges : \E g \in File : \E r \in Graph(applied[g]) :
            x = <<SymbolId(g, applied[g], r[1]), SymbolId(g, applied[g], r[2]), r[3]>>
    BY TablesOfSources
  <1>9. \A g : g \in S <=>
              /\ g \in Graph(u)
              /\ IF q.callers THEN g[1] = e /\ g[3] = "calls" /\ AskedFor(q, u, g[2])
                 ELSE g[2] = e /\ AskedFor(q, u, g[1])
    BY DEF Counted
  <1>10. DOMAIN h = S /\ \A g \in S : h[g] = <<ID(g[1]), ID(g[2]), g[3]>>
    OBVIOUS
  <1>11. \A g \in Graph(u) : g = <<g[1], g[2], g[3]>> /\ g[1] \in Entities(u) /\ g[2] \in Entities(u)
    BY <1>4
  <1>12. h = [g \in S |-> h[g]]
    BY Zenon
  <1>13. e \in Entities(u)
    OBVIOUS
  <1>14. IsFiniteSet(S)
    <2>1. IsFiniteSet(Graph(u)) /\ S \in SUBSET Graph(u)
      BY <1>1, GraphIsFinite DEF Counted
    <2> HIDE DEF S, u
    <2> QED
      BY <2>1, FS_Subset
  <1> HIDE DEF h, S, T, ID
  <1>15. \A g \in S : h[g] \in T
    <2> SUFFICES ASSUME NEW g \in S PROVE h[g] \in T
      OBVIOUS
    <2>1. g \in Graph(u) /\ g[1] \in Entities(u) /\ g[2] \in Entities(u)
      BY <1>9, <1>11
    <2>2. h[g] \in edges /\ h[g][1] = ID(g[1]) /\ h[g][2] = ID(g[2]) /\ h[g][3] = g[3]
      BY <1>7, <1>10, <2>1
    <2>3. CASE q.callers
      BY <1>5, <1>6, <1>9, <2>1, <2>2, <2>3
    <2>4. CASE ~q.callers
      BY <1>5, <1>6, <1>9, <2>1, <2>2, <2>4
    <2> QED
      BY <2>3, <2>4
  <1>16. \A g, x \in S : h[g] = h[x] => g = x
    <2> SUFFICES ASSUME NEW g \in S, NEW x \in S, h[g] = h[x] PROVE g = x
      OBVIOUS
    <2>1. /\ g = <<g[1], g[2], g[3]>> /\ g[1] \in Entities(u) /\ g[2] \in Entities(u)
          /\ x = <<x[1], x[2], x[3]>> /\ x[1] \in Entities(u) /\ x[2] \in Entities(u)
      BY <1>9, <1>11
    <2>2. ID(g[1]) = ID(x[1]) /\ ID(g[2]) = ID(x[2]) /\ g[3] = x[3]
      BY <1>10
    <2>3. g[1] = x[1] /\ g[2] = x[2]
      BY <1>2, <2>1, <2>2
    <2> QED
      BY <2>1, <2>2, <2>3
  <1>17. \A x \in T : \E g \in S : h[g] = x
    <2> SUFFICES ASSUME NEW x \in T PROVE \E g \in S : h[g] = x
      OBVIOUS
    <2>1. PICK k \in File : \E r \in Graph(applied[k]) :
             x = <<SymbolId(k, applied[k], r[1]), SymbolId(k, applied[k], r[2]), r[3]>>
      BY <1>6, <1>8
    <2>2. PICK r \in Graph(applied[k]) :
             x = <<SymbolId(k, applied[k], r[1]), SymbolId(k, applied[k], r[2]), r[3]>>
      BY <2>1
    <2>3. x[1][3] = k /\ x[2][3] = k
      BY <1>3, <1>4, <2>2
    <2>4. ID(e)[3] = f
      BY <1>2, <1>13
    <2>5. k = f
      BY <1>6, <2>3, <2>4
    <2>6. x[1] = ID(r[1]) /\ x[2] = ID(r[2]) /\ x[3] = r[3] /\ x = <<ID(r[1]), ID(r[2]), r[3]>>
      BY <2>2, <2>5 DEF ID
    <2>7. r \in Graph(u) /\ r[1] \in Entities(u) /\ r[2] \in Entities(u)
      BY <1>11, <2>2, <2>5
    <2>8. CASE q.callers
      <3>1. ID(r[1]) = ID(e) /\ r[3] = "calls" /\ ID(r[2]) \in Named(q)
        BY <1>6, <2>6, <2>8
      <3>2. r[1] = e /\ AskedFor(q, u, r[2])
        BY <1>2, <1>5, <1>13, <2>7, <3>1
      <3>3. r \in S
        BY <1>9, <2>7, <2>8, <3>1, <3>2
      <3> QED
        BY <1>10, <2>6, <3>3
    <2>9. CASE ~q.callers
      <3>1. ID(r[2]) = ID(e) /\ ID(r[1]) \in Named(q)
        BY <1>6, <2>6, <2>9
      <3>2. r[2] = e /\ AskedFor(q, u, r[1])
        BY <1>2, <1>5, <1>13, <2>7, <3>1
      <3>3. r \in S
        BY <1>9, <2>7, <2>9, <3>2
      <3> QED
        BY <1>10, <2>6, <3>3
    <2> QED
      BY <2>8, <2>9
  <1>18. ExistsBijection(S, T)
    <2>1. h \in [S -> T]
      BY <1>12, <1>15
    <2>2. h \in Bijection(S, T)
      BY <1>10, <1>16, <1>17, <2>1 DEF Bijection, Injection, Surjection, IsInjective
    <2> QED
      BY <2>2 DEF ExistsBijection
  <1>19. Cardinality(T) = Cardinality(S)
    BY <1>14, <1>18, FS_Bijection
  <1> QED
    BY <1>5, <1>13, <1>19 DEF S, T, ID

\* For every repository without troublesome units: once the symbols are
\* written, every answer of the symbol graph is what the sources say.
THEOREM SymbolGraphAnswers == Spec => []GraphAnswers
  <1>1. TableInv /\ CleanInv => GraphAnswers
    <2> SUFFICES ASSUME TableInv, CleanInv, pc = "idle", clean, applied = indexed,
                        NEW q \in Query, NEW f \in File, NEW e \in Entities(indexed[f])
                 PROVE  LET u == indexed[f]
                            Asked(x) == u[First(u, x)].decl.name \in q.names
                        IN  Score(q, SymbolId(f, u, e)) =
                              (IF Asked(e) THEN 2 ELSE 0)
                                + Cardinality({g \in Graph(u) :
                                    IF q.callers THEN g[1] = e /\ g[3] = "calls" /\ Asked(g[2])
                                    ELSE g[2] = e /\ Asked(g[1])})
      BY Zenon DEF GraphAnswers
    <2> DEFINE u == indexed[f]
               id == SymbolId(f, u, e)
    <2>1. /\ id \in Named(q) <=> AskedFor(q, u, e)
          /\ Cardinality(Leading(q, id)) = Cardinality(Counted(q, u, e))
      BY AnswersAreCounted
    <2>2. Score(q, id) = (IF id \in Named(q) THEN 2 ELSE 0) + Cardinality(Leading(q, id))
      BY Zenon DEF Score, Leading
    <2>3. Score(q, id) = (IF AskedFor(q, u, e) THEN 2 ELSE 0) + Cardinality(Counted(q, u, e))
      BY <2>1, <2>2, Zenon
    <2> QED
      BY <2>3, Zenon DEF AskedFor, Counted
  <1>2. TableInv /\ CleanInv /\ [Next]_vars => CleanInv'
    BY StepsStayClean
  <1> QED
    BY <1>1, <1>2, InitIsClean, TableInvariant, PTL DEF Spec
-----------------------------------------------------------------------------
(***************************************************************************)
(* No key of either database stops an update without trouble.              *)
(***************************************************************************)
\* The entities of a unit without trouble differ in what the unique index
\* compares.
LEMMA IdentitiesWithoutTrouble ==
    ASSUME NEW f, NEW u \in Unit, ~Troublesome(u)
    PROVE  \A x, y \in EntitiesOf(u) :
              /\ SymbolId(f, u, x)[2] = SymbolId(f, u, y)[2]
              /\ SymbolId(f, u, x)[4] = SymbolId(f, u, y)[4]
              => x = y
  <1> DEFINE D(x) == u[First(u, x)].decl
  <1>1. \A c, d \in Declarations(u) :
            c.main /\ d.main /\ c.name = d.name /\ c.line = d.line => c.entity = d.entity
    <2>1. u # NoUnit
      BY SymbolAssumption
    <2> QED
      BY <2>1 DEF Troublesome
  <1>2. \A x \in EntitiesOf(u) : D(x) \in Declarations(u) /\ D(x).main /\ D(x).entity = x
    BY FirstIsCollecting, CollectingDeclares
  <1>3. \A x : SymbolId(f, u, x) = <<IF D(x).kind = "conversion" THEN "method" ELSE D(x).kind,
                                     D(x).name, IF D(x).spelled = Here THEN f ELSE D(x).spelled,
                                     D(x).line>>
    BY DEF SymbolId
  <1> HIDE DEF D
  <1>4. \A x : SymbolId(f, u, x)[2] = D(x).name /\ SymbolId(f, u, x)[4] = D(x).line
    BY <1>3
  <1> QED
    BY <1>1, <1>2, <1>4

\* The symbols of a parse are not in each other's way, neither are its chunks,
\* and all are under the path of the file.
Orderly(p, f) ==
    /\ \A i, j \in 1..Len(p.symbols) : Identity(p.symbols[i]) = Identity(p.symbols[j]) => i = j
    /\ \A i \in 1..Len(p.symbols) : Identity(p.symbols[i])[2] = f /\ p.symbols[i].id[3] = f
    /\ ToSet(p.symbols) = {p.symbols[i] : i \in 1..Len(p.symbols)}
    /\ IsInjective(p.chunks)
    /\ \A id \in ToSet(p.chunks) : id[3] = f

LEMMA ParseWithoutTrouble ==
    ASSUME NEW f \in File, NEW u \in Sources, ~Troublesome(u)
    PROVE  Orderly(Parses[f][u], f)
  <1> DEFINE p == Parses[f][u]
  <1>1. p = Parse(f, u)
    BY DEF Parses, Sources
  <1>2. CASE Parse(f, u) = Nothing
    BY <1>1, <1>2 DEF Nothing, ToSet, IsInjective, Orderly
  <1>3. CASE Parse(f, u) # Nothing
    <2> DEFINE s == Walk(f, u)
               L == Len(s.symbols)
    <2>1. /\ u \notin {NoUnit} \cup Broken
          /\ Parse(f, u) = [symbols |-> s.symbols, edges |-> ResolveEdges(s), chunks |-> s.chunks]
          /\ s.chunks # << >>
      BY <1>3 DEF Parse
    <2>2. u \in Unit
      BY <2>1 DEF Sources
    <2>3. WalkInv(s, f, u, Len(u))
      BY <2>2, WalkCollects
    <2> HIDE DEF s
    <2>4. p.symbols = s.symbols /\ p.chunks = s.chunks
      BY <1>1, <2>1
    <2> HIDE DEF p
    <2>5. OfEntities(s.symbols, f, u) /\ DOMAIN s.symbols = 1..L
      <3>1. SymbolsInv(s.symbols, f, u, Len(u))
        BY <2>3 DEF WalkInv
      <3>2. DOMAIN s.symbols = 1..L
        BY <3>1 DEF SymbolsInv
      <3> QED
        BY <2>2, <3>1, <3>2, SymbolsAreEntities
    <2>6. IsSemantic(u)
      BY <2>1, <2>2, <2>3, ChunksAreChunked DEF IsSemantic
    <2>7. Entities(u) = EntitiesOf(u)
      BY <2>6 DEF Entities
    <2>8. /\ \A x \in EntitiesOf(u) : SymbolId(f, u, x)[3] = f
          /\ DistinctIds(f, u)
      BY <2>7, IdsWithoutTrouble DEF DistinctIds
    <2>9. \A i \in 1..L : /\ s.symbols[i].entity \in EntitiesOf(u)
                          /\ s.symbols[i].id = SymbolId(f, u, s.symbols[i].entity)
      BY <2>5 DEF OfEntities
    <2>10. \A i \in 1..L : Identity(s.symbols[i])[2] = f /\ s.symbols[i].id[3] = f
      BY <2>8, <2>9 DEF Identity
    <2>11. ASSUME NEW i \in 1..L, NEW j \in 1..L, Identity(s.symbols[i]) = Identity(s.symbols[j])
           PROVE  i = j
      <3>1. s.symbols[i].id[2] = s.symbols[j].id[2] /\ s.symbols[i].id[4] = s.symbols[j].id[4]
        BY <2>11 DEF Identity
      <3>2. s.symbols[i].entity = s.symbols[j].entity
        BY <2>2, <2>9, <3>1, IdentitiesWithoutTrouble
      <3> QED
        BY <2>5, <3>2 DEF OfEntities
    <2>12. ToSet(s.symbols) = {s.symbols[i] : i \in 1..L}
      BY <2>5 DEF ToSet
    <2>13. DOMAIN s.chunks = 1..Len(s.chunks)
      BY <2>3 DEF WalkInv
    <2>14. IsInjective(s.chunks)
      BY <2>3, <2>8, <2>13 DEF WalkInv, IsInjective
    <2>15. \A id \in ToSet(s.chunks) : id[3] = f
      <3>1. ToSet(s.chunks) = {SymbolId(f, u, e) : e \in Chunked(u)}
        BY <2>2, <2>3, ChunksAreChunked
      <3>2. Chunked(u) \subseteq EntitiesOf(u)
        BY DEF Chunked, EntitiesOf
      <3> QED
        BY <2>8, <3>1, <3>2
    <2> QED
      BY <2>4, <2>10, <2>11, <2>12, <2>14, <2>15 DEF p, Orderly
  <1> QED
    BY <1>2, <1>3

\* What a clean update has achieved at each of its stages.
ProgressInv ==
    /\ pc \in {"idle", "collect", "replace"}
    /\ indexed \in [File -> Sources]
    /\ clean => \A f \in File : ~Troublesome(indexed[f])
    /\ clean /\ pc # "replace" => applied = indexed
    /\ clean /\ pc = "replace" => indexed = source /\ \A f \in File \ todo : applied[f] = indexed[f]

\* The INSERTs of the index transaction meet no other chunk.
LEMMA NoChunksCollide ==
    ASSUME TableInv, CleanInv, ProgressInv, clean, pc = "collect", todo = {}
    PROVE  ~ChunksCollide
  <1>1. \A f \in File : /\ source[f] \in Sources /\ ~Troublesome(source[f])
                        /\ indexed[f] \in Sources /\ ~Troublesome(indexed[f])
                        /\ source[f] # indexed[f] => parsed[f] = Parses[f][source[f]]
    BY DEF TableInv, ParsesInHand, CleanInv, NoTrouble, ProgressInv
  <1> SUFFICES ASSUME NEW f \in File, source[f] # indexed[f],
                      \/ ~IsInjective(parsed[f].chunks)
                      \/ \E g \in File \ {f} :
                            ToSet(parsed[f].chunks) \cap ToSet(StandingChunks(f, g)) # {}
               PROVE  FALSE
    BY DEF ChunksCollide
  <1>2. IsInjective(parsed[f].chunks) /\ \A id \in ToSet(parsed[f].chunks) : id[3] = f
    BY <1>1, ParseWithoutTrouble DEF Orderly
  <1>3. PICK g \in File \ {f} : ToSet(parsed[f].chunks) \cap ToSet(StandingChunks(f, g)) # {}
    BY <1>2
  <1>4. PICK u \in {indexed[g], source[g]} : StandingChunks(f, g) = Parses[g][u].chunks
    BY DEF StandingChunks
  <1>5. u \in Sources /\ ~Troublesome(u)
    BY <1>1
  <1>6. \A id \in ToSet(StandingChunks(f, g)) : id[3] = g
    BY <1>4, <1>5, ParseWithoutTrouble DEF Orderly
  <1> QED
    BY <1>2, <1>3, <1>6

\* The INSERTs of replace_file meet no other symbol.
LEMMA NoSymbolsCollide ==
    ASSUME TableInv, CleanInv, clean, pc = "replace", NEW f \in todo
    PROVE  ~Collides(f)
  <1>1. /\ f \in File /\ source[f] \in Sources /\ ~Troublesome(source[f])
        /\ parsed[f] = Parses[f][source[f]]
    BY DEF TableInv, ParsesInHand, CleanInv, NoTrouble
  <1> DEFINE symbols == parsed[f].symbols
  <1>2. /\ \A i, j \in 1..Len(symbols) : Identity(symbols[i]) = Identity(symbols[j]) => i = j
        /\ \A i \in 1..Len(symbols) : Identity(symbols[i])[2] = f /\ symbols[i].id[3] = f
        /\ ToSet(symbols) = {symbols[i] : i \in 1..Len(symbols)}
    <2>1. Orderly(parsed[f], f)
      BY <1>1, ParseWithoutTrouble
    <2> QED
      BY <2>1 DEF Orderly
  <1>3. \A i, j \in 1..Len(symbols) : symbols[i].id = symbols[j].id => Identity(symbols[i]) = Identity(symbols[j])
    BY DEF Identity
  <1>4. \A r \in Kept(f) : r.id[3] # f /\ Identity(r)[2] # f
    BY DEF Kept, Identity
  <1>5. \A s \in ToSet(symbols) : s.id[3] = f /\ Identity(s)[2] = f
    BY <1>2
  <1> HIDE DEF symbols
  <1>6. ~\E i, j \in 1..Len(symbols) :
            i # j /\ (symbols[i].id = symbols[j].id \/ Identity(symbols[i]) = Identity(symbols[j]))
    BY <1>2, <1>3
  <1>7. ~\E s \in ToSet(symbols), r \in Kept(f) : s.id = r.id \/ Identity(s) = Identity(r)
    BY <1>4, <1>5
  <1> QED
    BY <1>6, <1>7 DEF Collides, symbols

\* Every step keeps ProgressInv.
LEMMA StepsProgress ==
    ASSUME TableInv, CleanInv, ProgressInv, [Next]_vars
    PROVE  ProgressInv'
  <1>0. source \in [File -> Sources] /\ applied \in [File -> Sources] /\ clean \in BOOLEAN
        /\ (clean => \A f \in File : ~Troublesome(source[f]))
    BY DEF TableInv, ParsesInHand, CleanInv, NoTrouble
  <1> USE DEF ProgressInv
  <1>1. ASSUME NEW f \in File, NEW u \in Unit \cup {NoUnit}, Edit(f, u) PROVE ProgressInv'
    <2>1. clean' => clean
      BY <1>1 DEF Edit
    <2> QED
      BY <1>1, <2>1 DEF Edit
  <1>2. CASE StartUpdate
    BY <1>2 DEF StartUpdate
  <1>3. CASE Commit
    <2>1. clean => \A f \in File \ todo' : applied'[f] = indexed'[f]
      BY <1>3 DEF Commit
    <2> QED
      BY <1>0, <1>3, <2>1 DEF Commit
  <1>4. CASE CommitFails
    BY <1>4 DEF CommitFails
  <1>5. CASE EndUpdate
    <2>1. clean => applied = indexed
      BY <1>0, <1>5 DEF EndUpdate
    <2> QED
      BY <1>5, <2>1 DEF EndUpdate
  <1>6. CASE Kill
    BY <1>6 DEF Kill
  <1>7. ASSUME NEW f \in File, CollectFile(f) PROVE ProgressInv'
    BY <1>7 DEF CollectFile
  <1>8. ASSUME NEW f \in File, ReplaceFile(f) PROVE ProgressInv'
    <2>1. clean => \A g \in File \ todo' : applied'[g] = indexed'[g]
      BY <1>0, <1>8 DEF ReplaceFile
    <2> QED
      BY <1>8, <2>1 DEF ReplaceFile
  <1>9. ASSUME NEW f \in File, ReplaceFails(f) PROVE ProgressInv'
    <2>1. ~clean
      BY <1>9, NoSymbolsCollide DEF ReplaceFails, InTurn
    <2> QED
      BY <1>9, <2>1 DEF ReplaceFails
  <1>10. CASE UNCHANGED vars
    BY <1>10 DEF vars
  <1> QED
    BY <1>1, <1>2, <1>3, <1>4, <1>5, <1>6, <1>7, <1>8, <1>9, <1>10 DEF Next, UpdateStep, Rest

\* The history of a repository without troublesome units: the tables hold
\* exactly what was written, and between two updates everything is.
CleanRepository == CleanInv /\ ProgressInv

\* The inductive invariant of a repository without troublesome units.
THEOREM CleanRepositoryInvariant == Spec => []CleanRepository
  <1>1. Init => CleanRepository
    BY InitIsClean DEF Init, CleanRepository, ProgressInv, Sources, Troublesome
  <1>2. TableInv /\ CleanRepository /\ [Next]_vars => CleanRepository'
    BY StepsStayClean, StepsProgress DEF CleanRepository
  <1> QED
    BY <1>1, <1>2, TableInvariant, PTL DEF Spec

\* No key of either database stops an update.
NoUpdateFails == [][clean => ~CommitFails /\ ~\E f \in File : ReplaceFails(f)]_vars

\* The safety part of CleanUpdatesSucceed, for every repository without
\* troublesome units: an update is never rolled back, neither by the chunks
\* of index.sqlite3 nor by the symbols of symbols.sqlite3.
THEOREM CleanUpdatesNeverFail == Spec => NoUpdateFails
  <1>1. TableInv /\ CleanRepository /\ [Next]_vars
          => [clean => ~CommitFails /\ ~\E f \in File : ReplaceFails(f)]_vars
    BY NoChunksCollide, NoSymbolsCollide
       DEF CleanRepository, CommitFails, ReplaceFails, InTurn
  <1> QED
    BY <1>1, TableInvariant, CleanRepositoryInvariant, PTL DEF Spec, NoUpdateFails

\* Between two updates the symbols of every indexed file are written.
SymbolsAreWritten == clean /\ pc = "idle" => applied = indexed

\* A file that counts as indexed has its symbols, unless the process was
\* killed or a unit was troublesome: replace_file runs for every file of the
\* transaction that stored the chunks.
THEOREM CleanUpdatesWriteSymbols == Spec => []SymbolsAreWritten
  <1>1. CleanRepository => SymbolsAreWritten
    BY DEF CleanRepository, ProgressInv, SymbolsAreWritten
  <1> QED
    BY <1>1, CleanRepositoryInvariant, PTL
=============================================================================
