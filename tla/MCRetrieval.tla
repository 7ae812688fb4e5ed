---------------------------- MODULE MCRetrieval ----------------------------
(***************************************************************************)
(* Retrieval for TLC: one file of one or two text chunks, whose ids change *)
(* with their texts; the AST index is off.                                 *)
(***************************************************************************)
EXTENDS Retrieval, TLC

CONSTANTS f1, a, b, c, x, y

MCFile == {f1}
MCScanOrder == f1 :> 1
MCContent == {a, b, c}
MCText == {x, y}
MCId == MCFile \X MCText

ChunksOf(texts) == [id \in MCId |-> IF id[2] \in texts THEN id[2] ELSE NoText]

MCTextChunks == f1 :> (a :> ChunksOf({x}) @@ b :> ChunksOf({x, y}) @@ c :> ChunksOf({y}))

NoUnits == {}
NoUnitChunks == [u \in {} |-> NoChunks]
NoUnitSymbols == [u \in {} |-> {}]
NoParses == [f \in MCFile |-> [d \in MCContent |-> {}]]

\* The second text is added and taken back, the first one removed.
MCEdits == {<<f1, a, b>>, <<f1, b, a>>, <<f1, b, c>>, <<f1, b, NoFile>>, <<f1, NoFile, c>>}
=============================================================================
