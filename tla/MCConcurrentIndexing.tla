------------------------ MODULE MCConcurrentIndexing ------------------------
(***************************************************************************)
(* Two updates of a repository of one file that is changed once, without   *)
(* the AST index.                                                          *)
(***************************************************************************)
EXTENDS ConcurrentIndexing, TLC

CONSTANTS f1, a, b, x, y

MCFile == {f1}
MCScanOrder == f1 :> 1
MCContent == {a, b}
MCText == {x, y}
MCId == MCFile \X MCText

MCTextChunks ==
    f1 :> (a :> [id \in MCId |-> IF id[2] = x THEN x ELSE NoText] @@
           b :> [id \in MCId |-> IF id[2] = y THEN y ELSE NoText])

NoUnits == {}
NoUnitChunks == [u \in {} |-> NoChunks]
NoParses == [f \in MCFile |-> [d \in MCContent |-> {}]]

MCEdits == {<<f1, a, b>>}
=============================================================================
