--------------------------- MODULE MCIndexService ---------------------------
(***************************************************************************)
(* IndexService for TLC.  The id of a text chunk changes with its text.  A *)
(* semantic chunk keeps its id (own) with another text, and content b has  *)
(* a definition that a macro spells: f1 and f2 give it the same id         *)
(* (shared).                                                               *)
(***************************************************************************)
EXTENDS IndexService, TLC

CONSTANTS f1, f2, a, b, x, y, z, ua, ub

MCFile == {f1, f2}
MCScanOrder == f1 :> 1 @@ f2 :> 2
MCContent == {a, b}
Shared == <<"macro", "id">>
MCId == (MCFile \X {"first", "second", "own"}) \cup {Shared}
MCText == {x, y, z}

Chunk(id, text) == [i \in MCId |-> IF i = id THEN text ELSE NoText]

MCTextChunks ==
    [f \in MCFile |-> a :> Chunk(<<f, "first">>, x) @@ b :> Chunk(<<f, "second">>, y)]

MCUnit == MCFile \X {ua, ub}
MCUnitChunks ==
    [u \in MCUnit |-> IF u[2] = ua THEN Chunk(<<u[1], "own">>, x)
                      ELSE Assign(Chunk(<<u[1], "own">>, y), Chunk(Shared, z))]
MCParses == [f \in MCFile |-> a :> (IF f = f1 THEN {<<f, ua>>} ELSE {}) @@ b :> {<<f, ub>>}]

\* f1 is changed, changed back and deleted; f2 is created.
MCEdits == {<<f1, a, b>>, <<f1, b, a>>, <<f1, b, NoFile>>, <<f2, NoFile, b>>}
=============================================================================
