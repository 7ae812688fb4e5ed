------------------------- MODULE ConcurrentIndexing -------------------------
(***************************************************************************)
(* Two POST /v1/index requests on two HTTP threads.  Nothing in HttpServer *)
(* or IndexService serialises them: they run update() over one data        *)
(* directory and one SearchIndexHandle.  The first update has the          *)
(* variables of IndexService, the second its own copy of the locals.       *)
(***************************************************************************)
EXTENDS IndexService

VARIABLES pc2, oldGen2, vec2, present2, oldDocs2, todo2, cur2, repl2, symTodo2

locals2 == <<pc2, oldGen2, vec2, present2, oldDocs2, todo2, cur2, repl2, symTodo2>>

Second == INSTANCE IndexService WITH
    pc <- pc2, oldGen <- oldGen2, vec <- vec2, present <- present2,
    oldDocs <- oldDocs2, todo <- todo2, cur <- cur2, repl <- repl2,
    symTodo <- symTodo2

ConcurrentInit == Init /\ Second!Init

\* An edit is one of a file that the second update may be reading too.
RaceSecond(f) ==
    /\ Second!Race(f)
    /\ UNCHANGED <<pc2, oldGen2, vec2, present2, oldDocs2, todo2, repl2, symTodo2>>

ConcurrentNext ==
    \/ UpdateStep /\ UNCHANGED locals2
    \/ Second!UpdateStep /\ UNCHANGED <<pc, locals>>
    \/ \E f \in File, c \in Content \cup {NoFile} : Edit(f, c) /\ RaceSecond(f)

ConcurrentSpec == ConcurrentInit /\ [][ConcurrentNext]_<<vars, locals2>>

\* "Before the SQLite commit it still points to the complete old vector
\* file, after it to the complete new one": when no update is running, the
\* active vector file is that of the chunks in the database.
ConsistentWhenIdle == (pc = "idle" /\ pc2 = "idle") => ActiveVectorsMatchChunks
=============================================================================
