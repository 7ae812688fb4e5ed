----------------------------- MODULE Retrieval -----------------------------
(***************************************************************************)
(* A query of the server, POST /v1/search or ask(), while an update of the *)
(* index runs.  The query loads the published snapshot once, but its       *)
(* keyword hits, its symbol hits and the chunks of its hits come from the  *)
(* live databases, later, and the chunks one SELECT after the other.       *)
(*                                                                         *)
(* A hit's score is the id it was given for: the i-th result is right when *)
(* the chunk shown is the one its score was computed for.  The texts shown *)
(* and the order a reranker gives the sources are left out.                *)
(***************************************************************************)
EXTENDS IndexService, Sequences

CONSTANTS
    TopK,       \* bound on the hits of a query
    UnitSymbols \* Unit -> the ids of its symbols, those without a chunk too

ASSUME RetrievalAssumption ==
    /\ TopK \in Nat \ {0}
    /\ UnitSymbols \in [Unit -> SUBSET Id]

VARIABLES
    route,      \* "idle", "search" or "ask"
    step,       \* the next step of the query: "hits", "chunks" or "answer"
    snapshot,   \* the snapshot the query loaded
    hits,       \* the fused hits, best first: a sequence of chunk ids
    at,         \* how many of them get_many has looked up
    chunks,     \* the ids of the rows it found
    results,    \* what is shown: the id scored and the id of the chunk
    settled     \* history: snapshot and database agreed when the query
                \* began and the database has not changed since

query == <<route, step, snapshot, hits, at, chunks, results, settled>>

\* The ids in the chunks table and its full-text index.
ChunkIds == {id \in Id : \E f \in File : HasChunk(f, docs[f], id)}

\* The ids of the symbols table.
SymbolIds == UNION {UnitSymbols[syms[f]] : f \in {g \in File : syms[g] # NoUnit}}

\* What HybridRetriever may fuse: vector hits of the snapshot, keyword hits
\* of the live FTS table, symbol hits of the live symbols table.
Candidates == {id \in Id : snapshot[id] # NoText} \cup ChunkIds \cup SymbolIds

QueryInit ==
    /\ route = "idle"
    /\ step = "hits"
    /\ snapshot = NoChunks
    /\ hits = << >>
    /\ at = 0
    /\ chunks = << >>
    /\ results = << >>
    /\ settled = FALSE

\* The vectors are those of the documents, one for each chunk.
Agree(vectors, d) == VectorsOf(vectors, d) /\ VectorsFor(vectors, d, {})

\* index_handle.load(); without a snapshot the server is not ready.
LoadSnapshot(r) ==
    /\ route = "idle"
    /\ handle # NoVectors
    /\ route' = r
    /\ step' = "hits"
    /\ snapshot' = handle
    /\ settled' = Agree(handle, docs)
    /\ UNCHANGED <<hits, at, chunks, results>>

Injective(s) == \A i, j \in DOMAIN s : s[i] = s[j] => i = j

\* reciprocal_rank_fuse: at most TopK distinct candidates, in some order.
Retrieve ==
    /\ route # "idle"
    /\ step = "hits"
    /\ \E n \in 0..TopK : \E s \in [1..n -> Candidates] :
          Injective(s) /\ hits' = s
    /\ step' = "chunks"
    /\ UNCHANGED <<route, snapshot, at, chunks, results, settled>>

\* Mutant: the statement is stepped before it is bound to the next id.
RowOfPrevious(id) == IF at > 0 /\ hits[at] \in ChunkIds THEN <<hits[at]>> ELSE << >>

\* The row that the SELECT for an id returns, if there is one.
RowOf(id) == IF id \in ChunkIds THEN <<id>> ELSE << >>

\* One turn of the loop of get_many: the chunk of the next hit as it is in
\* the database by now; a missing one is left out.
ReadChunk ==
    /\ route # "idle"
    /\ step = "chunks"
    /\ at < Len(hits)
    /\ chunks' = chunks \o RowOf(hits[at + 1])
    /\ at' = at + 1
    /\ UNCHANGED <<route, step, snapshot, hits, results, settled>>

\* The search handler pairs the i-th hit with the i-th chunk.
ByPosition == [i \in 1..Len(chunks) |-> [scored |-> hits[i], id |-> chunks[i]]]

\* AskService looks the chunk of each hit up by its id; get_many left the
\* chunks in the order of the hits.
ById == [i \in 1..Len(chunks) |-> [scored |-> chunks[i], id |-> chunks[i]]]

Pair ==
    /\ route # "idle"
    /\ step = "chunks"
    /\ at = Len(hits)
    /\ results' = IF route = "search" THEN ByPosition ELSE ById
    /\ step' = "answer"
    /\ UNCHANGED <<route, snapshot, hits, at, chunks, settled>>

\* The answer is sent; ask throws when no hit has a chunk.
Answer ==
    /\ route # "idle"
    /\ step = "answer"
    /\ route' = "idle"
    /\ step' = "hits"
    /\ snapshot' = NoChunks
    /\ hits' = << >>
    /\ at' = 0
    /\ chunks' = << >>
    /\ results' = << >>
    /\ settled' = FALSE

QueryStep ==
    \/ \E r \in {"search", "ask"} : LoadSnapshot(r)
    \/ Retrieve
    \/ ReadChunk
    \/ Pair
    \/ Answer

\* A step of the index while a query may be running.
IndexStep ==
    /\ UpdateStep \/ \E f \in File, c \in Content \cup {NoFile} : Edit(f, c)
    /\ settled' = (settled /\ docs' = docs)
    /\ UNCHANGED <<route, step, snapshot, hits, at, chunks, results>>

RetrievalInit == Init /\ QueryInit

RetrievalNext ==
    \/ QueryStep /\ UNCHANGED vars
    \/ IndexStep

RetrievalSpec == RetrievalInit /\ [][RetrievalNext]_<<vars, query>>

-----------------------------------------------------------------------------
Paired == \A i \in 1..Len(results) : results[i].scored = results[i].id

\* With the AST index off, a query that began on a snapshot of the database
\* as it was, and during which no update committed, loses none of its hits,
\* and a search pairs every score with its own chunk.
SettledQueryIsExact ==
    (~Semantic /\ settled /\ step = "answer") => Paired /\ Len(results) = Len(hits)

\* "Requests that have begun keep the old version": the scores a search
\* shows belong to the chunks it shows them with.
SearchScoresBelongToChunks == (route = "search" /\ step = "answer") => Paired
=============================================================================
