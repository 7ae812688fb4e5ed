---------------------------- MODULE IndexService ----------------------------
(***************************************************************************)
(* IndexService::update with the stores it writes: the versioned vector    *)
(* files and their temporary files, index.sqlite3 (documents, chunks and   *)
(* active_vector_generation), symbols.sqlite3, and the snapshot that       *)
(* SearchIndexHandle publishes.  One update runs; the repository's files   *)
(* are edited under it, any of its steps may throw, and the process may be *)
(* killed and started again between any two of them.                       *)
(*                                                                         *)
(* Abstractions.  The content of a file is a value, and so is its content  *)
(* hash.  TextChunks says which chunks a content yields: a text for each   *)
(* id that is a chunk of it.  A Clang parse yields a unit, with chunks of  *)
(* its own; which one depends on headers and compile commands too, so it   *)
(* is any of several.  Ids are global: the id of a text chunk hashes path  *)
(* and text, but that of a semantic chunk the path where the declaration   *)
(* is spelled, so it may outlive its text, and two files whose             *)
(* definitions one macro spells share it.  No content has an id twice.     *)
(* The vector of a chunk is the text it was computed from.                 *)
(***************************************************************************)
EXTENDS Integers

CONSTANTS
    File,           \* the paths a scan may find
    ScanOrder,      \* the place of a file in the sorted scan
    Content,        \* what a file may contain
    Id, Text,       \* chunk ids and chunk texts
    TextChunks,     \* File -> Content -> Id -> Text or NoText
    Unit,           \* what a parse may yield, semantic chunks included
    UnitChunks,     \* Unit -> Id -> Text or NoText
    Parses,         \* File -> Content -> the units it may be parsed to
    Semantic,       \* the AST index is built in and enabled
    Edits,          \* the changes an editor may make: file, old and new content
    MaxGeneration,  \* bound on the generations written
    NoFile, NoText, NoDoc, NoUnit, NoVectors, Torn

Gen == 1..MaxGeneration
Vectors == [Id -> Text \cup {NoText}]

ASSUME IndexAssumption ==
    /\ ScanOrder \in [File -> Nat]
    /\ \A f, g \in File : ScanOrder[f] = ScanOrder[g] => f = g
    /\ TextChunks \in [File -> [Content -> Vectors]]
    /\ UnitChunks \in [Unit -> Vectors]
    /\ Parses \in [File -> [Content -> SUBSET Unit]]
    /\ Semantic \in BOOLEAN
    /\ MaxGeneration \in Nat \ {0}
    /\ NoFile \notin Content
    /\ NoText \notin Text
    /\ NoUnit \notin Unit

\* A row of documents and its chunks: the stored hash, the content the
\* chunks were read from, the unit if they are semantic.  raced is history:
\* the file was edited between its first and its last read.
Document == [hash : Content, body : Content, unit : Unit \cup {NoUnit}, raced : BOOLEAN]

ASSUME NoDocAssumption == NoDoc \notin Document

ASSUME NoVectorsAssumption == NoVectors \notin Vectors /\ Torn \notin Vectors

VARIABLES
    tree,       \* the repository: file -> content or NoFile
    \* the data directory
    docs,       \* documents and chunks: file -> document or NoDoc
    active,     \* active_vector_generation, 0 when absent
    files,      \* vectors.<g>.bin: generation -> vectors, Torn or NoVectors
    tmp,        \* vectors.<g>.bin.tmp, likewise
    syms,       \* symbols.sqlite3: file -> the unit written last for it
    \* the process
    handle,     \* index_handle_: the published snapshot or NoVectors
    pc,         \* the next step of update()
    oldGen,     \* old_generation
    vec,        \* vectors, one flat map by chunk id
    present,    \* present, the files of the scan
    oldDocs,    \* old_documents
    todo,       \* the files the loop has still to visit
    cur,        \* the file being replaced, its hash and what was chunked
    repl,       \* replacements: file -> document or NoDoc
    symTodo,    \* the files whose symbols are still to be replaced
    \* history
    quiet,      \* the tree has not changed since the scan
    interrupted,\* an update ended between its commit and its last symbol
    moved       \* ids a file took over in the update that removed their file

store == <<docs, active, files, tmp, syms>>
locals == <<oldGen, vec, present, oldDocs, todo, cur, repl, symTodo>>
history == <<quiet, interrupted, moved>>
vars == <<tree, store, handle, pc, locals, history>>

NoChunks == [id \in Id |-> NoText]
NoReplacement == [f \in File |-> NoDoc]

\* The chunks of a document of the file f.
Chunks(f, d) ==
    IF d = NoDoc THEN NoChunks
    ELSE IF d.unit # NoUnit THEN UnitChunks[d.unit] ELSE TextChunks[f][d.body]

HasChunk(f, d, id) == Chunks(f, d)[id] # NoText

\* Mutant: the vectors of the old chunks are left in.
EraseNothing(vectors, old) == vectors

\* vectors.erase of the ids of old; vectors.insert_or_assign of those of new.
Erase(vectors, old) == [id \in Id |-> IF old[id] # NoText THEN NoText ELSE vectors[id]]
Assign(vectors, new) == [id \in Id |-> IF new[id] # NoText THEN new[id] ELSE vectors[id]]

-----------------------------------------------------------------------------
LocalsReset ==
    /\ oldGen' = 0
    /\ vec' = NoChunks
    /\ present' = {}
    /\ oldDocs' = NoReplacement
    /\ todo' = {}
    /\ cur' = NoDoc
    /\ repl' = NoReplacement
    /\ symTodo' = {}

Init ==
    /\ tree \in [File -> Content \cup {NoFile}]
    /\ docs = NoReplacement
    /\ active = 0
    /\ files = [g \in Gen |-> NoVectors]
    /\ tmp = [g \in Gen |-> NoVectors]
    /\ syms = [f \in File |-> NoUnit]
    /\ handle = NoVectors
    /\ pc = "idle"
    /\ oldGen = 0
    /\ vec = NoChunks
    /\ present = {}
    /\ oldDocs = NoReplacement
    /\ todo = {}
    /\ cur = NoDoc
    /\ repl = NoReplacement
    /\ symTodo = {}
    /\ quiet = TRUE
    /\ interrupted = FALSE
    /\ moved = {}

\* The data directory is created, left-over temporary files are removed and
\* the databases opened.
Start ==
    /\ pc = "idle"
    /\ tmp' = [g \in Gen |-> NoVectors]
    /\ pc' = "generation"
    /\ UNCHANGED <<tree, docs, active, files, syms, handle, locals, history>>

ReadGeneration ==
    /\ pc = "generation"
    /\ active < MaxGeneration
    /\ oldGen' = active
    /\ pc' = "vectors"
    /\ UNCHANGED <<tree, store, handle, vec, present, oldDocs, todo, cur, repl,
                   symTodo, history>>

\* VectorFile::read throws on a missing or damaged file (see Throw).
ReadVectors ==
    /\ pc = "vectors"
    /\ \/ oldGen = 0 /\ UNCHANGED vec
       \/ oldGen # 0 /\ files[oldGen] \in Vectors /\ vec' = files[oldGen]
    /\ pc' = "scan"
    /\ UNCHANGED <<tree, store, handle, oldGen, present, oldDocs, todo, cur, repl,
                   symTodo, history>>

Scan ==
    /\ pc = "scan"
    /\ present' = {f \in File : tree[f] # NoFile}
    /\ quiet' = TRUE
    /\ pc' = "documents"
    /\ UNCHANGED <<tree, store, handle, oldGen, vec, oldDocs, todo, cur, repl,
                   symTodo, interrupted, moved>>

ReadDocuments ==
    /\ pc = "documents"
    /\ oldDocs' = docs
    /\ todo' = present
    /\ pc' = "file"
    /\ UNCHANGED <<tree, store, handle, oldGen, vec, present, cur, repl, symTodo,
                   history>>

\* Mutant: a file is skipped because it was indexed before.
UnchangedIfKnown(f) == oldDocs[f] # NoDoc

Unchanged(f) == oldDocs[f] # NoDoc /\ oldDocs[f].hash = tree[f]

\* content_hash reads the next file of the scan; an unchanged one is skipped.
HashFile(f) ==
    /\ pc = "file"
    /\ f \in todo
    /\ \A g \in todo : ScanOrder[f] <= ScanOrder[g]
    /\ tree[f] # NoFile
    /\ todo' = todo \ {f}
    /\ IF Unchanged(f)
       THEN UNCHANGED <<cur, pc>>
       ELSE /\ cur' = [file |-> f, hash |-> tree[f], text |-> NoFile, raced |-> FALSE]
            /\ pc' = "chunk"
    /\ UNCHANGED <<tree, store, handle, oldGen, vec, present, oldDocs, repl,
                   symTodo, history>>

\* The old chunks are looked up in the database and their vectors erased;
\* the file is read a second time and cut into text chunks.
ChunkFile ==
    /\ pc = "chunk"
    /\ tree[cur.file] # NoFile
    /\ vec' = IF oldDocs[cur.file] # NoDoc
              THEN Erase(vec, Chunks(cur.file, docs[cur.file])) ELSE vec
    /\ cur' = [cur EXCEPT !.text = tree[cur.file]]
    /\ pc' = "parse"
    /\ UNCHANGED <<tree, store, handle, oldGen, present, oldDocs, todo, repl, symTodo,
                   history>>

\* What may become of the file: its semantic chunks as Clang reads it now,
\* or, when the parse fails or yields none, the text chunks of before.
Outcomes ==
    {[hash |-> cur.hash, body |-> cur.text, unit |-> NoUnit, raced |-> cur.raced]} \cup
    IF Semantic
    THEN {[hash |-> cur.hash, body |-> tree[cur.file], unit |-> u, raced |-> cur.raced] :
              u \in Parses[cur.file][tree[cur.file]]}
    ELSE {}

\* Clang reads the file a third time; the chunks are embedded, and the
\* vectors of their ids replaced, whichever file they were of.
ParseFile ==
    /\ pc = "parse"
    /\ tree[cur.file] # NoFile
    /\ \E d \in Outcomes :
          /\ vec' = Assign(vec, Chunks(cur.file, d))
          /\ repl' = [repl EXCEPT ![cur.file] = d]
    /\ cur' = NoDoc
    /\ pc' = "file"
    /\ UNCHANGED <<tree, store, handle, oldGen, present, oldDocs, todo, symTodo,
                   history>>

Removed == {f \in File : oldDocs[f] # NoDoc /\ f \notin present}
Replaced == {f \in File : repl[f] # NoDoc}

NothingToStore == Removed = {} /\ Replaced = {} /\ oldGen # 0

\* The ids of files that vanished lose their vectors, also those that a
\* replacement has just been assigned; then the update either has nothing to
\* store or writes the next generation.
FindRemovals ==
    /\ pc = "file"
    /\ todo = {}
    /\ vec' = [id \in Id |-> IF \E f \in Removed : HasChunk(f, docs[f], id)
                              THEN NoText ELSE vec[id]]
    /\ pc' = IF NothingToStore THEN "publish" ELSE "open"
    /\ UNCHANGED <<tree, store, handle, oldGen, present, oldDocs, todo, cur, repl,
                   symTodo, history>>

-----------------------------------------------------------------------------
(***************************************************************************)
(* VectorFile::write_atomic and the read-back.                             *)
(***************************************************************************)
\* Mutant: the active vector file is written in place.
SameGen == IF oldGen = 0 THEN 1 ELSE oldGen

NewGen == oldGen + 1

OpenTemporary ==
    /\ pc = "open"
    /\ tmp' = [tmp EXCEPT ![NewGen] = Torn]
    /\ pc' = "fill"
    /\ UNCHANGED <<tree, docs, active, files, syms, handle, locals, history>>

\* Header, records, flush, close and fsync, which opens the file by name.
FillTemporary ==
    /\ pc = "fill"
    /\ tmp[NewGen] # NoVectors
    /\ tmp' = [tmp EXCEPT ![NewGen] = vec]
    /\ pc' = "rename"
    /\ UNCHANGED <<tree, docs, active, files, syms, handle, locals, history>>

\* rename throws when somebody removed the temporary file.
Rename ==
    /\ pc = "rename"
    /\ tmp[NewGen] # NoVectors
    /\ files' = [files EXCEPT ![NewGen] = tmp[NewGen]]
    /\ tmp' = [tmp EXCEPT ![NewGen] = NoVectors]
    /\ pc' = "verify"
    /\ UNCHANGED <<tree, docs, active, syms, handle, locals, history>>

Verify ==
    /\ pc = "verify"
    /\ files[NewGen] \in Vectors
    /\ pc' = "commit"
    /\ UNCHANGED <<tree, store, handle, locals, history>>

-----------------------------------------------------------------------------
\* What the transaction leaves in documents and chunks.
Replacing(d) == [f \in File |-> IF f \in Removed THEN NoDoc
                                ELSE IF f \in Replaced THEN repl[f] ELSE d[f]]

\* Mutant: the symbols of removed files are forgotten.
SymbolWorkOfReplaced == IF Semantic THEN Replaced ELSE {}

SymbolWork == IF Semantic THEN Removed \cup Replaced ELSE {}

\* The primary key of chunks: the transaction first erases the removed
\* documents, then each replacement in the order of the scan, its own old
\* rows first.  Inserting an id that another file still has fails.
KeysFree ==
    \A f \in Replaced, g \in File, id \in Id :
        (f # g /\ HasChunk(f, repl[f], id)) =>
            /\ ~HasChunk(g, Replacing(docs)[g], id)
            /\ g \in Replaced /\ ScanOrder[f] < ScanOrder[g] => ~HasChunk(g, docs[g], id)

\* Ids that a removed file had and a replacement has.
Given == {id \in Id : /\ \E g \in Removed : HasChunk(g, docs[g], id)
                      /\ \E f \in Replaced : HasChunk(f, repl[f], id)}

AssignedAnew == {id \in Id : \E f \in Replaced : HasChunk(f, repl[f], id)}

\* One SQLite transaction: erase_document, replace_document, set_metadata.
Commit ==
    /\ pc = "commit"
    /\ KeysFree
    /\ docs' = Replacing(docs)
    /\ active' = NewGen
    /\ symTodo' = SymbolWork
    /\ pc' = "symbols"
    /\ moved' = (moved \ AssignedAnew) \cup Given
    /\ UNCHANGED <<tree, files, tmp, syms, handle, oldGen, vec, present, oldDocs,
                   todo, cur, repl, quiet, interrupted>>

UnitOf(d) == IF d # NoDoc THEN d.unit ELSE NoUnit

\* SqliteSymbolRepository::replace_file, a transaction of its own per file.
ReplaceSymbols(f) ==
    /\ pc = "symbols"
    /\ f \in symTodo
    /\ syms' = [syms EXCEPT ![f] = UnitOf(repl[f])]
    /\ symTodo' = symTodo \ {f}
    /\ UNCHANGED <<tree, docs, active, files, tmp, handle, pc, oldGen, vec, present,
                   oldDocs, todo, cur, repl, history>>

SymbolsDone ==
    /\ pc = "symbols"
    /\ symTodo = {}
    /\ pc' = "publish"
    /\ UNCHANGED <<tree, store, handle, locals, history>>

\* Mutant: the snapshot is built from the vector file read at the start.
SnapshotOfOldFile == IF oldGen = 0 THEN vec ELSE files[oldGen]

\* The snapshot is built from the vectors in memory.
Snapshot == vec

\* The snapshot is published; update returns.
Publish ==
    /\ pc = "publish"
    /\ handle' = Snapshot
    /\ pc' = "idle"
    /\ LocalsReset
    /\ UNCHANGED <<tree, store, history>>

-----------------------------------------------------------------------------
Interruption == interrupted' = (interrupted \/ (pc = "symbols" /\ symTodo # {}))

\* Any call in update may throw; an open transaction is rolled back, and
\* the HTTP handler answers 500.
Throw ==
    /\ pc # "idle"
    /\ pc' = "idle"
    /\ LocalsReset
    /\ Interruption
    /\ UNCHANGED <<tree, store, handle, quiet, moved>>

\* The process is killed and started again.
Crash ==
    /\ pc' = "idle"
    /\ handle' = NoVectors
    /\ LocalsReset
    /\ Interruption
    /\ UNCHANGED <<tree, store, quiet, moved>>

\* History: the file the update is reading has been edited.
Race(f) == cur' = IF cur # NoDoc /\ cur.file = f THEN [cur EXCEPT !.raced = TRUE] ELSE cur

Edit(f, c) ==
    /\ <<f, tree[f], c>> \in Edits
    /\ tree' = [tree EXCEPT ![f] = c]
    /\ quiet' = FALSE
    /\ Race(f)
    /\ UNCHANGED <<store, handle, pc, oldGen, vec, present, oldDocs, todo, repl,
                   symTodo, interrupted, moved>>

UpdateStep ==
    \/ Start \/ ReadGeneration \/ ReadVectors \/ Scan \/ ReadDocuments
    \/ \E f \in File : HashFile(f)
    \/ ChunkFile \/ ParseFile \/ FindRemovals
    \/ OpenTemporary \/ FillTemporary \/ Rename \/ Verify
    \/ Commit
    \/ \E f \in File : ReplaceSymbols(f)
    \/ SymbolsDone \/ Publish
    \/ Throw

Next ==
    \/ UpdateStep
    \/ Crash
    \/ \E f \in File, c \in Content \cup {NoFile} : Edit(f, c)

Spec == Init /\ [][Next]_vars

-----------------------------------------------------------------------------
PcStates == {"idle", "generation", "vectors", "scan", "documents", "file", "chunk",
             "parse", "open", "fill", "rename", "verify", "commit", "symbols", "publish"}

Reading == [file : File, hash : Content, text : Content \cup {NoFile}, raced : BOOLEAN]

ASSUME NoReadingAssumption == NoDoc \notin Reading

TypeOK ==
    /\ tree \in [File -> Content \cup {NoFile}]
    /\ docs \in [File -> Document \cup {NoDoc}]
    /\ active \in 0..MaxGeneration
    /\ files \in [Gen -> Vectors \cup {NoVectors, Torn}]
    /\ tmp \in [Gen -> Vectors \cup {NoVectors, Torn}]
    /\ syms \in [File -> Unit \cup {NoUnit}]
    /\ handle \in Vectors \cup {NoVectors}
    /\ pc \in PcStates
    /\ oldGen \in 0..MaxGeneration
    /\ vec \in Vectors
    /\ present \subseteq File
    /\ oldDocs \in [File -> Document \cup {NoDoc}]
    /\ todo \subseteq File
    /\ IF pc \in {"chunk", "parse"} THEN cur \in Reading ELSE cur = NoDoc
    /\ pc = "parse" => cur.text \in Content
    /\ repl \in [File -> Document \cup {NoDoc}]
    /\ symTodo \subseteq File
    /\ quiet \in BOOLEAN
    /\ interrupted \in BOOLEAN
    /\ moved \subseteq Id

\* Every vector is one of a chunk of these documents, with its text.
VectorsOf(vectors, d) ==
    \A id \in Id : vectors[id] # NoText => \E f \in File : Chunks(f, d[f])[id] = vectors[id]

\* Every chunk of these documents has its vector, but for some ids.
VectorsFor(vectors, d, except) ==
    \A f \in File, id \in Id \ except :
        HasChunk(f, d[f], id) => vectors[id] = Chunks(f, d[f])[id]

\* Whatever threw and wherever the process was killed, the generation that
\* index.sqlite3 names has a whole vector file; every vector of that file is
\* one of a stored chunk, computed from its text; and every stored chunk has
\* its vector, unless its id came from a file that the same update removed.
ActiveVectorsMatchChunks ==
    IF active = 0 THEN docs = NoReplacement
    ELSE /\ files[active] \in Vectors
         /\ VectorsOf(files[active], docs)
         /\ VectorsFor(files[active], docs, moved)

\* A published snapshot is the index the database names at that moment.
PublishesWhatIsCommitted ==
    [][handle' \notin {handle, NoVectors} => handle' = files[active]]_vars

\* An update that has run to its end, and since whose scan nobody edited a
\* file, has brought the index up to date with the repository: a file is
\* stored if and only if it is there, under the hash it has, and with its
\* chunks, unless the update that stored them had the file edited between its
\* reads.
UpdateReachesTree ==
    (pc = "publish" /\ quiet) =>
        \A f \in File :
            IF tree[f] = NoFile THEN docs[f] = NoDoc
            ELSE /\ docs[f] # NoDoc
                 /\ docs[f].hash = tree[f]
                 /\ docs[f].raced \/ docs[f].body = tree[f]

\* Symbols lag behind the documents only after an update that ended between
\* its commit and its last symbol transaction.
SymbolsFollowDocuments ==
    (Semantic /\ ~interrupted) =>
        \A f \in File \ symTodo : syms[f] = UnitOf(docs[f])

-----------------------------------------------------------------------------
(***************************************************************************)
(* The inductive invariant: what the locals of update() hold at each step. *)
(***************************************************************************)
Visiting == {"file", "chunk", "parse"}
Gathering == {"scan", "documents"} \cup Visiting
Storing == {"open", "fill", "rename", "verify", "commit"}

\* Until the commit the update works on the generation the database names.
WorksOnActive ==
    /\ pc \in {"vectors"} \cup Gathering \cup Storing =>
          oldGen = active /\ active < MaxGeneration
    /\ pc \in Visiting \cup Storing => oldDocs = docs

\* The files visited so far, in the order of the scan, are the ones that may
\* have been replaced.
VisitedFiles ==
    /\ pc \notin Visiting \cup Storing \cup {"symbols", "publish"} => repl = NoReplacement
    /\ pc \in Visiting \cup Storing => Replaced \subseteq present
    /\ pc \in Visiting =>
          /\ todo \subseteq present \ Replaced
          /\ \A f \in Replaced, g \in todo : ScanOrder[f] < ScanOrder[g]
    /\ pc \in {"chunk", "parse"} =>
          /\ cur.file \in present \ (todo \cup Replaced)
          /\ \A f \in Replaced : ScanOrder[f] < ScanOrder[cur.file]
          /\ \A g \in todo : ScanOrder[cur.file] < ScanOrder[g]

\* The primary key: an id is stored for one file at most.
OneFilePerId ==
    \A f, g \in File, id \in Id :
        (HasChunk(f, docs[f], id) /\ HasChunk(g, docs[g], id)) => f = g

\* The documents as they will be, as far as the files have been visited.
SoFar == [f \in File |-> IF repl[f] # NoDoc THEN repl[f] ELSE docs[f]]

\* Another replacement has the same id: its vector is in its place, and the
\* commit will fail.
Contested(f, id) == \E g \in Replaced \ {f} : HasChunk(g, repl[g], id)

\* A file after f lost the id in this update: its vector was erased, and the
\* commit will fail.
ErasedAfter(f, id) ==
    \E g \in Replaced \cup (IF pc = "parse" THEN {cur.file} ELSE {}) :
        ScanOrder[f] < ScanOrder[g] /\ HasChunk(g, docs[g], id)

\* Where the vector of a replaced file is, and that of one that is kept.
ReplacedVectors(erased) ==
    \A f \in Replaced, id \in Id :
        HasChunk(f, repl[f], id) =>
            \/ vec[id] = Chunks(f, repl[f])[id]
            \/ Contested(f, id) \/ ErasedAfter(f, id) \/ id \in erased

KeptVectors(kept) ==
    \A f \in kept, id \in Id :
        HasChunk(f, docs[f], id) =>
            \/ vec[id] = Chunks(f, docs[f])[id]
            \/ Contested(f, id) \/ id \in moved

\* The vectors in memory are those of the documents as they will be.
VectorsInMemory ==
    /\ pc \in {"idle", "generation", "vectors"} => vec = NoChunks
    /\ pc \in Gathering =>
          /\ VectorsOf(vec, SoFar)
          /\ ReplacedVectors({})
          /\ KeptVectors((File \ Replaced) \ (IF pc = "parse" THEN {cur.file} ELSE {}))
          /\ pc # "parse" /\ Replaced = {} /\ oldGen # 0 => vec = files[oldGen]
    /\ pc = "parse" => \A id \in Id : HasChunk(cur.file, docs[cur.file], id) => vec[id] = NoText
    /\ pc \in Storing =>
          /\ VectorsOf(vec, Replacing(docs))
          /\ ReplacedVectors(Given)
          /\ KeptVectors(File \ (Replaced \cup Removed))
    /\ pc \in {"symbols", "publish"} => active # 0 /\ vec = files[active]

VectorsOnDisk ==
    /\ pc = "rename" => tmp[NewGen] = vec
    /\ pc \in {"verify", "commit"} => files[NewGen] = vec

SymbolsInProgress ==
    /\ symTodo # {} => pc = "symbols"
    /\ \A f \in symTodo : repl[f] = docs[f]

IndexInv ==
    /\ TypeOK
    /\ ActiveVectorsMatchChunks
    /\ OneFilePerId
    /\ WorksOnActive
    /\ VisitedFiles
    /\ VectorsInMemory
    /\ VectorsOnDisk
    /\ SymbolsInProgress
    /\ SymbolsFollowDocuments
=============================================================================
