------------------------- MODULE IndexServiceProofs -------------------------
(***************************************************************************)
(* Crash consistency of IndexService::update for any repository, chunker,  *)
(* parser and number of generations, with ids that files may share; what   *)
(* an update that nobody disturbs reaches; and what a query that nothing   *)
(* disturbs shows, for any number of hits.                                 *)
(***************************************************************************)
EXTENDS Retrieval, TLAPS

Docs == [File -> Document \cup {NoDoc}]

\* The chunks of a document, and of none, are given by id.
LEMMA ChunkFacts ==
    /\ NoChunks \in Vectors
    /\ NoReplacement \in Docs
    /\ \A f \in File, d \in Document \cup {NoDoc} : Chunks(f, d) \in Vectors
    /\ \A f \in File, id \in Id : ~HasChunk(f, NoDoc, id)
  BY IndexAssumption DEF NoChunks, Vectors, NoReplacement, Docs, Chunks, HasChunk, Document

\* Erasing and assigning, id by id.
LEMMA VectorFacts ==
    ASSUME NEW v \in Vectors, NEW n \in Vectors
    PROVE  /\ Erase(v, n) \in Vectors /\ Assign(v, n) \in Vectors
           /\ \A id \in Id : Erase(v, n)[id] = IF n[id] # NoText THEN NoText ELSE v[id]
           /\ \A id \in Id : Assign(v, n)[id] = IF n[id] # NoText THEN n[id] ELSE v[id]
  BY DEF Vectors, Erase, Assign

\* What the vectors in memory depend on besides the program counter.
SameWork ==
    /\ UNCHANGED <<docs, repl, vec, active, oldGen, moved, present, oldDocs>>
    /\ active # 0 => files'[active] = files[active]
    /\ (pc = "parse" \/ pc' = "parse") => pc' = pc /\ cur'.file = cur.file

LEMMA SameWorkSameVectors ==
    ASSUME SameWork
    PROVE  /\ Removed' = Removed /\ Replaced' = Replaced /\ SoFar' = SoFar
           /\ Replacing(docs)' = Replacing(docs) /\ Given' = Given /\ NewGen' = NewGen
           /\ ActiveVectorsMatchChunks' = ActiveVectorsMatchChunks
           /\ OneFilePerId' = OneFilePerId
           /\ \A s \in SUBSET Id : ReplacedVectors(s)' = ReplacedVectors(s)
           /\ \A s \in SUBSET File : KeptVectors(s)' = KeptVectors(s)
  <1>1. /\ Removed' = Removed /\ Replaced' = Replaced /\ SoFar' = SoFar
        /\ Replacing(docs)' = Replacing(docs) /\ NewGen' = NewGen
    BY DEF SameWork, Removed, Replaced, SoFar, Replacing, NewGen
  <1>2. Given' = Given
    BY <1>1 DEF SameWork, Given
  <1>3. ActiveVectorsMatchChunks' = ActiveVectorsMatchChunks /\ OneFilePerId' = OneFilePerId
    BY DEF SameWork, ActiveVectorsMatchChunks, OneFilePerId
  <1>4. \A f, id : Contested(f, id)' = Contested(f, id) /\ ErasedAfter(f, id)' = ErasedAfter(f, id)
    BY <1>1 DEF SameWork, Contested, ErasedAfter
  <1>5. \A s \in SUBSET Id : ReplacedVectors(s)' = ReplacedVectors(s)
    BY <1>1, <1>4 DEF SameWork, ReplacedVectors
  <1>6. \A s \in SUBSET File : KeptVectors(s)' = KeptVectors(s)
    BY <1>4 DEF SameWork, KeptVectors
  <1> QED
    BY <1>1, <1>2, <1>3, <1>5, <1>6

\* A step that leaves the work alone keeps what the invariant says of the
\* vectors, as long as it stays in its part of update().
LEMMA SameWorkKeepsVectors ==
    ASSUME IndexInv, SameWork,
           \/ pc' = pc
           \/ pc \in Gathering \ {"parse"} /\ pc' \in Gathering \ {"parse"}
           \/ pc \in Storing /\ pc' \in Storing
           \/ pc \in {"idle", "generation", "vectors"} /\ pc' \in {"idle", "generation", "vectors"}
           \/ pc \in {"symbols", "publish"} /\ pc' \in {"symbols", "publish"}
    PROVE  ActiveVectorsMatchChunks' /\ OneFilePerId' /\ VectorsInMemory'
  <1> DEFINE kept == (File \ Replaced) \ (IF pc = "parse" THEN {cur.file} ELSE {})
             kept2 == File \ (Replaced \cup Removed)
  <1>1. /\ ActiveVectorsMatchChunks /\ OneFilePerId /\ VectorsInMemory
    BY DEF IndexInv
  <1>2. /\ UNCHANGED <<docs, vec, active, oldGen>>
        /\ active # 0 => files'[active] = files[active]
        /\ pc \in Gathering => oldGen = active
        /\ kept' = kept /\ kept2' = kept2
        /\ (pc = "parse" \/ pc' = "parse") => pc' = pc /\ cur'.file = cur.file
    BY SameWorkSameVectors DEF SameWork, IndexInv, WorksOnActive
  <1>3. ActiveVectorsMatchChunks' /\ OneFilePerId'
    BY <1>1, SameWorkSameVectors
  <1>4. Given \in SUBSET Id /\ {} \in SUBSET Id /\ kept \in SUBSET File /\ kept2 \in SUBSET File
    BY DEF Given
  <1>5. /\ VectorsOf(vec, SoFar)' = VectorsOf(vec, SoFar)
        /\ VectorsOf(vec, Replacing(docs))' = VectorsOf(vec, Replacing(docs))
    BY <1>2, SameWorkSameVectors
  <1>6. /\ ReplacedVectors({})' = ReplacedVectors({})
        /\ KeptVectors(kept)' = KeptVectors(kept)
        /\ ReplacedVectors(Given)' = ReplacedVectors(Given)
        /\ KeptVectors(kept2)' = KeptVectors(kept2)
    <2>1. ReplacedVectors({})' = ReplacedVectors({})
      BY <1>4, SameWorkSameVectors
    <2>2. ReplacedVectors(Given)' = ReplacedVectors(Given)
      BY <1>4, SameWorkSameVectors DEF ReplacedVectors
    <2>3. KeptVectors(kept)' = KeptVectors(kept)
      BY <1>2, <1>4, SameWorkSameVectors DEF KeptVectors
    <2>4. KeptVectors(kept2)' = KeptVectors(kept2)
      BY <1>2, <1>4, SameWorkSameVectors DEF KeptVectors
    <2> QED
      BY <2>1, <2>2, <2>3, <2>4
  <1>7. /\ pc' \in Gathering =>
             /\ VectorsOf(vec, SoFar)' /\ ReplacedVectors({})' /\ KeptVectors(kept)'
             /\ pc' # "parse" /\ Replaced' = {} /\ oldGen' # 0 => vec' = files'[oldGen']
        /\ pc' = "parse" => \A id \in Id : HasChunk(cur'.file, docs'[cur'.file], id) => vec'[id] = NoText
    BY <1>1, <1>2, <1>5, <1>6, SameWorkSameVectors
       DEF VectorsInMemory, Gathering, Visiting, Storing
  <1>8. pc' \in Storing =>
             VectorsOf(vec, Replacing(docs))' /\ ReplacedVectors(Given)' /\ KeptVectors(kept2)'
    BY <1>1, <1>5, <1>6 DEF VectorsInMemory, Gathering, Visiting, Storing
  <1>9. /\ pc' \in {"idle", "generation", "vectors"} => vec' = NoChunks
        /\ pc' \in {"symbols", "publish"} => active' # 0 /\ vec' = files'[active']
    BY <1>1, <1>2 DEF VectorsInMemory, Gathering, Visiting, Storing
  <1>10. VectorsInMemory'
    BY <1>7, <1>8, <1>9 DEF VectorsInMemory
  <1> QED
    BY <1>3, <1>10

LEMMA InitEstablishesInv == Init => IndexInv
  <1> SUFFICES ASSUME Init PROVE IndexInv
    OBVIOUS
  <1> USE DEF Init
  <1>1. TypeOK
    <2>1. docs \in Docs /\ oldDocs \in Docs /\ repl \in Docs /\ vec \in Vectors
      BY ChunkFacts
    <2>2. active \in 0..MaxGeneration /\ oldGen \in 0..MaxGeneration
      BY IndexAssumption
    <2> QED
      BY <2>1, <2>2 DEF TypeOK, Docs, PcStates
  <1>2. ActiveVectorsMatchChunks /\ WorksOnActive /\ VisitedFiles /\ VectorsInMemory
        /\ VectorsOnDisk /\ SymbolsInProgress
    BY DEF ActiveVectorsMatchChunks, WorksOnActive, VisitedFiles, VectorsInMemory,
           VectorsOnDisk, SymbolsInProgress, Gathering, Visiting, Storing
  <1>3. OneFilePerId
    BY ChunkFacts DEF OneFilePerId, NoReplacement
  <1>4. SymbolsFollowDocuments
    BY DEF SymbolsFollowDocuments, UnitOf, NoReplacement
  <1> QED
    BY <1>1, <1>2, <1>3, <1>4 DEF IndexInv

\* The steps before the first file: the databases are opened, the generation
\* is read, the tree is scanned, the stored documents are listed.
LEMMA OpeningStepsKeepInv ==
    ASSUME IndexInv, Start \/ ReadGeneration \/ Scan \/ ReadDocuments
    PROVE  IndexInv'
  <1> USE DEF Start, ReadGeneration, Scan, ReadDocuments, store, locals, history
  <1>1. TypeOK'
    BY DEF IndexInv, TypeOK, PcStates
  <1>2. /\ UNCHANGED <<docs, syms, active, files, repl, vec, moved, symTodo, interrupted, cur>>
        /\ pc # "generation" => oldGen' = oldGen
        /\ <<pc, pc'>> \in {<<"idle", "generation">>, <<"generation", "vectors">>,
                            <<"scan", "documents">>, <<"documents", "file">>}
    OBVIOUS
  <1>3. WorksOnActive' /\ VisitedFiles'
    BY DEF IndexInv, WorksOnActive, VisitedFiles, Gathering, Visiting, Storing, Replaced,
           NoReplacement
  <1>4. SymbolsInProgress' /\ SymbolsFollowDocuments' /\ VectorsOnDisk'
    BY DEF IndexInv, SymbolsInProgress, SymbolsFollowDocuments, UnitOf, VectorsOnDisk
  <1>5. ActiveVectorsMatchChunks' /\ OneFilePerId'
    BY <1>2 DEF IndexInv, ActiveVectorsMatchChunks, OneFilePerId
  <1>6. VectorsInMemory'
    <2>1. CASE pc \in {"idle", "generation"}
      BY <1>2, <2>1 DEF IndexInv, VectorsInMemory, Gathering, Visiting, Storing
    <2>2. CASE pc \in {"scan", "documents"}
      <3>1. Replaced = {} /\ Replaced' = {} /\ SoFar' = SoFar
        BY <1>2, <2>2 DEF IndexInv, VisitedFiles, Visiting, Storing, Replaced, NoReplacement, SoFar
      <3>2. pc \in Gathering \ {"parse"} /\ pc' \in Gathering \ {"parse"} /\ oldGen' = oldGen
        BY <1>2, <2>2 DEF Gathering, Visiting
      <3>3. \A s : KeptVectors(s)' = KeptVectors(s)
        BY <1>2, <3>1 DEF KeptVectors, Contested
      <3>4. VectorsOf(vec, SoFar) /\ KeptVectors(File) /\ (oldGen # 0 => vec = files[oldGen])
        BY <3>1, <3>2 DEF IndexInv, VectorsInMemory
      <3>5. (File \ Replaced') \ {} = File
        BY <3>1
      <3>6. VectorsOf(vec, SoFar)' /\ ReplacedVectors({})' /\ KeptVectors(File)'
        BY <1>2, <3>1, <3>3, <3>4 DEF ReplacedVectors
      <3> QED
        BY <1>2, <2>2, <3>1, <3>2, <3>4, <3>5, <3>6
           DEF VectorsInMemory, Gathering, Visiting, Storing
    <2> QED
      BY <1>2, <2>1, <2>2
  <1> QED
    BY <1>1, <1>3, <1>4, <1>5, <1>6 DEF IndexInv

\* The vectors that are read are those of the stored documents.
LEMMA ReadVectorsKeepsInv == ASSUME IndexInv, ReadVectors PROVE IndexInv'
  <1> USE DEF ReadVectors, store, history
  <1>1. TypeOK'
    BY DEF IndexInv, TypeOK, PcStates
  <1>2. ActiveVectorsMatchChunks' /\ OneFilePerId'
    BY DEF IndexInv, ActiveVectorsMatchChunks, OneFilePerId
  <1>3. WorksOnActive' /\ VisitedFiles' /\ SymbolsInProgress' /\ VectorsOnDisk'
    BY DEF IndexInv, WorksOnActive, VisitedFiles, SymbolsInProgress, VectorsOnDisk,
           Gathering, Visiting, Storing
  <1>4. SymbolsFollowDocuments'
    BY DEF IndexInv, SymbolsFollowDocuments, UnitOf
  <1>5. /\ repl' = NoReplacement /\ docs' = docs /\ oldGen = active /\ oldGen' = oldGen
        /\ docs \in Docs /\ moved' = moved /\ files' = files
    BY DEF IndexInv, VisitedFiles, WorksOnActive, Visiting, Storing, TypeOK, Docs
  <1>6. Replaced' = {} /\ SoFar' = docs
    BY <1>5 DEF Replaced, SoFar, NoReplacement, Docs
  <1>7. VectorsOf(vec', docs) /\ VectorsFor(vec', docs, moved) /\ (oldGen # 0 => vec' = files[oldGen])
    <2>1. CASE oldGen = 0
      <3>1. vec' = NoChunks /\ docs = NoReplacement
        BY <1>5, <2>1 DEF IndexInv, VectorsInMemory, ActiveVectorsMatchChunks
      <3> QED
        BY <2>1, <3>1, ChunkFacts DEF VectorsOf, VectorsFor, NoChunks, NoReplacement
    <2>2. CASE oldGen # 0
      BY <1>5, <2>2 DEF IndexInv, ActiveVectorsMatchChunks
    <2> QED
      BY <2>1, <2>2
  <1>8. KeptVectors(File)' /\ ReplacedVectors({})'
    <2>1. \A f \in File, id \in Id : HasChunk(f, docs[f], id) =>
              vec'[id] = Chunks(f, docs[f])[id] \/ id \in moved
      BY <1>7 DEF VectorsFor
    <2> QED
      BY <1>5, <1>6, <2>1 DEF KeptVectors, ReplacedVectors
  <1>9. VectorsInMemory'
    <2>1. (File \ Replaced') \ {} = File /\ pc' = "scan"
      BY <1>6
    <2>2. VectorsOf(vec, SoFar)'
      BY <1>6, <1>7
    <2> QED
      BY <1>5, <1>7, <1>8, <2>1, <2>2 DEF VectorsInMemory, Gathering, Visiting, Storing
  <1> QED
    BY <1>1, <1>2, <1>3, <1>4, <1>9 DEF IndexInv

LEMMA HashFileKeepsInv ==
    ASSUME IndexInv, NEW f \in File, HashFile(f) PROVE IndexInv'
  <1>1. /\ pc = "file" /\ f \in todo /\ todo' = todo \ {f} /\ tree[f] # NoFile
        /\ \A g \in todo : ScanOrder[f] <= ScanOrder[g]
        /\ \/ cur' = cur /\ pc' = pc
           \/ /\ cur' = [file |-> f, hash |-> tree[f], text |-> NoFile, raced |-> FALSE]
              /\ pc' = "chunk"
        /\ UNCHANGED <<tree, docs, active, files, tmp, syms, handle, oldGen, vec, present,
                       oldDocs, repl, symTodo, quiet, interrupted, moved>>
    BY DEF HashFile, store, history
  <1>2. TypeOK'
    <2>1. TypeOK /\ tree[f] \in Content
      BY <1>1 DEF IndexInv, TypeOK
    <2>2. CASE cur' = cur /\ pc' = pc
      BY <1>1, <2>1, <2>2 DEF TypeOK
    <2>3. CASE pc' = "chunk" /\ cur' = [file |-> f, hash |-> tree[f], text |-> NoFile,
                                       raced |-> FALSE]
      <3>1. cur' \in Reading
        BY <2>1, <2>3 DEF Reading
      <3> QED
        BY <1>1, <2>1, <2>3, <3>1 DEF TypeOK, PcStates
    <2> QED
      BY <1>1, <2>2, <2>3
  <1>3. WorksOnActive' /\ SymbolsInProgress' /\ VectorsOnDisk' /\ SymbolsFollowDocuments'
    BY <1>1 DEF IndexInv, WorksOnActive, SymbolsInProgress, VectorsOnDisk,
                SymbolsFollowDocuments, UnitOf, Gathering, Visiting, Storing
  <1>4. VisitedFiles'
    <2>1. /\ Replaced' = Replaced /\ Replaced \subseteq present /\ Replaced \subseteq File
          /\ todo \subseteq present \ Replaced /\ todo \subseteq File
          /\ \A g \in Replaced, h \in todo : ScanOrder[g] < ScanOrder[h]
      BY <1>1 DEF IndexInv, VisitedFiles, Visiting, Replaced, TypeOK
    <2>2. \A g \in todo \ {f} : ScanOrder[f] < ScanOrder[g]
      <3>1. \A g \in File : ScanOrder[g] \in Nat /\ (ScanOrder[f] = ScanOrder[g] => f = g)
        BY IndexAssumption
      <3> QED
        BY <1>1, <2>1, <3>1
    <2> QED
      BY <1>1, <2>1, <2>2 DEF VisitedFiles, Visiting, Storing
  <1>5. ActiveVectorsMatchChunks' /\ OneFilePerId' /\ VectorsInMemory'
    BY <1>1, SameWorkKeepsVectors DEF SameWork, Gathering, Visiting
  <1> QED
    BY <1>2, <1>3, <1>4, <1>5 DEF IndexInv

\* The old chunks of the file lose their vectors; a replacement that has one
\* of their ids is before the file in the scan.
LEMMA ChunkFileKeepsInv == ASSUME IndexInv, ChunkFile PROVE IndexInv'
  <1>0. PICK F : F = cur.file
    OBVIOUS
  <1>1. /\ pc = "chunk" /\ pc' = "parse" /\ tree[F] # NoFile
        /\ vec' = IF oldDocs[F] # NoDoc THEN Erase(vec, Chunks(F, docs[F])) ELSE vec
        /\ cur' = [cur EXCEPT !.text = tree[F]]
        /\ UNCHANGED <<tree, docs, active, files, tmp, syms, handle, oldGen, present,
                       oldDocs, todo, repl, symTodo, quiet, interrupted, moved>>
    BY <1>0 DEF ChunkFile, store, history
  <1>2. /\ cur \in Reading /\ F \in File /\ tree[F] \in Content
        /\ docs \in Docs /\ vec \in Vectors /\ oldDocs = docs
        /\ F \in present \ (todo \cup Replaced) /\ cur'.file = F
    BY <1>0, <1>1 DEF IndexInv, TypeOK, Reading, Docs, WorksOnActive, VisitedFiles, Visiting
  <1>3. /\ vec' \in Vectors
        /\ \A id \in Id : vec'[id] = IF HasChunk(F, docs[F], id) THEN NoText ELSE vec[id]
    <2>1. Chunks(F, docs[F]) \in Vectors
      BY <1>2, ChunkFacts DEF Docs
    <2>2. CASE docs[F] # NoDoc
      BY <1>1, <1>2, <2>1, <2>2, VectorFacts DEF HasChunk
    <2>3. CASE docs[F] = NoDoc
      BY <1>1, <1>2, <2>3, ChunkFacts
    <2> QED
      BY <2>2, <2>3
  <1>4. TypeOK'
    BY <1>1, <1>2, <1>3 DEF IndexInv, TypeOK, PcStates, Reading
  <1>5. WorksOnActive' /\ SymbolsInProgress' /\ VectorsOnDisk' /\ SymbolsFollowDocuments'
    BY <1>1 DEF IndexInv, WorksOnActive, SymbolsInProgress, VectorsOnDisk,
                SymbolsFollowDocuments, UnitOf, Gathering, Visiting, Storing
  <1>6. Replaced' = Replaced /\ SoFar' = SoFar
    BY <1>1 DEF Replaced, SoFar
  <1>7. VisitedFiles'
    BY <1>0, <1>1, <1>2, <1>6 DEF IndexInv, VisitedFiles, Visiting, Storing
  <1>8. ActiveVectorsMatchChunks' /\ OneFilePerId'
    BY <1>1 DEF IndexInv, ActiveVectorsMatchChunks, OneFilePerId
  <1>9. VectorsOf(vec, SoFar) /\ ReplacedVectors({}) /\ KeptVectors(File \ Replaced)
    BY <1>1 DEF IndexInv, VectorsInMemory, Gathering, Visiting
  <1>10. VectorsOf(vec', SoFar)
    BY <1>3, <1>9 DEF VectorsOf
  <1>11. ReplacedVectors({})'
    <2> SUFFICES ASSUME NEW f \in Replaced, NEW id \in Id, HasChunk(f, repl[f], id)
                 PROVE  vec'[id] = Chunks(f, repl[f])[id] \/ Contested(f, id)' \/ ErasedAfter(f, id)'
      BY <1>1, <1>6 DEF ReplacedVectors
    <2>1. vec[id] = Chunks(f, repl[f])[id] \/ Contested(f, id) \/ ErasedAfter(f, id)
      BY <1>9 DEF ReplacedVectors
    <2>2. Contested(f, id) => Contested(f, id)'
      BY <1>1, <1>6 DEF Contested
    <2>3. ErasedAfter(f, id) => ErasedAfter(f, id)'
      BY <1>1, <1>6 DEF ErasedAfter
    <2>4. HasChunk(F, docs[F], id) => ErasedAfter(f, id)'
      <3>1. ScanOrder[f] < ScanOrder[F]
        BY <1>0, <1>1 DEF IndexInv, VisitedFiles
      <3> QED
        BY <1>1, <1>2, <3>1 DEF ErasedAfter
    <2> QED
      BY <1>3, <2>1, <2>2, <2>3, <2>4
  <1>12. KeptVectors((File \ Replaced) \ {F})'
    <2>1. ASSUME NEW f \in (File \ Replaced) \ {F}, NEW id \in Id, HasChunk(f, docs[f], id)
          PROVE  vec'[id] = Chunks(f, docs[f])[id] \/ Contested(f, id)' \/ id \in moved
      <3>1. ~HasChunk(F, docs[F], id)
        BY <1>2, <2>1 DEF IndexInv, OneFilePerId
      <3>2. Contested(f, id) => Contested(f, id)'
        BY <1>1, <1>6 DEF Contested
      <3> QED
        BY <1>3, <1>9, <2>1, <3>1, <3>2 DEF KeptVectors
    <2> QED
      BY <1>1, <1>6, <2>1 DEF KeptVectors
  <1>13. VectorsInMemory'
    <2>1. \A id \in Id : HasChunk(F, docs'[F], id) => vec'[id] = NoText
      BY <1>1, <1>3
    <2>2. VectorsOf(vec, SoFar)'
      BY <1>6, <1>10
    <2> QED
      BY <1>1, <1>2, <1>6, <1>11, <1>12, <2>1, <2>2
         DEF VectorsInMemory, Gathering, Visiting, Storing
  <1> QED
    BY <1>4, <1>5, <1>7, <1>8, <1>13 DEF IndexInv

\* The new chunks of the file get their vectors; whoever had one of their ids
\* is contested from now on.
LEMMA ParseFileKeepsInv == ASSUME IndexInv, ParseFile PROVE IndexInv'
  <1>0. PICK F : F = cur.file
    OBVIOUS
  <1>1. PICK d \in Outcomes :
        /\ vec' = Assign(vec, Chunks(F, d))
        /\ repl' = [repl EXCEPT ![F] = d]
    BY <1>0 DEF ParseFile
  <1>2. /\ pc = "parse" /\ pc' = "file" /\ tree[F] # NoFile /\ cur' = NoDoc
        /\ UNCHANGED <<tree, docs, active, files, tmp, syms, handle, oldGen, present,
                       oldDocs, todo, symTodo, quiet, interrupted, moved>>
    BY <1>0 DEF ParseFile, store, history
  <1>3. /\ cur \in Reading /\ cur.text \in Content /\ F \in File /\ tree[F] \in Content
        /\ docs \in Docs /\ repl \in Docs /\ vec \in Vectors
        /\ F \in present \ (todo \cup Replaced)
    BY <1>0, <1>2 DEF IndexInv, TypeOK, Reading, Docs, VisitedFiles
  <1>4. d \in Document /\ d # NoDoc
    BY <1>0, <1>1, <1>3, IndexAssumption, NoDocAssumption DEF Outcomes, Document, Reading
  <1>5. /\ vec' \in Vectors
        /\ \A id \in Id : vec'[id] = IF HasChunk(F, d, id) THEN Chunks(F, d)[id] ELSE vec[id]
    <2>1. Chunks(F, d) \in Vectors
      BY <1>3, <1>4, ChunkFacts
    <2> QED
      BY <1>1, <1>3, <2>1, VectorFacts DEF HasChunk
  <1>6. TypeOK'
    BY <1>1, <1>2, <1>3, <1>4, <1>5 DEF IndexInv, TypeOK, PcStates
  <1>7. WorksOnActive' /\ SymbolsInProgress' /\ VectorsOnDisk' /\ SymbolsFollowDocuments'
    BY <1>2 DEF IndexInv, WorksOnActive, SymbolsInProgress, VectorsOnDisk,
                SymbolsFollowDocuments, UnitOf, Gathering, Visiting, Storing
  <1>8. /\ Replaced' = Replaced \cup {F}
        /\ \A f \in File : repl'[f] = IF f = F THEN d ELSE repl[f]
        /\ \A f \in File : SoFar'[f] = IF f = F THEN d ELSE SoFar[f]
        /\ SoFar[F] = docs[F]
    BY <1>1, <1>2, <1>3, <1>4 DEF Replaced, SoFar, Docs
  <1>9. VisitedFiles'
    BY <1>0, <1>2, <1>3, <1>8 DEF IndexInv, VisitedFiles, Visiting, Storing
  <1>10. ActiveVectorsMatchChunks' /\ OneFilePerId'
    BY <1>2 DEF IndexInv, ActiveVectorsMatchChunks, OneFilePerId
  <1>11. /\ VectorsOf(vec, SoFar) /\ ReplacedVectors({}) /\ KeptVectors((File \ Replaced) \ {F})
         /\ \A id \in Id : HasChunk(F, docs[F], id) => vec[id] = NoText
    BY <1>0, <1>2 DEF IndexInv, VectorsInMemory, Gathering, Visiting
  <1>12. VectorsOf(vec, SoFar)'
    <2> SUFFICES ASSUME NEW id \in Id, vec'[id] # NoText
                 PROVE  \E f \in File : Chunks(f, SoFar'[f])[id] = vec'[id]
      BY DEF VectorsOf
    <2>1. CASE HasChunk(F, d, id)
      BY <1>3, <1>5, <1>8, <2>1
    <2>2. CASE ~HasChunk(F, d, id)
      <3>1. PICK f \in File : Chunks(f, SoFar[f])[id] = vec[id]
        BY <1>5, <1>11, <2>2 DEF VectorsOf
      <3>2. f # F
        BY <1>5, <1>8, <1>11, <2>2, <3>1 DEF HasChunk
      <3> QED
        BY <1>5, <1>8, <2>2, <3>1, <3>2
    <2> QED
      BY <2>1, <2>2
  <1>13. ASSUME NEW f \in File, NEW id \in Id, f # F
         PROVE  HasChunk(F, d, id) \/ Contested(f, id) => Contested(f, id)'
    <2>1. ASSUME Contested(f, id) PROVE Contested(f, id)'
      <3>1. PICK g \in Replaced \ {f} : HasChunk(g, repl[g], id)
        BY <2>1 DEF Contested
      <3>2. g # F /\ g \in File
        BY <1>3, <3>1 DEF Replaced
      <3> QED
        BY <1>8, <3>1, <3>2 DEF Contested
    <2>2. ASSUME HasChunk(F, d, id) PROVE Contested(f, id)'
      BY <1>3, <1>8, <1>13, <2>2 DEF Contested
    <2> QED
      BY <2>1, <2>2
  <1>14. ReplacedVectors({})'
    <2> SUFFICES ASSUME NEW f \in Replaced', NEW id \in Id, HasChunk(f, repl'[f], id)
                 PROVE  vec'[id] = Chunks(f, repl'[f])[id] \/ Contested(f, id)' \/ ErasedAfter(f, id)'
      BY DEF ReplacedVectors
    <2>1. CASE f = F
      BY <1>3, <1>5, <1>8, <2>1
    <2>2. CASE f # F
      <3>1. f \in Replaced /\ f \in File /\ repl'[f] = repl[f]
        BY <1>8, <2>2 DEF Replaced
      <3>2. vec[id] = Chunks(f, repl[f])[id] \/ Contested(f, id) \/ ErasedAfter(f, id)
        BY <1>11, <3>1 DEF ReplacedVectors
      <3>3. ErasedAfter(f, id) => ErasedAfter(f, id)'
        BY <1>0, <1>2, <1>8 DEF ErasedAfter
      <3> QED
        BY <1>5, <1>13, <2>2, <3>1, <3>2, <3>3
    <2> QED
      BY <2>1, <2>2
  <1>15. KeptVectors(File \ Replaced)'
    <2> SUFFICES ASSUME NEW f \in File \ Replaced', NEW id \in Id, HasChunk(f, docs'[f], id)
                 PROVE  vec'[id] = Chunks(f, docs'[f])[id] \/ Contested(f, id)' \/ id \in moved'
      BY DEF KeptVectors
    <2>1. f \in (File \ Replaced) \ {F} /\ docs'[f] = docs[f] /\ moved' = moved
      BY <1>2, <1>8
    <2>2. vec[id] = Chunks(f, docs[f])[id] \/ Contested(f, id) \/ id \in moved
      BY <1>11, <2>1 DEF KeptVectors
    <2> QED
      BY <1>5, <1>13, <2>1, <2>2
  <1>16. VectorsInMemory'
    <2>1. (File \ Replaced') \ {} = File \ Replaced' /\ Replaced' # {}
      BY <1>8
    <2> QED
      BY <1>2, <1>12, <1>14, <1>15, <2>1 DEF VectorsInMemory, Gathering, Visiting, Storing
  <1> QED
    BY <1>6, <1>7, <1>9, <1>10, <1>16 DEF IndexInv

\* The ids of the removed files lose their vectors: the removed files had
\* them alone, or have given them to a replacement.
LEMMA FindRemovalsKeepsInv == ASSUME IndexInv, FindRemovals PROVE IndexInv'
  <1> DEFINE Lost(id) == \E f \in Removed : HasChunk(f, docs[f], id)
  <1>1. /\ pc = "file"
        /\ vec' = [id \in Id |-> IF Lost(id) THEN NoText ELSE vec[id]]
        /\ pc' = IF Removed = {} /\ Replaced = {} /\ oldGen # 0 THEN "publish" ELSE "open"
        /\ UNCHANGED <<tree, docs, active, files, tmp, syms, handle, oldGen, present,
                       oldDocs, todo, cur, repl, symTodo, quiet, interrupted, moved>>
    BY DEF FindRemovals, NothingToStore, store, history
  <1>2. /\ oldDocs = docs /\ Replaced \subseteq present /\ oldGen = active /\ vec \in Vectors
        /\ VectorsOf(vec, SoFar) /\ ReplacedVectors({}) /\ KeptVectors(File \ Replaced)
        /\ Replaced = {} /\ oldGen # 0 => vec = files[oldGen]
    BY <1>1 DEF IndexInv, WorksOnActive, VisitedFiles, VectorsInMemory, Gathering, Visiting,
                TypeOK
  <1>3. vec' \in Vectors /\ \A id \in Id : vec'[id] = IF Lost(id) THEN NoText ELSE vec[id]
    BY <1>1, <1>2 DEF Vectors
  <1>4. /\ Removed' = Removed /\ Replaced' = Replaced /\ Given' = Given
        /\ Replacing(docs)' = Replacing(docs)
        /\ \A f, id : Contested(f, id)' = Contested(f, id)
        /\ \A f, id : ErasedAfter(f, id)' = ErasedAfter(f, id)
    BY <1>1 DEF Removed, Replaced, Replacing, Given, Contested, ErasedAfter
  <1>5. \A f \in Removed : f \in File /\ repl[f] = NoDoc /\ f \notin Replaced
    BY <1>2 DEF Removed, Replaced
  <1>6. TypeOK'
    BY <1>1, <1>3 DEF IndexInv, TypeOK, PcStates
  <1>7. WorksOnActive' /\ SymbolsInProgress' /\ VectorsOnDisk' /\ SymbolsFollowDocuments'
    BY <1>1 DEF IndexInv, WorksOnActive, SymbolsInProgress, VectorsOnDisk,
                SymbolsFollowDocuments, UnitOf, Gathering, Visiting, Storing
  <1>8. VisitedFiles' /\ ActiveVectorsMatchChunks' /\ OneFilePerId'
    BY <1>1, <1>4 DEF IndexInv, VisitedFiles, Visiting, Storing, ActiveVectorsMatchChunks,
                      OneFilePerId
  <1>9. VectorsOf(vec', Replacing(docs))
    <2> SUFFICES ASSUME NEW id \in Id, vec'[id] # NoText
                 PROVE  \E f \in File : Chunks(f, Replacing(docs)[f])[id] = vec'[id]
      BY DEF VectorsOf
    <2>1. ~Lost(id) /\ vec'[id] = vec[id]
      BY <1>3
    <2>2. PICK f \in File : Chunks(f, SoFar[f])[id] = vec[id]
      BY <1>2, <2>1 DEF VectorsOf
    <2>3. f \notin Removed
      BY <1>5, <2>1, <2>2 DEF HasChunk, SoFar
    <2>4. Replacing(docs)[f] = SoFar[f]
      BY <2>3 DEF Replacing, SoFar, Replaced
    <2> QED
      BY <2>1, <2>2, <2>4
  <1>10. ReplacedVectors(Given)'
    <2> SUFFICES ASSUME NEW f \in Replaced, NEW id \in Id, HasChunk(f, repl[f], id)
                 PROVE  \/ vec'[id] = Chunks(f, repl[f])[id] \/ Contested(f, id)
                        \/ ErasedAfter(f, id) \/ id \in Given
      BY <1>1, <1>4 DEF ReplacedVectors
    <2>1. Lost(id) => id \in Given
      BY DEF Given
    <2> QED
      BY <1>2, <1>3, <2>1 DEF ReplacedVectors
  <1>11. KeptVectors(File \ (Replaced \cup Removed))'
    <2> SUFFICES ASSUME NEW f \in File \ (Replaced \cup Removed), NEW id \in Id,
                        HasChunk(f, docs[f], id)
                 PROVE  vec'[id] = Chunks(f, docs[f])[id] \/ Contested(f, id) \/ id \in moved
      BY <1>1, <1>4 DEF KeptVectors
    <2>1. ~Lost(id)
      BY <1>5 DEF IndexInv, OneFilePerId
    <2> QED
      BY <1>2, <1>3, <2>1 DEF KeptVectors
  <1>12. VectorsInMemory'
    <2>1. CASE Removed = {} /\ Replaced = {} /\ oldGen # 0
      <3>1. vec' = vec
        BY <1>2, <1>3, <2>1 DEF Vectors
      <3> QED
        BY <1>1, <1>2, <2>1, <3>1 DEF VectorsInMemory, Gathering, Visiting, Storing
    <2>2. CASE ~(Removed = {} /\ Replaced = {} /\ oldGen # 0)
      <3>1. VectorsOf(vec, Replacing(docs))'
        BY <1>4, <1>9
      <3>2. pc' = "open"
        BY <1>1, <2>2
      <3> QED
        BY <1>10, <1>11, <3>1, <3>2 DEF VectorsInMemory, Gathering, Visiting, Storing
    <2> QED
      BY <2>1, <2>2
  <1> QED
    BY <1>6, <1>7, <1>8, <1>12 DEF IndexInv

\* The steps that write the temporary file, rename it and read it back.
LEMMA WriteStepsKeepInv ==
    ASSUME IndexInv, OpenTemporary \/ FillTemporary \/ Rename \/ Verify
    PROVE  IndexInv'
  <1>1. /\ pc \in {"open", "fill", "rename", "verify"}
        /\ pc' \in {"fill", "rename", "verify", "commit"}
        /\ UNCHANGED <<tree, docs, active, syms, handle, oldGen, vec, present, oldDocs,
                       todo, cur, repl, symTodo, quiet, interrupted, moved>>
    BY DEF OpenTemporary, FillTemporary, Rename, Verify, store, locals, history
  <1>2. NewGen \in Gen /\ NewGen' = NewGen /\ NewGen # active /\ vec \in Vectors
    <2>1. /\ oldGen = active /\ active < MaxGeneration /\ active \in 0..MaxGeneration
          /\ vec \in Vectors
      BY <1>1 DEF IndexInv, WorksOnActive, TypeOK, Storing
    <2> QED
      BY <2>1, <1>1, IndexAssumption DEF NewGen, Gen
  <1>3. /\ tmp' \in [Gen -> Vectors \cup {NoVectors, Torn}]
        /\ files' \in [Gen -> Vectors \cup {NoVectors, Torn}]
    BY <1>2 DEF OpenTemporary, FillTemporary, Rename, Verify, IndexInv, TypeOK, store
  <1>4. TypeOK'
    BY <1>1, <1>3 DEF IndexInv, TypeOK, PcStates
  <1>5. WorksOnActive' /\ SymbolsInProgress' /\ SymbolsFollowDocuments' /\ VisitedFiles'
    <2>1. Replaced' = Replaced
      BY <1>1 DEF Replaced
    <2> QED
      BY <1>1, <2>1 DEF IndexInv, WorksOnActive, SymbolsInProgress, SymbolsFollowDocuments,
                        UnitOf, VisitedFiles, Gathering, Visiting, Storing
  <1>6. active # 0 => files'[active] = files[active]
    <2>1. active # 0 => active \in Gen
      BY DEF IndexInv, TypeOK, Gen
    <2> QED
      BY <2>1, <1>2 DEF OpenTemporary, FillTemporary, Rename, Verify, IndexInv, TypeOK, store
  <1>7. ActiveVectorsMatchChunks' /\ OneFilePerId' /\ VectorsInMemory'
    BY <1>1, <1>6, SameWorkKeepsVectors DEF SameWork, Storing
  <1>8. VectorsOnDisk'
    BY <1>1, <1>2 DEF OpenTemporary, FillTemporary, Rename, Verify, IndexInv, VectorsOnDisk,
                      TypeOK, store
  <1> QED
    BY <1>4, <1>5, <1>7, <1>8 DEF IndexInv

\* The transaction switches the documents and the generation together; the
\* primary key rules out that a vector it needs was erased or replaced for
\* another file, unless its id came from a removed file.
LEMMA CommitKeepsInv == ASSUME IndexInv, Commit PROVE IndexInv'
  <1>1. /\ pc = "commit" /\ pc' = "symbols" /\ KeysFree
        /\ docs' = Replacing(docs)
        /\ active' = NewGen
        /\ symTodo' = IF Semantic THEN Removed \cup Replaced ELSE {}
        /\ moved' = (moved \ AssignedAnew) \cup Given
        /\ UNCHANGED <<tree, files, tmp, syms, handle, oldGen, vec, present, oldDocs,
                       todo, cur, repl, quiet, interrupted>>
    BY DEF Commit, SymbolWork
  <1>2. /\ oldGen = active /\ active < MaxGeneration /\ oldDocs = docs
        /\ Replaced \subseteq present /\ vec \in Vectors /\ files[NewGen] = vec
        /\ VectorsOf(vec, Replacing(docs)) /\ ReplacedVectors(Given)
        /\ KeptVectors(File \ (Replaced \cup Removed))
    BY <1>1 DEF IndexInv, WorksOnActive, VisitedFiles, VectorsInMemory, VectorsOnDisk,
                Storing, Gathering, Visiting, TypeOK
  <1>3. active' \in 0..MaxGeneration /\ active' # 0
    BY <1>1, <1>2, IndexAssumption DEF IndexInv, TypeOK, NewGen
  <1>4. docs' \in [File -> Document \cup {NoDoc}] /\ moved' \subseteq Id
    BY <1>1 DEF IndexInv, Replacing, TypeOK, Given
  <1>5. TypeOK'
    BY <1>1, <1>3, <1>4 DEF IndexInv, TypeOK, PcStates, Removed, Replaced
  <1>6. WorksOnActive' /\ VisitedFiles' /\ VectorsOnDisk'
    BY <1>1 DEF WorksOnActive, VisitedFiles, VectorsOnDisk, Gathering, Visiting, Storing
  <1>7. \A f \in File :
            /\ f \in Removed => docs'[f] = NoDoc /\ repl[f] = NoDoc /\ f \notin Replaced
            /\ f \in Replaced => docs'[f] = repl[f]
            /\ f \notin Removed \cup Replaced => docs'[f] = docs[f]
    BY <1>1, <1>2 DEF Removed, Replaced, Replacing
  <1>8. ASSUME NEW f \in Replaced, NEW g \in File, NEW id \in Id, f # g,
               HasChunk(f, repl[f], id)
        PROVE  /\ ~HasChunk(g, docs'[g], id)
               /\ g \in Replaced /\ ScanOrder[f] < ScanOrder[g] => ~HasChunk(g, docs[g], id)
    BY <1>1, <1>8 DEF KeysFree
  <1>9. Replaced \subseteq File
    BY DEF Replaced
  <1>10. OneFilePerId'
    <2> SUFFICES ASSUME NEW f \in File, NEW g \in File, NEW id \in Id, f # g,
                        HasChunk(f, docs'[f], id), HasChunk(g, docs'[g], id)
                 PROVE  FALSE
      BY DEF OneFilePerId
    <2>1. f \notin Replaced /\ g \notin Replaced
      BY <1>7, <1>8
    <2>2. docs'[f] = docs[f] /\ docs'[g] = docs[g]
      BY <1>7, <2>1, ChunkFacts
    <2> QED
      BY <2>2 DEF IndexInv, OneFilePerId
  <1>11. VectorsFor(vec, docs', moved')
    <2> SUFFICES ASSUME NEW f \in File, NEW id \in Id \ moved', HasChunk(f, docs'[f], id)
                 PROVE  vec[id] = Chunks(f, docs'[f])[id]
      BY DEF VectorsFor
    <2>1. ~Contested(f, id)
      BY <1>7, <1>8, <1>9 DEF Contested
    <2>2. CASE f \in Replaced
      <3>0. \A g \in File : ScanOrder[f] < ScanOrder[g] => f # g
        BY IndexAssumption
      <3>1. ~ErasedAfter(f, id)
        BY <1>1, <1>7, <1>8, <1>9, <2>2, <3>0 DEF ErasedAfter
      <3>2. id \notin Given
        BY <1>1
      <3> QED
        BY <1>2, <1>7, <2>1, <2>2, <3>1, <3>2 DEF ReplacedVectors
    <2>3. CASE f \notin Replaced
      <3>1. f \notin Removed /\ docs'[f] = docs[f]
        BY <1>7, <2>3, ChunkFacts
      <3>2. id \notin AssignedAnew
        BY <1>8, <2>3 DEF AssignedAnew
      <3>3. id \notin moved
        BY <1>1, <3>2
      <3> QED
        BY <1>2, <2>1, <2>3, <3>1, <3>3 DEF KeptVectors
    <2> QED
      BY <2>2, <2>3
  <1>12. ActiveVectorsMatchChunks'
    BY <1>1, <1>2, <1>3, <1>11 DEF ActiveVectorsMatchChunks
  <1>13. VectorsInMemory'
    BY <1>1, <1>2, <1>3 DEF VectorsInMemory, Gathering, Visiting, Storing
  <1>14. SymbolsInProgress'
    BY <1>1, <1>7 DEF SymbolsInProgress, Removed, Replaced
  <1>15. SymbolsFollowDocuments'
    <2>1. SUFFICES ASSUME Semantic, ~interrupted', NEW f \in File \ symTodo'
                   PROVE  syms'[f] = UnitOf(docs'[f])
      BY DEF SymbolsFollowDocuments, UnitOf
    <2>2. docs'[f] = docs[f] /\ symTodo = {}
      BY <2>1, <1>1, <1>7 DEF IndexInv, SymbolsInProgress
    <2> QED
      BY <2>1, <2>2, <1>1 DEF IndexInv, SymbolsFollowDocuments
  <1> QED
    BY <1>5, <1>6, <1>10, <1>12, <1>13, <1>14, <1>15 DEF IndexInv

\* The symbol transactions and the end of their loop.
LEMMA SymbolStepsKeepInv ==
    ASSUME IndexInv, (\E f \in File : ReplaceSymbols(f)) \/ SymbolsDone
    PROVE  IndexInv'
  <1>1. /\ pc = "symbols" /\ pc' \in {"symbols", "publish"}
        /\ UNCHANGED <<tree, docs, active, files, tmp, handle, oldGen, vec, present, oldDocs,
                       todo, cur, repl, quiet, interrupted, moved>>
    BY DEF ReplaceSymbols, SymbolsDone, store, locals, history
  <1>2. ActiveVectorsMatchChunks' /\ OneFilePerId' /\ VectorsInMemory'
    BY <1>1, SameWorkKeepsVectors DEF SameWork
  <1>3. WorksOnActive' /\ VisitedFiles' /\ VectorsOnDisk'
    BY <1>1 DEF WorksOnActive, VisitedFiles, VectorsOnDisk, Gathering, Visiting, Storing
  <1>4. CASE SymbolsDone
    <2>1. UNCHANGED <<syms, symTodo>> /\ symTodo = {}
      BY <1>4 DEF SymbolsDone, store, locals
    <2>2. TypeOK' /\ SymbolsInProgress' /\ SymbolsFollowDocuments'
      BY <1>1, <2>1 DEF IndexInv, TypeOK, PcStates, SymbolsInProgress,
                        SymbolsFollowDocuments, UnitOf
    <2> QED
      BY <1>2, <1>3, <2>2 DEF IndexInv
  <1>5. ASSUME NEW f \in File, ReplaceSymbols(f) PROVE IndexInv'
    <2>1. /\ f \in symTodo /\ syms' = [syms EXCEPT ![f] = UnitOf(repl[f])]
          /\ symTodo' = symTodo \ {f} /\ pc' = pc
      BY <1>5 DEF ReplaceSymbols
    <2>2. UnitOf(repl[f]) \in Unit \cup {NoUnit}
      BY DEF IndexInv, UnitOf, TypeOK, Document
    <2>3. TypeOK' /\ SymbolsInProgress'
      BY <1>1, <2>1, <2>2 DEF IndexInv, TypeOK, PcStates, SymbolsInProgress
    <2>4. repl[f] = docs[f]
      BY <2>1 DEF IndexInv, SymbolsInProgress
    <2>5. SymbolsFollowDocuments'
      BY <1>1, <2>1, <2>4 DEF IndexInv, SymbolsFollowDocuments, UnitOf, TypeOK
    <2> QED
      BY <1>2, <1>3, <2>3, <2>5 DEF IndexInv
  <1> QED
    BY <1>4, <1>5

\* Returning, throwing and being killed forget the locals and keep the store.
LEMMA EndStepsKeepInv ==
    ASSUME IndexInv, Publish \/ Throw \/ Crash
    PROVE  IndexInv'
  <1>1. /\ pc' = "idle"
        /\ oldGen' = 0 /\ vec' = NoChunks /\ present' = {}
        /\ oldDocs' = NoReplacement /\ todo' = {} /\ cur' = NoDoc
        /\ repl' = NoReplacement /\ symTodo' = {}
        /\ handle' \in {handle, NoVectors, vec}
        /\ UNCHANGED <<tree, docs, active, files, tmp, syms, quiet, moved>>
    BY DEF Publish, Snapshot, Throw, Crash, LocalsReset, store, history
  <1>2. /\ interrupted' \in BOOLEAN
        /\ interrupted' <=> (interrupted \/ symTodo # {})
    <2>1. (symTodo # {} => pc = "symbols") /\ interrupted \in BOOLEAN
      BY DEF IndexInv, SymbolsInProgress, TypeOK
    <2>2. CASE Publish
      <3>1. interrupted' = interrupted /\ symTodo = {}
        BY <2>1, <2>2 DEF Publish, history
      <3> QED
        BY <3>1, <2>1
    <2>3. CASE Throw \/ Crash
      <3>1. interrupted' = (interrupted \/ (pc = "symbols" /\ symTodo # {}))
        BY <2>3 DEF Throw, Crash, Interruption
      <3> QED
        BY <3>1, <2>1
    <2> QED
      BY <2>2, <2>3
  <1>3. TypeOK'
    <2>1. 0 \in 0..MaxGeneration
      BY IndexAssumption
    <2> QED
      BY <1>1, <1>2, <2>1, ChunkFacts DEF IndexInv, TypeOK, PcStates, Docs
  <1>4. ActiveVectorsMatchChunks' /\ OneFilePerId' /\ WorksOnActive' /\ VisitedFiles'
    BY <1>1 DEF IndexInv, ActiveVectorsMatchChunks, OneFilePerId, WorksOnActive, VisitedFiles,
                Gathering, Visiting, Storing
  <1>5. VectorsInMemory' /\ VectorsOnDisk' /\ SymbolsInProgress'
    BY <1>1 DEF VectorsInMemory, VectorsOnDisk, SymbolsInProgress, Gathering, Visiting, Storing
  <1>6. SymbolsFollowDocuments'
    BY <1>1, <1>2 DEF IndexInv, SymbolsFollowDocuments, UnitOf
  <1> QED
    BY <1>3, <1>4, <1>5, <1>6 DEF IndexInv

\* Editing the repository, and doing nothing.
LEMMA EnvironmentKeepsInv ==
    ASSUME IndexInv,
           \/ \E f \in File, c \in Content \cup {NoFile} : Edit(f, c)
           \/ UNCHANGED vars
    PROVE  IndexInv'
  <1>1. /\ tree' \in [File -> Content \cup {NoFile}] /\ quiet' \in BOOLEAN
        /\ UNCHANGED <<docs, active, files, tmp, syms, handle, pc, oldGen, vec, present,
                       oldDocs, todo, repl, symTodo, interrupted, moved>>
    BY DEF IndexInv, Edit, vars, store, locals, history, TypeOK
  <1>2. IF pc \in {"chunk", "parse"}
        THEN cur' \in Reading /\ cur'.file = cur.file /\ cur'.text = cur.text
        ELSE cur' = NoDoc
    <2>1. cur' = cur \/ (cur # NoDoc /\ cur' = [cur EXCEPT !.raced = TRUE])
      BY DEF Edit, Race, vars, locals
    <2>2. IF pc \in {"chunk", "parse"} THEN cur \in Reading ELSE cur = NoDoc
      BY DEF IndexInv, TypeOK
    <2> QED
      BY <2>1, <2>2 DEF Reading
  <1>3. TypeOK'
    BY <1>1, <1>2 DEF IndexInv, TypeOK
  <1>4. ActiveVectorsMatchChunks' /\ OneFilePerId' /\ VectorsInMemory'
    BY <1>1, <1>2, SameWorkKeepsVectors DEF SameWork
  <1>5. WorksOnActive' /\ VectorsOnDisk' /\ SymbolsInProgress' /\ SymbolsFollowDocuments'
    BY <1>1 DEF IndexInv, WorksOnActive, VectorsOnDisk, SymbolsInProgress, NewGen,
                SymbolsFollowDocuments, UnitOf
  <1>6. VisitedFiles'
    <2>1. Replaced' = Replaced
      BY <1>1 DEF Replaced
    <2> QED
      BY <1>1, <1>2, <2>1 DEF IndexInv, VisitedFiles
  <1> QED
    BY <1>3, <1>4, <1>5, <1>6 DEF IndexInv

\* Every step keeps the invariant.
LEMMA NextKeepsInv == IndexInv /\ [Next]_vars => IndexInv'
  BY OpeningStepsKeepInv, ReadVectorsKeepsInv, HashFileKeepsInv, ChunkFileKeepsInv,
     ParseFileKeepsInv, FindRemovalsKeepsInv, WriteStepsKeepInv, CommitKeepsInv,
     SymbolStepsKeepInv, EndStepsKeepInv, EnvironmentKeepsInv, Zenon
  DEF Next, UpdateStep

\* Every reachable state satisfies the inductive invariant: at each step of
\* update() the vectors in memory are those of the documents as they will be,
\* up to the ids that files share.
THEOREM IndexInvariant == Spec => []IndexInv
  BY InitEstablishesInv, NextKeepsInv, PTL DEF Spec

\* Crash consistency: whatever is thrown or killed, the generation the
\* database names has a whole vector file, every vector of it is one of a
\* stored chunk, and every stored chunk has one unless its id came from a file
\* that the same update removed.
THEOREM CrashConsistency == Spec => []ActiveVectorsMatchChunks
  <1>1. IndexInv => ActiveVectorsMatchChunks
    BY DEF IndexInv
  <1> QED
    BY IndexInvariant, <1>1, PTL

\* Unless an update was cut off between its commit and its last symbol
\* transaction, the symbols outside that work are those of the documents.
THEOREM SymbolsInStep == Spec => []SymbolsFollowDocuments
  <1>1. IndexInv => SymbolsFollowDocuments
    BY DEF IndexInv
  <1> QED
    BY IndexInvariant, <1>1, PTL

\* A snapshot that is published is the committed index.
THEOREM PublishIsCommitted == Spec => PublishesWhatIsCommitted
  <1>1. IndexInv /\ [Next]_vars =>
           [handle' \notin {handle, NoVectors} => handle' = files[active]]_vars
    <2> SUFFICES ASSUME IndexInv, Next, handle' \notin {handle, NoVectors}
                 PROVE  handle' = files[active]
      OBVIOUS
    <2>1. Publish
      BY DEF Next, UpdateStep, Start, ReadGeneration, ReadVectors, Scan, ReadDocuments,
             HashFile, ChunkFile, ParseFile, FindRemovals, OpenTemporary, FillTemporary,
             Rename, Verify, Commit, ReplaceSymbols, SymbolsDone, Throw, Crash, Edit
    <2> QED
      BY <2>1 DEF Publish, Snapshot, IndexInv, VectorsInMemory
  <1> QED
    BY <1>1, IndexInvariant, PTL DEF Spec, PublishesWhatIsCommitted

-----------------------------------------------------------------------------
(***************************************************************************)
(* The file is read up to three times, for its hash, for its text chunks   *)
(* and by Clang.  A document has the hash of another content than that of  *)
(* its chunks only if the file was edited between these reads.             *)
(***************************************************************************)
ReadAtOnce(d) == d # NoDoc => d.raced \/ d.body = d.hash

ReadsAgree ==
    /\ \A f \in File : ReadAtOnce(docs[f]) /\ ReadAtOnce(repl[f])
    /\ pc \in {"chunk", "parse"} =>
          cur.raced \/ (tree[cur.file] = cur.hash /\ (pc = "parse" => cur.text = cur.hash))

\* The document is that of the file as it is in the tree, by its hash.
HoldsTree(d, f) == d # NoDoc /\ d.hash = tree[f]

\* How much of the tree the update has caught up with, if nobody edits.
CatchesUp ==
    quiet =>
        /\ pc \in {"documents"} \cup Visiting \cup Storing =>
              present = {f \in File : tree[f] # NoFile}
        /\ pc = "file" => \A f \in present \ todo : HoldsTree(SoFar[f], f)
        /\ pc \in {"chunk", "parse"} =>
              /\ cur.hash = tree[cur.file]
              /\ \A f \in present \ (todo \cup {cur.file}) : HoldsTree(SoFar[f], f)
        /\ pc \in Storing => \A f \in present : HoldsTree(SoFar[f], f)
        /\ pc \in {"symbols", "publish"} =>
              \A f \in File : IF tree[f] = NoFile THEN docs[f] = NoDoc ELSE HoldsTree(docs[f], f)

LEMMA ReadsKeepAgreeing ==
    ASSUME IndexInv, ReadsAgree, [Next]_vars
    PROVE  ReadsAgree'
  <1>1. TypeOK
    BY DEF IndexInv
  <1>2. CASE /\ UNCHANGED <<docs, tree>>
             /\ repl' = repl \/ repl' = NoReplacement
             /\ pc' \notin {"chunk", "parse"} \/ (pc' = pc /\ cur' = cur)
    BY <1>2 DEF ReadsAgree, ReadAtOnce, NoReplacement
  <1>3. CASE \E f \in File : HashFile(f)
    <2>1. PICK f \in File : HashFile(f)
      BY <1>3
    <2>2. /\ UNCHANGED <<docs, repl, tree>> /\ pc = "file"
          /\ pc' = pc \/ (pc' = "chunk" /\ cur'.hash = tree[f] /\ cur'.file = f)
      BY <2>1 DEF HashFile, store
    <2> QED
      BY <2>2 DEF ReadsAgree
  <1>4. CASE ChunkFile
    <2>1. /\ pc = "chunk" /\ pc' = "parse" /\ UNCHANGED <<docs, repl, tree>> /\ cur \in Reading
          /\ cur' = [cur EXCEPT !.text = tree[cur.file]]
      BY <1>1, <1>4 DEF ChunkFile, store, TypeOK
    <2>2. /\ cur'.file = cur.file /\ cur'.hash = cur.hash /\ cur'.raced = cur.raced
          /\ cur'.text = tree[cur.file]
      BY <2>1 DEF Reading
    <2> QED
      BY <2>1, <2>2 DEF ReadsAgree
  <1>5. CASE ParseFile
    <2>1. PICK d \in Outcomes : repl' = [repl EXCEPT ![cur.file] = d]
      BY <1>5 DEF ParseFile
    <2>2. pc = "parse" /\ pc' = "file" /\ UNCHANGED <<docs, tree>> /\ cur.file \in File
      BY <1>1, <1>5 DEF ParseFile, store, TypeOK, Reading
    <2>3. ReadAtOnce(d)
      BY <2>1, <2>2 DEF Outcomes, ReadsAgree, ReadAtOnce
    <2>4. \A f \in File : repl'[f] = IF f = cur.file THEN d ELSE repl[f]
      BY <1>1, <2>1, <2>2 DEF TypeOK
    <2>5. \A f \in File : ReadAtOnce(repl'[f])
      BY <2>3, <2>4 DEF ReadsAgree
    <2> QED
      BY <2>2, <2>5 DEF ReadsAgree, ReadAtOnce
  <1>6. CASE Commit
    <2>1. /\ pc' = "symbols" /\ UNCHANGED repl
          /\ \A f \in File : docs'[f] \in {NoDoc, repl[f], docs[f]}
      BY <1>6 DEF Commit, Replacing
    <2> QED
      BY <2>1 DEF ReadsAgree, ReadAtOnce
  <1>7. CASE \E f \in File, c \in Content \cup {NoFile} : Edit(f, c)
    <2>1. PICK f \in File, c \in Content \cup {NoFile} : Edit(f, c)
      BY <1>7
    <2>2. /\ tree' = [tree EXCEPT ![f] = c] /\ UNCHANGED <<docs, repl, pc>>
          /\ cur' = IF cur # NoDoc /\ cur.file = f THEN [cur EXCEPT !.raced = TRUE] ELSE cur
      BY <2>1 DEF Edit, Race, store
    <2>3. ASSUME pc \in {"chunk", "parse"}
          PROVE  \/ cur'.raced
                 \/ tree'[cur'.file] = cur'.hash /\ (pc = "parse" => cur'.text = cur'.hash)
      <3>1. cur \in Reading /\ cur # NoDoc
        BY <1>1, <2>3, NoReadingAssumption DEF TypeOK
      <3>2. CASE cur.file = f
        <4>1. cur'.raced = TRUE
          BY <2>2, <3>1, <3>2 DEF Reading
        <4> QED
          BY <4>1
      <3>3. CASE cur.file # f
        <4>1. cur' = cur /\ tree'[cur.file] = tree[cur.file]
          BY <1>1, <2>2, <3>1, <3>3 DEF TypeOK, Reading
        <4> QED
          BY <2>3, <4>1 DEF ReadsAgree
      <3> QED
        BY <3>2, <3>3
    <2> QED
      BY <2>2, <2>3 DEF ReadsAgree, ReadAtOnce
  <1>8. CASE UNCHANGED vars
    BY <1>2, <1>8 DEF vars, store, locals
  <1> QED
    BY <1>2, <1>3, <1>4, <1>5, <1>6, <1>7, <1>8
       DEF Next, UpdateStep, Start, ReadGeneration, ReadVectors, Scan, ReadDocuments,
           FindRemovals, OpenTemporary, FillTemporary, Rename, Verify, ReplaceSymbols,
           SymbolsDone, Publish, Throw, Crash, LocalsReset, store, locals

\* A file is hashed: one that is skipped has the hash of the tree.
LEMMA HashFileCatchesUp ==
    ASSUME IndexInv, CatchesUp, NEW f \in File, HashFile(f)
    PROVE  CatchesUp'
  <1> SUFFICES ASSUME quiet' PROVE CatchesUp'
    BY DEF CatchesUp
  <1>1. /\ pc = "file" /\ f \in todo /\ todo' = todo \ {f} /\ quiet
        /\ UNCHANGED <<tree, docs, repl, present>>
        /\ IF Unchanged(f) THEN pc' = pc
           ELSE cur'.file = f /\ cur'.hash = tree[f] /\ pc' = "chunk"
    BY DEF HashFile, store, history
  <1>2. oldDocs = docs /\ f \in present /\ repl[f] = NoDoc
    BY <1>1 DEF IndexInv, WorksOnActive, VisitedFiles, Visiting, Replaced
  <1>3. /\ present = {g \in File : tree[g] # NoFile}
        /\ \A g \in present \ todo : HoldsTree(SoFar[g], g)
    BY <1>1 DEF CatchesUp, Visiting
  <1>4. CASE Unchanged(f)
    <2>1. HoldsTree(SoFar[f], f) /\ pc' = "file"
      BY <1>1, <1>2, <1>4 DEF Unchanged, HoldsTree, SoFar
    <2> QED
      BY <1>1, <1>3, <2>1 DEF CatchesUp, Visiting, Storing, SoFar, HoldsTree
  <1>5. CASE ~Unchanged(f)
    <2>1. pc' = "chunk" /\ cur'.file = f /\ cur'.hash = tree[f]
      BY <1>1, <1>5
    <2> QED
      BY <1>1, <1>3, <2>1 DEF CatchesUp, Visiting, Storing, SoFar, HoldsTree
  <1> QED
    BY <1>4, <1>5

\* The file has been replaced under the hash it has.
LEMMA ParseFileCatchesUp ==
    ASSUME IndexInv, CatchesUp, ParseFile
    PROVE  CatchesUp'
  <1>0. PICK F : F = cur.file
    OBVIOUS
  <1> SUFFICES ASSUME quiet' PROVE CatchesUp'
    BY DEF CatchesUp
  <1>1. PICK d \in Outcomes : repl' = [repl EXCEPT ![F] = d]
    BY <1>0 DEF ParseFile
  <1>2. /\ pc = "parse" /\ pc' = "file" /\ quiet
        /\ UNCHANGED <<tree, docs, present, todo>>
    BY DEF ParseFile, store, history
  <1>3. /\ F \in File /\ cur \in Reading /\ cur.text \in Content /\ tree[F] \in Content
        /\ repl \in Docs
    BY <1>0, <1>2 DEF ParseFile, IndexInv, TypeOK, Reading, Docs
  <1>4. d # NoDoc /\ d.hash = tree[F]
    <2>1. d \in Document /\ d.hash = cur.hash
      BY <1>0, <1>1, <1>3, IndexAssumption DEF Outcomes, Document, Reading
    <2> QED
      BY <1>0, <1>2, <2>1, NoDocAssumption DEF CatchesUp
  <1>5. \A g \in File : SoFar'[g] = IF g = F THEN d ELSE SoFar[g]
    BY <1>1, <1>2, <1>3, <1>4 DEF SoFar, Docs
  <1>6. /\ present = {g \in File : tree[g] # NoFile}
        /\ \A g \in present \ (todo \cup {F}) : HoldsTree(SoFar[g], g)
    BY <1>0, <1>2 DEF CatchesUp, Visiting
  <1>7. ASSUME NEW g \in present' \ todo' PROVE HoldsTree(SoFar[g], g)'
    BY <1>2, <1>4, <1>5, <1>6 DEF HoldsTree
  <1> QED
    BY <1>2, <1>6, <1>7 DEF CatchesUp, Visiting, Storing

\* Without anything to store the documents are those of the tree already.
LEMMA FindRemovalsCatchesUp ==
    ASSUME IndexInv, CatchesUp, FindRemovals
    PROVE  CatchesUp'
  <1> SUFFICES ASSUME quiet' PROVE CatchesUp'
    BY DEF CatchesUp
  <1>1. /\ pc = "file" /\ todo = {} /\ quiet
        /\ UNCHANGED <<tree, docs, repl, present>>
        /\ pc' = IF NothingToStore THEN "publish" ELSE "open"
        /\ oldDocs = docs
    BY DEF FindRemovals, store, history, IndexInv, WorksOnActive, Visiting
  <1>2. /\ present = {g \in File : tree[g] # NoFile}
        /\ \A g \in present : HoldsTree(SoFar[g], g)
    BY <1>1 DEF CatchesUp, Visiting
  <1>3. CASE NothingToStore
    <2>1. ASSUME NEW g \in File
          PROVE  IF tree[g] = NoFile THEN docs[g] = NoDoc ELSE HoldsTree(docs[g], g)
      <3>1. repl[g] = NoDoc /\ (g \notin present => docs[g] = NoDoc)
        BY <1>1, <1>3 DEF NothingToStore, Replaced, Removed
      <3> QED
        BY <1>2, <3>1 DEF SoFar
    <2>2. pc' = "publish"
      BY <1>1, <1>3
    <2> QED
      BY <1>1, <2>1, <2>2 DEF CatchesUp, Visiting, Storing, HoldsTree
  <1>4. CASE ~NothingToStore
    <2>1. pc' = "open"
      BY <1>1, <1>4
    <2> QED
      BY <1>1, <1>2, <2>1 DEF CatchesUp, Visiting, Storing, HoldsTree, SoFar
  <1> QED
    BY <1>3, <1>4

\* The transaction leaves the documents of the tree.
LEMMA CommitCatchesUp ==
    ASSUME IndexInv, CatchesUp, Commit
    PROVE  CatchesUp'
  <1> SUFFICES ASSUME quiet' PROVE CatchesUp'
    BY DEF CatchesUp
  <1>1. /\ pc = "commit" /\ pc' = "symbols" /\ quiet /\ UNCHANGED tree
        /\ docs' = Replacing(docs) /\ oldDocs = docs /\ Replaced \subseteq present
    BY DEF Commit, IndexInv, WorksOnActive, VisitedFiles, Visiting, Storing
  <1>2. /\ present = {g \in File : tree[g] # NoFile}
        /\ \A g \in present : HoldsTree(SoFar[g], g)
    BY <1>1 DEF CatchesUp, Storing
  <1>3. ASSUME NEW g \in File
        PROVE  IF tree[g] = NoFile THEN docs'[g] = NoDoc ELSE HoldsTree(docs'[g], g)
    <2>1. CASE g \in present
      <3>1. docs'[g] = SoFar[g]
        BY <1>1, <2>1 DEF Replacing, Removed, Replaced, SoFar
      <3> QED
        BY <1>2, <2>1, <3>1
    <2>2. CASE g \notin present
      <3>1. docs'[g] = NoDoc
        BY <1>1, <2>2 DEF Replacing, Removed, Replaced
      <3> QED
        BY <1>2, <2>2, <3>1
    <2> QED
      BY <2>1, <2>2
  <1> QED
    BY <1>1, <1>3 DEF CatchesUp, Visiting, Storing, HoldsTree

LEMMA StepsCatchUp ==
    ASSUME IndexInv, CatchesUp, [Next]_vars
    PROVE  CatchesUp'
  <1>1. CASE Scan \/ ReadDocuments
    BY <1>1 DEF Scan, ReadDocuments, store, history, CatchesUp, Visiting, Storing
  <1>2. CASE ChunkFile
    <2>1. /\ pc = "chunk" /\ pc' = "parse" /\ cur \in Reading /\ SoFar' = SoFar
          /\ cur' = [cur EXCEPT !.text = tree[cur.file]]
          /\ UNCHANGED <<docs, repl, tree, present, todo, quiet>>
      BY <1>2 DEF ChunkFile, store, history, IndexInv, TypeOK, SoFar
    <2>2. cur'.file = cur.file /\ cur'.hash = cur.hash
      BY <2>1 DEF Reading
    <2> QED
      BY <2>1, <2>2 DEF CatchesUp, HoldsTree, Visiting, Storing
  <1>3. CASE OpenTemporary \/ FillTemporary \/ Rename \/ Verify
    <2>1. /\ pc \in Storing /\ pc' \in Storing /\ UNCHANGED <<docs, repl, tree, present, quiet>>
      BY <1>3 DEF OpenTemporary, FillTemporary, Rename, Verify, store, locals, history, Storing
    <2> QED
      BY <2>1 DEF CatchesUp, HoldsTree, SoFar, Visiting, Storing
  <1>4. CASE (\E f \in File : ReplaceSymbols(f)) \/ SymbolsDone
    <2>1. /\ pc = "symbols" /\ pc' \in {"symbols", "publish"} /\ UNCHANGED <<docs, tree, quiet>>
      BY <1>4 DEF ReplaceSymbols, SymbolsDone, store, history
    <2> QED
      BY <2>1 DEF CatchesUp, HoldsTree, Visiting, Storing
  <1>5. CASE Start \/ ReadGeneration \/ ReadVectors \/ Publish \/ Throw \/ Crash
    <2>1. pc' \in {"idle", "generation", "vectors", "scan"}
      BY <1>5 DEF Start, ReadGeneration, ReadVectors, Publish, Throw, Crash
    <2> QED
      BY <2>1 DEF CatchesUp, Visiting, Storing
  <1>6. CASE \E f \in File, c \in Content \cup {NoFile} : Edit(f, c)
    BY <1>6 DEF Edit, CatchesUp
  <1>7. CASE UNCHANGED vars
    BY <1>7 DEF vars, store, locals, history, CatchesUp, HoldsTree, SoFar
  <1> QED
    BY <1>1, <1>2, <1>3, <1>4, <1>5, <1>6, <1>7, HashFileCatchesUp, ParseFileCatchesUp,
       FindRemovalsCatchesUp, CommitCatchesUp, Zenon
       DEF Next, UpdateStep

\* An update that runs to its end, with no edit since its scan, leaves the
\* index up to date with the tree: the files that are there, under their
\* hashes, and with their chunks unless a file was edited between the reads
\* of the update that stored it.  Contents may come back.
THEOREM QuietUpdatesReachTheTree == Spec => []UpdateReachesTree
  <1>1. Init => ReadsAgree /\ CatchesUp
    BY DEF Init, ReadsAgree, ReadAtOnce, CatchesUp, NoReplacement, Visiting, Storing
  <1>2. IndexInv /\ ReadsAgree /\ CatchesUp /\ [Next]_vars => (ReadsAgree /\ CatchesUp)'
    BY ReadsKeepAgreeing, StepsCatchUp
  <1>3. ReadsAgree /\ CatchesUp => UpdateReachesTree
    BY DEF ReadsAgree, ReadAtOnce, CatchesUp, HoldsTree, UpdateReachesTree
  <1> QED
    BY <1>1, <1>2, <1>3, IndexInvariant, PTL DEF Spec

-----------------------------------------------------------------------------
(***************************************************************************)
(* A query, while the index is updated.                                    *)
(***************************************************************************)
\* The ids that have a vector, when the vectors are those of the documents.
LEMMA AgreeingIds ==
    ASSUME NEW v, Agree(v, docs)
    PROVE  {id \in Id : v[id] # NoText} \subseteq ChunkIds
  BY DEF Agree, VectorsOf, ChunkIds, HasChunk

\* Without the AST index there are no symbols; and as long as a query is
\* settled each of its hits is stored, so that get_many has left none out.
SettledInv ==
    /\ symTodo = {} /\ \A f \in File : syms[f] = NoUnit
    /\ settled \in BOOLEAN
    /\ hits \in Seq(Id) /\ chunks \in Seq(Id) /\ at \in 0..Len(hits)
    /\ route = "idle" => step = "hits"
    /\ step = "hits" => hits = << >> /\ at = 0 /\ chunks = << >>
    /\ settled =>
          /\ Agree(snapshot, docs)
          /\ \A i \in 1..Len(hits) : hits[i] \in ChunkIds
          /\ Len(chunks) = at
          /\ \A i \in 1..at : chunks[i] = hits[i]
    /\ SettledQueryIsExact

LEMMA RetrieveKeepsSettled ==
    ASSUME SettledInv, Retrieve, UNCHANGED vars
    PROVE  SettledInv'
  <1>1. PICK n \in 0..TopK : \E s \in [1..n -> Candidates] : hits' = s
    BY DEF Retrieve
  <1>2. n \in Nat /\ Candidates \subseteq Id
    BY <1>1, RetrievalAssumption DEF Candidates, ChunkIds, SymbolIds, SettledInv
  <1>3. hits' \in Seq(Id) /\ Len(hits') = n /\ \A i \in 1..n : hits'[i] \in Candidates
    BY <1>1, <1>2
  <1>4. /\ step = "hits" /\ step' = "chunks" /\ route # "idle"
        /\ UNCHANGED <<route, snapshot, at, chunks, settled, docs, syms, symTodo>>
    BY DEF Retrieve, vars, store, locals
  <1>5. settled => Candidates \subseteq ChunkIds
    BY AgreeingIds DEF SettledInv, Candidates, SymbolIds
  <1>6. ChunkIds' = ChunkIds /\ Agree(snapshot, docs)' = Agree(snapshot, docs)
    BY <1>4 DEF ChunkIds
  <1>7. at' = 0 /\ chunks' = << >> /\ at' \in 0..Len(hits') /\ chunks' \in Seq(Id)
    BY <1>2, <1>3, <1>4 DEF SettledInv
  <1> QED
    BY <1>3, <1>4, <1>5, <1>6, <1>7 DEF SettledInv, SettledQueryIsExact

\* The row of a hit that is stored.
LEMMA ReadChunkKeepsSettled ==
    ASSUME SettledInv, ReadChunk, UNCHANGED vars
    PROVE  SettledInv'
  <1>1. /\ step = "chunks" /\ at < Len(hits) /\ at' = at + 1
        /\ chunks' = chunks \o RowOf(hits[at + 1])
        /\ UNCHANGED <<route, step, snapshot, hits, settled, docs, syms, symTodo>>
    BY DEF ReadChunk, vars, store, locals
  <1>2. hits \in Seq(Id) /\ chunks \in Seq(Id) /\ at \in 0..Len(hits) /\ Len(hits) \in Nat
    BY DEF SettledInv
  <1>3. hits[at + 1] \in Id /\ RowOf(hits[at + 1]) \in Seq(Id) /\ at' \in 0..Len(hits)
    BY <1>1, <1>2 DEF RowOf
  <1>4. chunks' \in Seq(Id)
    BY <1>1, <1>2, <1>3
  <1>5. ChunkIds' = ChunkIds /\ Agree(snapshot, docs)' = Agree(snapshot, docs)
    BY <1>1 DEF ChunkIds
  <1>6. ASSUME settled
        PROVE  Len(chunks') = at' /\ \A i \in 1..at' : chunks'[i] = hits[i]
    <2>1. /\ Len(chunks) = at /\ \A i \in 1..at : chunks[i] = hits[i]
          /\ hits[at + 1] \in ChunkIds
      BY <1>1, <1>2, <1>6 DEF SettledInv
    <2>2. chunks' = chunks \o <<hits[at + 1]>>
      BY <1>1, <2>1 DEF RowOf
    <2> QED
      BY <1>1, <1>2, <1>3, <2>1, <2>2
  <1> QED
    BY <1>1, <1>2, <1>3, <1>4, <1>5, <1>6 DEF SettledInv, SettledQueryIsExact

LEMMA PairKeepsSettled ==
    ASSUME SettledInv, Pair, UNCHANGED vars
    PROVE  SettledInv'
  <1>1. /\ step' = "answer" /\ at = Len(hits) /\ route # "idle" /\ results' \in {ByPosition, ById}
        /\ UNCHANGED <<route, snapshot, hits, at, chunks, settled, docs, syms, symTodo>>
    BY DEF Pair, vars, store, locals
  <1>2. ChunkIds' = ChunkIds /\ Agree(snapshot, docs)' = Agree(snapshot, docs)
    BY <1>1 DEF ChunkIds
  <1>3. hits \in Seq(Id) /\ chunks \in Seq(Id) /\ Len(hits) \in Nat /\ Len(chunks) \in Nat
    BY DEF SettledInv
  <1>4. ASSUME settled PROVE Paired' /\ Len(results') = Len(hits)
    <2>1. Len(chunks) = Len(hits) /\ \A i \in 1..Len(hits) : chunks[i] = hits[i]
      BY <1>1, <1>4 DEF SettledInv
    <2>2. Len(results') = Len(chunks)
      BY <1>1, <1>3 DEF ByPosition, ById
    <2>3. \A i \in 1..Len(chunks) : results'[i].scored = results'[i].id
      BY <1>1, <2>1 DEF ByPosition, ById
    <2> QED
      BY <2>1, <2>2, <2>3 DEF Paired
  <1> QED
    BY <1>1, <1>2, <1>4 DEF SettledInv, SettledQueryIsExact

LEMMA SettledStays ==
    ASSUME Semantic = FALSE, SettledInv, [RetrievalNext]_<<vars, query>>
    PROVE  SettledInv'
  <1>1. CASE QueryStep /\ UNCHANGED vars
    <2>1. UNCHANGED <<docs, syms, symTodo>>
      BY <1>1 DEF vars, store, locals
    <2>2. ASSUME NEW r, LoadSnapshot(r) PROVE SettledInv'
      <3>1. /\ step' = "hits" /\ snapshot' = handle /\ settled' = Agree(handle, docs)
            /\ hits' = << >> /\ at' = 0 /\ chunks' = << >>
        BY <2>2 DEF LoadSnapshot, SettledInv
      <3>2. settled' \in BOOLEAN /\ (settled' => Agree(snapshot, docs)')
        BY <2>1, <3>1 DEF Agree, VectorsOf, VectorsFor
      <3> QED
        BY <2>1, <3>1, <3>2 DEF SettledInv, SettledQueryIsExact
    <2>3. CASE Answer
      <3>1. /\ step' = "hits" /\ settled' = FALSE /\ hits' = << >> /\ at' = 0 /\ chunks' = << >>
        BY <2>3 DEF Answer
      <3>2. hits' \in Seq(Id) /\ chunks' \in Seq(Id) /\ at' \in 0..Len(hits')
        BY <3>1
      <3> QED
        BY <2>1, <3>1, <3>2 DEF SettledInv, SettledQueryIsExact
    <2> QED
      BY <1>1, <2>2, <2>3, RetrieveKeepsSettled, ReadChunkKeepsSettled, PairKeepsSettled
         DEF QueryStep
  <1>2. CASE IndexStep
    <2>1. /\ UNCHANGED <<route, step, snapshot, hits, at, chunks, results>>
          /\ settled' = (settled /\ docs' = docs)
      BY <1>2 DEF IndexStep
    <2>2. symTodo' = {} /\ UNCHANGED syms
      BY <1>2 DEF IndexStep, SettledInv, UpdateStep, Start, ReadGeneration, ReadVectors, Scan,
           ReadDocuments, HashFile, ChunkFile, ParseFile, FindRemovals, OpenTemporary,
           FillTemporary, Rename, Verify, Commit, SymbolWork, ReplaceSymbols, SymbolsDone,
           Publish, Throw, LocalsReset, Edit, store, locals
    <2>3. docs' = docs => ChunkIds' = ChunkIds /\ Agree(snapshot, docs)' = Agree(snapshot, docs)
      BY <2>1 DEF ChunkIds
    <2>4. settled' \in BOOLEAN /\ (settled' => settled /\ docs' = docs)
      BY <2>1 DEF SettledInv
    <2> QED
      BY <2>1, <2>2, <2>3, <2>4 DEF SettledInv, SettledQueryIsExact, Paired
  <1>3. CASE UNCHANGED <<vars, query>>
    BY <1>3 DEF vars, query, store, locals, SettledInv, SettledQueryIsExact, Paired, ChunkIds,
                Agree
  <1> QED
    BY <1>1, <1>2, <1>3 DEF RetrievalNext

\* Without the AST index, a query during which snapshot and database agree
\* loses no hit, however many rows get_many reads one by one, and pairs every
\* score with its own chunk, on either route.
THEOREM SettledQueriesAreExact == RetrievalSpec => []SettledQueryIsExact
  <1>1. CASE Semantic = FALSE
    <2>1. RetrievalInit => SettledInv
      <3> SUFFICES ASSUME RetrievalInit PROVE SettledInv
        OBVIOUS
      <3>1. /\ step = "hits" /\ settled = FALSE /\ hits = << >> /\ at = 0 /\ chunks = << >>
            /\ symTodo = {} /\ \A f \in File : syms[f] = NoUnit
        BY DEF RetrievalInit, Init, QueryInit
      <3>2. hits \in Seq(Id) /\ chunks \in Seq(Id) /\ at \in 0..Len(hits)
        BY <3>1
      <3> QED
        BY <3>1, <3>2 DEF SettledInv, SettledQueryIsExact
    <2>2. SettledInv /\ [RetrievalNext]_<<vars, query>> => SettledInv'
      BY <1>1, SettledStays
    <2>3. SettledInv => SettledQueryIsExact
      BY DEF SettledInv
    <2> QED
      BY <2>1, <2>2, <2>3, PTL DEF RetrievalSpec
  <1>2. CASE Semantic = TRUE
    <2>1. SettledQueryIsExact
      BY <1>2 DEF SettledQueryIsExact
    <2> QED
      BY <2>1, PTL
  <1> QED
    BY <1>1, <1>2, IndexAssumption
=============================================================================
