-------------------------- MODULE FilePreparation --------------------------
(***************************************************************************)
(* What IndexService::update does with one new or changed file that is not *)
(* parsed by Clang: its text is chunked and the chunks are embedded in one *)
(* call.  An exception of either ends the update.                          *)
(***************************************************************************)
EXTENDS TextChunker, Embedder

CONSTANT TokenCounts \* how many tokens a text may have

ASSUME TokenCountAssumption == TokenCounts \subseteq Nat \ {0}

Bytes(c) == ContentSize(in.size, c.first, c.next)

\* The contents of the chunks as the embedder sees them.  A text that is not
\* empty has some tokens; how many depends on the text, not on its size.
TextsOfChunks ==
    {ts \in [1..Len(chunks) -> TokenCounts \cup {Empty}] :
        \A i \in 1..Len(chunks) : ts[i] = Empty <=> Bytes(chunks[i]) = 0}

PrepareInit == Init /\ EmbedInit

ChunkStep == (OpenWindow \/ Shrink \/ Emit \/ Advance) /\ UNCHANGED embedVars

\* embed_batch of the contents of all chunks.
EmbedChunks ==
    /\ pc = "done" /\ stage = "idle"
    /\ \E ts \in TextsOfChunks : EmbedBatch(ts)
    /\ UNCHANGED vars

EmbeddingStep == EmbedStep /\ UNCHANGED vars

Ended == stage \in {"returned", "thrown"} /\ UNCHANGED <<vars, embedVars>>

PrepareNext == ChunkStep \/ EmbedChunks \/ EmbeddingStep \/ Ended

PrepareSpec ==
    /\ PrepareInit
    /\ [][PrepareNext]_<<vars, embedVars>>
    /\ WF_<<vars, embedVars>>(ChunkStep \/ EmbedChunks \/ EmbeddingStep)

-----------------------------------------------------------------------------
\* Chunking and embedding a file ends, with a vector for every chunk or with
\* an exception.
PreparationEnds == <>(stage \in {"returned", "thrown"})
=============================================================================
