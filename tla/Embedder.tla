------------------------------ MODULE Embedder ------------------------------
(***************************************************************************)
(* LlamaEmbedder::embed_many.  All texts of a call are tokenized first;    *)
(* then consecutive texts are gathered into batches of at most BatchSize   *)
(* tokens, each batch is evaluated in a context of its own, and one vector *)
(* per text is read out of that context.                                   *)
(*                                                                         *)
(* A text is the number of its tokens with prefix and special tokens, or   *)
(* Empty: a text that is not empty has at least one token.  A vector is    *)
(* the set of tokens it was computed from, each given by its text and its  *)
(* position.  Texts are numbered from 1, everything else from 0 as in the  *)
(* code.  Callers are serialised by the embedder's mutex.                  *)
(***************************************************************************)
EXTENDS Integers, Sequences

CONSTANTS ContextSize, BatchSize

\* What validate_model lets through.
ASSUME EmbedderAssumption ==
    /\ ContextSize \in Nat
    /\ BatchSize \in Nat \ {0}
    /\ BatchSize <= ContextSize

VARIABLES
    texts,       \* the call's texts
    stage,       \* where embed_many is
    tokenLists,  \* token_lists: the lengths of the lists so far
    first, last, \* the texts of the batch are first+1 .. last
    tokenCount,  \* token_count
    sequence,    \* the loop variable of filling and reading
    batch,       \* the tokens in the llama_batch
    pooled,      \* the model pools the vectors of a sequence
    tokenOffset, \* token_offset
    vectors      \* result

embedVars == <<texts, stage, tokenLists, first, last, tokenCount, sequence, batch,
               pooled, tokenOffset, vectors>>

Empty == 0

EmbedInit ==
    /\ texts = << >>
    /\ stage = "idle"
    /\ tokenLists = << >>
    /\ first = 0 /\ last = 0
    /\ tokenCount = 0
    /\ sequence = 0
    /\ batch = << >>
    /\ pooled = FALSE
    /\ tokenOffset = 0
    /\ vectors = << >>

EmbedBatch(ts) ==
    /\ stage = "idle"
    /\ texts' = ts
    /\ pooled' \in BOOLEAN
    /\ stage' = "tokenize"
    /\ UNCHANGED <<tokenLists, first, last, tokenCount, sequence, batch, tokenOffset,
                   vectors>>

\* The text that is tokenized next.
NextText == texts[Len(tokenLists) + 1]

\* Mutant: a text is not held against the batch size.
RejectedByContext == NextText = Empty \/ NextText > ContextSize

\* with_prefix throws on an empty text, the loop on one that is too long.
Rejected == NextText = Empty \/ NextText > ContextSize \/ NextText > BatchSize

Tokenize ==
    /\ stage = "tokenize"
    /\ Len(tokenLists) < Len(texts)
    /\ IF Rejected
       THEN stage' = "thrown" /\ UNCHANGED tokenLists
       ELSE tokenLists' = Append(tokenLists, NextText) /\ UNCHANGED stage
    /\ UNCHANGED <<texts, first, last, tokenCount, sequence, batch, pooled, tokenOffset,
                   vectors>>

\* The head of the loop over the batches.
BeginBatch ==
    /\ \/ stage = "tokenize" /\ Len(tokenLists) = Len(texts)
       \/ stage = "read" /\ sequence = last
    /\ first' = last
    /\ tokenCount' = 0
    /\ batch' = << >>
    /\ stage' = IF last < Len(tokenLists) THEN "gather" ELSE "returned"
    /\ UNCHANGED <<texts, tokenLists, last, sequence, pooled, tokenOffset, vectors>>

\* Mutant: the batch is tested before the text is added.
TakesNextWhileBelow == last < Len(tokenLists) /\ tokenCount < BatchSize

TakesNext ==
    /\ last < Len(tokenLists)
    /\ tokenCount + tokenLists[last + 1] <= BatchSize

Gather ==
    /\ stage = "gather"
    /\ TakesNext
    /\ tokenCount' = tokenCount + tokenLists[last + 1]
    /\ last' = last + 1
    /\ UNCHANGED <<texts, stage, tokenLists, first, sequence, batch, pooled, tokenOffset,
                   vectors>>

\* The context and the batch are allocated; last = first throws.
Allocate ==
    /\ stage = "gather"
    /\ ~TakesNext
    /\ stage' = IF last = first THEN "thrown" ELSE "fill"
    /\ sequence' = first
    /\ UNCHANGED <<texts, tokenLists, first, last, tokenCount, batch, pooled, tokenOffset,
                   vectors>>

SequenceId == sequence - first

\* The tokens of one text are added under its sequence id.
FillBatch ==
    /\ stage = "fill"
    /\ sequence < last
    /\ batch' = batch \o [p \in 1..tokenLists[sequence + 1] |->
                             [text |-> sequence + 1, pos |-> p - 1, seq |-> SequenceId]]
    /\ sequence' = sequence + 1
    /\ UNCHANGED <<texts, stage, tokenLists, first, last, tokenCount, pooled, tokenOffset,
                   vectors>>

\* llama_encode or llama_decode.
Evaluate ==
    /\ stage = "fill"
    /\ sequence = last
    /\ stage' = "read"
    /\ sequence' = first
    /\ tokenOffset' = 0
    /\ UNCHANGED <<texts, tokenLists, first, last, tokenCount, batch, pooled, vectors>>

Tokens(cells) == {<<c.text, c.pos>> : c \in cells}

\* llama_get_embeddings_seq, for the sequence the loop is at.
OfSequence == Tokens({c \in {batch[i] : i \in 1..Len(batch)} : c.seq = sequence - first})

\* Mutant: the vector of the first token of the text is taken.
FirstOfText == Tokens({batch[tokenOffset + 1]})

\* llama_get_embeddings_ith, of the last token of the text.
LastOfText == Tokens({batch[tokenOffset + tokenLists[sequence + 1]]})

ReadVector ==
    /\ stage = "read"
    /\ sequence < last
    /\ vectors' = Append(vectors, IF pooled THEN OfSequence ELSE LastOfText)
    /\ tokenOffset' = tokenOffset + tokenLists[sequence + 1]
    /\ sequence' = sequence + 1
    /\ UNCHANGED <<texts, stage, tokenLists, first, last, tokenCount, batch, pooled>>

\* Mutant: after an error the batch is tried again.
EvaluationIsRetried ==
    /\ stage = "fill"
    /\ stage' = "gather"
    /\ last' = first
    /\ tokenCount' = 0
    /\ batch' = << >>
    /\ UNCHANGED <<texts, tokenLists, first, sequence, pooled, tokenOffset, vectors>>

\* No context, no memory, an error of the evaluation, no vector, or a vector
\* that cannot be normalized.
EvaluationFails ==
    /\ stage = "fill" \/ (stage = "read" /\ sequence < last)
    /\ stage' = "thrown"
    /\ UNCHANGED <<texts, tokenLists, first, last, tokenCount, sequence, batch, pooled,
                   tokenOffset, vectors>>

EmbedStep ==
    \/ Tokenize \/ BeginBatch \/ Gather \/ Allocate \/ FillBatch \/ Evaluate
    \/ ReadVector \/ EvaluationFails

-----------------------------------------------------------------------------
\* A batch that is evaluated has as many tokens as were counted for it, which
\* is what its arrays were allocated for and no more than one context holds;
\* its sequence ids lie below n_seq_max.  Every text that was accepted can be
\* put into an empty batch: the loop over the batches always advances and its
\* last == first is dead code.
BatchesFit ==
    /\ stage \in {"gather", "fill", "read"} =>
          tokenCount <= BatchSize /\ tokenCount <= ContextSize
    /\ stage \in {"fill", "read"} =>
          /\ Len(batch) <= tokenCount
          /\ \A i \in 1..Len(batch) : batch[i].seq \in 0..(last - first - 1)
    /\ stage = "read" => Len(batch) = tokenCount
    /\ stage = "gather" /\ last = first => TakesNext

\* The tokens the vector of text i has to come from.
VectorOf(i) ==
    IF pooled THEN {<<i, p>> : p \in 0..(texts[i] - 1)} ELSE {<<i, texts[i] - 1>>}

\* The i-th vector is that of the i-th text, whichever batch it fell into,
\* and a call that returns has one for each text.  The caller stores the i-th
\* vector under the id of its i-th chunk.
VectorsFollowTexts ==
    /\ \A i \in 1..Len(vectors) : vectors[i] = VectorOf(i)
    /\ stage = "returned" => Len(vectors) = Len(texts)
=============================================================================
