----------------------- MODULE FilePreparationProofs -----------------------
(***************************************************************************)
(* The window of TextChunker covers every line, for every file and every   *)
(* option validate_options accepts; what ContentSize computes plays no     *)
(* part in that, Fits is not expanded.  Then LlamaEmbedder: for every      *)
(* tokenizer, context and batch size its batches fit, and the vectors it   *)
(* returns are those of the chunks in their order.                         *)
(***************************************************************************)
EXTENDS FilePreparation, TLAPS

LEMMA InputType ==
    ASSUME TypeOK
    PROVE  /\ Lines \in Nat
           /\ in.maxLines \in Nat /\ in.overlap \in Nat
           /\ in.overlap < in.maxLines
  <1>1. in \in Input
    BY DEF TypeOK
  <1>2. in.size \in Seq(Nat)
    BY <1>1, InputAssumption
  <1> QED
    BY <1>1, <1>2, InputAssumption DEF Lines

LEMMA ReachedType == ASSUME TypeOK PROVE Reached \in Nat
  <1>1. chunks \in Seq(Chunk)
    BY DEF TypeOK
  <1>2. CASE chunks = << >>
    BY <1>2 DEF Reached
  <1>3. CASE chunks # << >>
    <2>1. chunks[Len(chunks)] \in Chunk
      BY <1>1, <1>3
    <2> QED
      BY <1>3, <2>1 DEF Reached, Chunk
  <1> QED
    BY <1>2, <1>3

\* The chunks stay in order when one more is left behind.
LEMMA EmitInOrder == ASSUME ChunkerInv, Emit PROVE ChunksInOrder' /\ ChunksAreMaximal'
  <1> USE DEF Lines
  <1> DEFINE n == Len(chunks)  c == [first |-> start, next |-> end]
  <1>1. /\ TypeOK /\ ChunksInOrder /\ WindowInPlace /\ ChunksAreMaximal
        /\ pc = "shrink" /\ ~TooLarge /\ in' = in /\ chunks' = Append(chunks, c)
    BY DEF ChunkerInv, Emit
  <1>2. /\ start \in Nat /\ end \in Nat /\ chunks \in Seq(Chunk) /\ n \in Nat
        /\ Lines \in Nat /\ in.maxLines \in Nat /\ in.overlap \in Nat
    BY <1>1, InputType DEF TypeOK
  <1>3. c \in Chunk
    BY <1>2 DEF Chunk
  <1>4. /\ Len(chunks') = n + 1
        /\ chunks'[n + 1] = c
        /\ \A i \in 1..n : chunks'[i] = chunks[i]
    BY <1>1, <1>2, <1>3
  <1>5. /\ start < end /\ end <= Lines /\ end - start <= in.maxLines
        /\ start <= Reached /\ Reached - start <= in.overlap
        /\ chunks # << >> => chunks[n].first < start
    BY <1>1 DEF WindowInPlace
  <1>6. ASSUME NEW i \in 1..Len(chunks')
        PROVE  chunks'[i].first < chunks'[i].next /\ chunks'[i].next <= Lines
    <2>1. CASE i = n + 1
      BY <2>1, <1>4, <1>5
    <2>2. CASE i \in 1..n
      BY <2>2, <1>1, <1>4 DEF ChunksInOrder
    <2> QED
      BY <2>1, <2>2, <1>2, <1>4
  <1>7. ASSUME NEW i \in 2..Len(chunks')
        PROVE  /\ chunks'[i - 1].first < chunks'[i].first
               /\ chunks'[i].first <= chunks'[i - 1].next
               /\ chunks'[i - 1].next - chunks'[i].first <= in.overlap
    <2>1. CASE i = n + 1
      <3>1. chunks # << >> /\ Reached = chunks[n].next /\ chunks'[i - 1] = chunks[n]
        BY <2>1, <1>2, <1>4 DEF Reached
      <3> QED
        BY <2>1, <3>1, <1>2, <1>4, <1>5
    <2>2. CASE i \in 2..n
      <3>1. chunks'[i] = chunks[i] /\ chunks'[i - 1] = chunks[i - 1]
        BY <2>2, <1>2, <1>4
      <3> QED
        BY <2>2, <3>1, <1>1 DEF ChunksInOrder
    <2> QED
      BY <2>1, <2>2, <1>2, <1>4
  <1>8. ASSUME NEW i \in 1..Len(chunks')
        PROVE  /\ Allowed(chunks'[i].first, chunks'[i].next)
               /\ ~Allowed(chunks'[i].first, chunks'[i].next + 1)
    <2>1. CASE i = n + 1
      <3>1. Allowed(start, end)
        BY <1>1, <1>2, <1>5 DEF Allowed, TooLarge
      <3>2. ~Allowed(start, end + 1)
        BY <1>1, <1>2, <1>5 DEF Allowed, WindowInPlace
      <3> QED
        BY <2>1, <3>1, <3>2, <1>4
    <2>2. CASE i \in 1..n
      BY <2>2, <1>1, <1>4 DEF ChunksAreMaximal
    <2> QED
      BY <2>1, <2>2, <1>2, <1>4
  <1>9. \A s, e : Allowed(s, e)' <=> Allowed(s, e)
    BY <1>1 DEF Allowed, Fits
  <1> QED
    BY <1>1, <1>6, <1>7, <1>8, <1>9 DEF ChunksInOrder, ChunksAreMaximal

\* The lines before Reached stay covered when one more chunk is left behind.
LEMMA EmitCovers == ASSUME ChunkerInv, Emit PROVE Reached' = end /\ CoveredSoFar'
  <1> DEFINE n == Len(chunks)  c == [first |-> start, next |-> end]
  <1>1. /\ TypeOK /\ CoveredSoFar /\ WindowInPlace
        /\ pc = "shrink" /\ chunks' = Append(chunks, c)
    BY DEF ChunkerInv, Emit
  <1>2. /\ start \in Nat /\ end \in Nat /\ chunks \in Seq(Chunk) /\ n \in Nat
        /\ c \in Chunk /\ Reached \in Nat
    BY <1>1, ReachedType DEF TypeOK, Chunk
  <1>3. /\ Len(chunks') = n + 1
        /\ chunks'[n + 1] = c
        /\ \A i \in 1..n : chunks'[i] = chunks[i]
    BY <1>1, <1>2
  <1>4. Reached' = end
    BY <1>2, <1>3 DEF Reached
  <1>5. start <= Reached
    BY <1>1 DEF WindowInPlace
  <1>6. ASSUME NEW l \in 0..(end - 1)
        PROVE  \E i \in 1..Len(chunks') : chunks'[i].first <= l /\ l < chunks'[i].next
    <2>1. CASE l < start
      <3>1. l \in 0..(Reached - 1)
        BY <2>1, <1>2, <1>5
      <3>2. CoveredSoFar
        BY <1>1
      <3>3. PICK i \in 1..n : chunks[i].first <= l /\ l < chunks[i].next
        BY <3>1, <3>2 DEF CoveredSoFar
      <3> QED
        BY <3>3, <1>2, <1>3
    <2>2. CASE start <= l
      <3>1. chunks'[n + 1].first <= l /\ l < chunks'[n + 1].next
        BY <2>2, <1>2, <1>3
      <3> QED
        BY <3>1, <1>2, <1>3
    <2> QED
      BY <2>1, <2>2, <1>2
  <1> QED
    BY <1>4, <1>6 DEF CoveredSoFar

\* The invariant holds when chunk_text is called.
LEMMA ChunkerBegins == ASSUME Init PROVE ChunkerInv
  <1>1. TypeOK
    BY DEF Init, TypeOK
  <1>2. Reached = 0 /\ chunks = << >> /\ Len(chunks) = 0
    BY DEF Init, Reached
  <1>3. Lines \in Nat /\ in.overlap \in Nat
    BY <1>1, InputType
  <1>4. WindowInPlace
    BY <1>2, <1>3 DEF Init, WindowInPlace
  <1> QED
    BY <1>1, <1>2, <1>4 DEF ChunkerInv, ChunksInOrder, CoveredSoFar, ChunksAreMaximal

\* Every step of chunk_text keeps it.
LEMMA ChunkerStepKeepsInv == ASSUME ChunkerInv, [Next]_vars PROVE ChunkerInv'
  <1>1. /\ TypeOK /\ ChunksInOrder /\ WindowInPlace /\ CoveredSoFar /\ ChunksAreMaximal
        /\ start \in Nat /\ end \in Nat /\ Reached \in Nat /\ Lines \in Nat
        /\ in.maxLines \in Nat /\ in.overlap \in Nat /\ in.overlap < in.maxLines
    BY InputType, ReachedType DEF ChunkerInv, TypeOK
  <1>2. ASSUME in' = in, chunks' = chunks
        PROVE  /\ Lines' = Lines /\ Reached' = Reached
               /\ ChunksInOrder' /\ CoveredSoFar' /\ ChunksAreMaximal'
    BY <1>1, <1>2 DEF Lines, Reached, ChunksInOrder, CoveredSoFar, ChunksAreMaximal,
                      Allowed, Fits
  <1>3. CASE OpenWindow
    <2>1. TypeOK'
      BY <1>1, <1>3 DEF OpenWindow, TypeOK, Lesser
    <2>2. WindowInPlace'
      BY <1>1, <1>2, <1>3 DEF OpenWindow, WindowInPlace, Lesser
    <2> QED
      BY <1>2, <1>3, <2>1, <2>2 DEF OpenWindow, ChunkerInv
  <1>4. CASE Shrink
    <2>1. TypeOK'
      BY <1>1, <1>4 DEF Shrink, TypeOK, TooLarge
    <2>2. ~Fits(start, end + 1)'
      BY <1>1, <1>4 DEF Shrink, TooLarge, Fits
    <2>3. WindowInPlace'
      BY <1>1, <1>2, <1>4, <2>2 DEF Shrink, TooLarge, WindowInPlace
    <2> QED
      BY <1>2, <1>4, <2>1, <2>3 DEF Shrink, ChunkerInv
  <1>5. CASE Emit
    <2>1. TypeOK'
      BY <1>1, <1>5 DEF Emit, TypeOK, Chunk
    <2>2. Reached' = end /\ CoveredSoFar' /\ ChunksInOrder' /\ ChunksAreMaximal'
      BY <1>5, EmitInOrder, EmitCovers
    <2>3. /\ chunks' # << >>
          /\ chunks'[Len(chunks')] = [first |-> start, next |-> end]
      BY <1>1, <1>5 DEF Emit, TypeOK
    <2>4. /\ start' = start /\ end' = end /\ Lines' = Lines
          /\ pc' = IF end = Lines THEN "done" ELSE "advance"
      BY <1>5 DEF Emit, Lines
    <2>5. start < end /\ end <= Lines
      BY <1>1, <1>5 DEF Emit, WindowInPlace
    <2>6. WindowInPlace'
      BY <1>1, <2>2, <2>3, <2>4, <2>5 DEF WindowInPlace
    <2> QED
      BY <2>1, <2>2, <2>6 DEF ChunkerInv
  <1>6. CASE Advance
    <2>1. /\ end = Reached /\ end < Lines /\ chunks # << >>
          /\ chunks[Len(chunks)].first = start /\ start < end
      BY <1>1, <1>6 DEF Advance, WindowInPlace, Reached, ChunksInOrder, TypeOK
    <2>2. /\ NextStart \in Nat /\ start < NextStart /\ NextStart <= end
          /\ end - NextStart <= in.overlap
      BY <1>1, <2>1 DEF NextStart, Greater
    <2>3. TypeOK'
      BY <1>1, <1>6, <2>2 DEF Advance, TypeOK
    <2>4. WindowInPlace'
      BY <1>1, <1>2, <1>6, <2>1, <2>2 DEF Advance, WindowInPlace
    <2> QED
      BY <1>2, <1>6, <2>3, <2>4 DEF Advance, ChunkerInv
  <1>7. CASE UNCHANGED vars
    BY <1>1, <1>2, <1>7 DEF vars, ChunkerInv, TypeOK, WindowInPlace, Fits
  <1> QED
    BY <1>3, <1>4, <1>5, <1>6, <1>7 DEF Next, Done

\* The inductive invariant of chunk_text holds of every call.
THEOREM ChunkerInvariant == Spec => []ChunkerInv
  BY ChunkerBegins, ChunkerStepKeepsInv, PTL DEF Spec

\* chunk_text returns with every line of the file in a chunk.
THEOREM ChunkerCoversTheFile == Spec => []EveryLineIsCovered
  <1>1. ChunkerInv => EveryLineIsCovered
    BY DEF ChunkerInv, WindowInPlace, CoveredSoFar, EveryLineIsCovered
  <1> QED
    BY <1>1, ChunkerInvariant, PTL

\* Every chunk is as long as the limits allow and no longer.
THEOREM ChunkerFillsItsWindows == Spec => []ChunksAreMaximal
  <1>1. ChunkerInv => ChunksAreMaximal
    BY DEF ChunkerInv
  <1> QED
    BY <1>1, ChunkerInvariant, PTL

-----------------------------------------------------------------------------
(***************************************************************************)
(* LlamaEmbedder::embed_many.  The places of the texts' tokens are given   *)
(* by offsets: the tokens of the texts before each text.  They exist       *)
(* because they grow with token_lists.                                     *)
(***************************************************************************)
IsOffsets(off, lists) ==
    /\ off \in [0..Len(lists) -> Nat]
    /\ off[0] = 0
    /\ \A k \in 1..Len(lists) : off[k] = off[k - 1] + lists[k]
    /\ \A j, k \in 0..Len(lists) : j <= k => off[j] <= off[k]

CellSet == [text : Nat, pos : Nat, seq : Nat]

EmbedTypeOK ==
    /\ texts \in Seq(Nat)
    /\ stage \in {"idle", "tokenize", "gather", "fill", "read", "returned", "thrown"}
    /\ tokenLists \in Seq(Nat)
    /\ first \in Nat /\ last \in Nat /\ sequence \in Nat
    /\ tokenCount \in Nat /\ tokenOffset \in Nat
    /\ batch \in Seq(CellSet)
    /\ pooled \in BOOLEAN
    /\ vectors \in Seq(SUBSET (Nat \X Nat))

\* The lists are those of the texts, and each fits a batch of its own.
ListsFollowTexts ==
    /\ Len(tokenLists) <= Len(texts)
    /\ \A i \in 1..Len(tokenLists) : tokenLists[i] = texts[i] /\ tokenLists[i] \in 1..BatchSize
    /\ stage \in {"gather", "fill", "read", "returned"} => Len(tokenLists) = Len(texts)

\* How far the loop over the batches has got, and how many vectors it has.
BatchInPlace ==
    /\ first <= last /\ last <= Len(tokenLists)
    /\ stage = "idle" => tokenLists = << >>
    /\ stage \in {"idle", "tokenize"} => last = 0 /\ vectors = << >>
    /\ stage = "gather" => /\ Len(vectors) = first
                           /\ first < Len(tokenLists)
                           /\ batch = << >>
    /\ stage = "fill" => /\ Len(vectors) = first
                         /\ first < last /\ first <= sequence /\ sequence <= last
    /\ stage = "read" => /\ Len(vectors) = sequence
                         /\ first < last /\ first <= sequence /\ sequence <= last
    /\ stage = "returned" => Len(vectors) = Len(texts)

Cell(s, p) == [text |-> s + 1, pos |-> p - 1, seq |-> s - first]

\* The batch holds the tokens of the texts first+1 .. upto and nothing else.
Holds(off, upto) ==
    /\ Len(batch) = off[upto] - off[first]
    /\ \A s \in first..(upto - 1) : \A p \in 1..tokenLists[s + 1] :
          batch[off[s] - off[first] + p] = Cell(s, p)
    /\ \A i \in 1..Len(batch) : \E s \in first..(upto - 1) : \E p \in 1..tokenLists[s + 1] :
          batch[i] = Cell(s, p)

\* What was counted for the batch, what is in it and where the reading is.
BatchContents(off) ==
    /\ IsOffsets(off, tokenLists)
    /\ stage \in {"gather", "fill", "read"} =>
          tokenCount = off[last] - off[first] /\ tokenCount <= BatchSize
    /\ stage = "fill" => Holds(off, sequence)
    /\ stage = "read" => Holds(off, last) /\ tokenOffset = off[sequence] - off[first]

VectorsInOrder == \A i \in 1..Len(vectors) : vectors[i] = VectorOf(i)

EmbedInv ==
    /\ EmbedTypeOK
    /\ ListsFollowTexts
    /\ BatchInPlace
    /\ \E off : BatchContents(off)
    /\ VectorsInOrder

\* What a step of the embedder may use.
LEMMA EmbedFacts ==
    ASSUME EmbedTypeOK, BatchInPlace
    PROVE  /\ Len(texts) \in Nat /\ Len(tokenLists) \in Nat
           /\ Len(batch) \in Nat /\ Len(vectors) \in Nat
           /\ first \in 0..Len(tokenLists) /\ last \in 0..Len(tokenLists)
           /\ BatchSize \in Nat /\ ContextSize \in Nat /\ BatchSize <= ContextSize
  BY EmbedderAssumption DEF EmbedTypeOK, BatchInPlace

\* Appending to and concatenating sequences.
LEMMA AppendFacts ==
    ASSUME NEW S, NEW s \in Seq(S), NEW e \in S
    PROVE  /\ Append(s, e) \in Seq(S)
           /\ Len(s) \in Nat
           /\ Len(Append(s, e)) = Len(s) + 1
           /\ \A i \in 1..Len(s) : Append(s, e)[i] = s[i]
           /\ Append(s, e)[Len(s) + 1] = e
  OBVIOUS

LEMMA ConcatFacts ==
    ASSUME NEW S, NEW s \in Seq(S), NEW n \in Nat, NEW t \in [1..n -> S]
    PROVE  /\ s \o t \in Seq(S)
           /\ Len(s) \in Nat
           /\ Len(s \o t) = Len(s) + n
           /\ \A i \in 1..Len(s) : (s \o t)[i] = s[i]
           /\ \A p \in 1..n : (s \o t)[Len(s) + p] = t[p]
  <1>1. t \in Seq(S) /\ Len(t) = n
    OBVIOUS
  <1> QED
    BY <1>1

\* A call begins.
LEMMA EmbedBatchKeepsInv ==
    ASSUME EmbedInv, NEW ts \in Seq(Nat), EmbedBatch(ts)
    PROVE  EmbedInv'
  <1>1. /\ stage = "idle" /\ texts' = ts /\ stage' = "tokenize" /\ pooled' \in BOOLEAN
        /\ UNCHANGED <<tokenLists, first, last, tokenCount, sequence, batch, tokenOffset, vectors>>
    BY DEF EmbedBatch
  <1>2. tokenLists = << >> /\ vectors = << >> /\ last = 0 /\ Len(ts) \in Nat
    BY <1>1 DEF EmbedInv, BatchInPlace
  <1>3. EmbedTypeOK'
    BY <1>1 DEF EmbedInv, EmbedTypeOK
  <1>4. ListsFollowTexts' /\ BatchInPlace' /\ VectorsInOrder'
    BY <1>1, <1>2 DEF EmbedInv, ListsFollowTexts, BatchInPlace, VectorsInOrder
  <1>5. \E off : BatchContents(off)'
    BY <1>1 DEF EmbedInv, BatchContents
  <1> QED
    BY <1>3, <1>4, <1>5 DEF EmbedInv

\* A text is tokenized, or rejected.
LEMMA TokenizeKeepsInv ==
    ASSUME EmbedInv, Tokenize
    PROVE  EmbedInv'
  <1>1. /\ EmbedTypeOK /\ ListsFollowTexts /\ BatchInPlace /\ VectorsInOrder
        /\ stage = "tokenize" /\ Len(tokenLists) < Len(texts)
        /\ UNCHANGED <<texts, first, last, tokenCount, sequence, batch, pooled, tokenOffset, vectors>>
        /\ vectors = << >> /\ last = 0
    BY DEF EmbedInv, BatchInPlace, Tokenize
  <1>2. /\ Len(texts) \in Nat /\ Len(tokenLists) \in Nat
        /\ BatchSize \in Nat /\ ContextSize \in Nat /\ BatchSize <= ContextSize
    BY <1>1, EmbedFacts
  <1>3. PICK off : BatchContents(off)
    BY DEF EmbedInv
  <1>4. VectorsInOrder'
    BY <1>1 DEF VectorsInOrder
  <1>5. CASE Rejected
    <2>1. stage' = "thrown" /\ tokenLists' = tokenLists
      BY <1>5 DEF Tokenize
    <2>2. EmbedTypeOK' /\ ListsFollowTexts' /\ BatchInPlace'
      BY <1>1, <2>1 DEF EmbedTypeOK, ListsFollowTexts, BatchInPlace
    <2>3. BatchContents(off)'
      BY <1>1, <1>3, <2>1 DEF BatchContents
    <2> QED
      BY <1>4, <2>2, <2>3 DEF EmbedInv
  <1>6. CASE ~Rejected
    <2> DEFINE n == Len(tokenLists)
               t == texts[Len(tokenLists) + 1]
               off2 == [k \in 0..(n + 1) |-> IF k = n + 1 THEN off[n] + t ELSE off[k]]
    <2>1. tokenLists' = Append(tokenLists, t) /\ stage' = stage
      BY <1>6 DEF Tokenize, NextText
    <2>2. t \in 1..BatchSize
      <3>1. t \in Nat
        BY <1>1, <1>2 DEF EmbedTypeOK
      <3> QED
        BY <1>2, <1>6, <3>1 DEF Rejected, NextText, Empty
    <2>3. t \in Nat /\ n \in Nat
      BY <1>2, <2>2
    <2>4. /\ tokenLists' \in Seq(Nat)
          /\ Len(tokenLists') = n + 1
          /\ \A i \in 1..n : tokenLists'[i] = tokenLists[i]
          /\ tokenLists'[n + 1] = t
      BY <1>1, <2>1, <2>3, AppendFacts DEF EmbedTypeOK
    <2>5. EmbedTypeOK'
      BY <1>1, <2>1, <2>4 DEF EmbedTypeOK
    <2>6. ListsFollowTexts'
      <3>1. ASSUME NEW i \in 1..(n + 1)
            PROVE  tokenLists'[i] = texts[i] /\ tokenLists'[i] \in 1..BatchSize
        <4>1. CASE i = n + 1
          BY <2>2, <2>4, <4>1
        <4>2. CASE i \in 1..n
          BY <1>1, <2>4, <4>2 DEF ListsFollowTexts
        <4> QED
          BY <2>3, <4>1, <4>2
      <3> QED
        BY <1>1, <1>2, <2>1, <2>4, <3>1 DEF ListsFollowTexts
    <2>7. BatchInPlace'
      BY <1>1, <1>2, <2>1, <2>4 DEF BatchInPlace, EmbedTypeOK
    <2>8. IsOffsets(off2, tokenLists')
      <3>1. /\ off \in [0..n -> Nat] /\ off[0] = 0
            /\ \A k \in 1..n : off[k] = off[k - 1] + tokenLists[k]
            /\ \A j, k \in 0..n : j <= k => off[j] <= off[k]
        BY <1>3 DEF BatchContents, IsOffsets
      <3>2. n \in 0..n /\ off[n] \in Nat
        BY <2>3, <3>1
      <3>3. off2 \in [0..(n + 1) -> Nat] /\ off2[0] = 0
        BY <2>3, <3>1, <3>2
      <3>4. /\ \A k \in 0..n : off2[k] = off[k]
            /\ off2[n + 1] = off[n] + t
        BY <2>3
      <3> HIDE DEF off2, t, n
      <3>5. ASSUME NEW k \in 1..(n + 1) PROVE off2[k] = off2[k - 1] + tokenLists'[k]
        <4>1. CASE k = n + 1
          BY <2>3, <2>4, <3>2, <3>4, <4>1
        <4>2. CASE k \in 1..n
          <5>1. k \in 0..n /\ k - 1 \in 0..n
            BY <2>3, <4>2
          <5> QED
            BY <2>4, <3>1, <3>4, <4>2, <5>1
        <4> QED
          BY <2>3, <4>1, <4>2
      <3>6. ASSUME NEW j \in 0..(n + 1), NEW k \in 0..(n + 1), j <= k
            PROVE  off2[j] <= off2[k]
        <4>1. CASE k \in 0..n
          <5>1. j \in 0..n
            BY <2>3, <3>6, <4>1
          <5> QED
            BY <3>1, <3>4, <3>6, <4>1, <5>1
        <4>2. CASE k = n + 1 /\ j \in 0..n
          <5>1. off[j] \in Nat /\ off[j] <= off[n]
            BY <2>3, <3>1, <3>2, <4>2
          <5> QED
            BY <2>3, <3>2, <3>4, <4>2, <5>1
        <4>3. CASE k = n + 1 /\ j = n + 1
          BY <3>2, <3>4, <2>3, <4>3
        <4> QED
          BY <2>3, <4>1, <4>2, <4>3
      <3> QED
        BY <2>4, <3>3, <3>5, <3>6 DEF IsOffsets
    <2>9. PICK new : IsOffsets(new, tokenLists')
      BY <2>8
    <2>10. BatchContents(new)'
      BY <1>1, <2>1, <2>9 DEF BatchContents
    <2> QED
      BY <1>4, <2>5, <2>6, <2>7, <2>10 DEF EmbedInv
  <1> QED
    BY <1>5, <1>6

\* A new batch, or the end of the call.
LEMMA BeginBatchKeepsInv ==
    ASSUME EmbedInv, BeginBatch
    PROVE  EmbedInv'
  <1>1. /\ EmbedTypeOK /\ ListsFollowTexts /\ BatchInPlace /\ VectorsInOrder
        /\ first' = last /\ tokenCount' = 0 /\ batch' = << >>
        /\ stage' = IF last < Len(tokenLists) THEN "gather" ELSE "returned"
        /\ UNCHANGED <<texts, tokenLists, last, sequence, pooled, tokenOffset, vectors>>
    BY DEF EmbedInv, BeginBatch
  <1>2. /\ Len(texts) \in Nat /\ Len(tokenLists) \in Nat
        /\ last \in 0..Len(tokenLists) /\ BatchSize \in Nat
    BY <1>1, EmbedFacts
  <1>3. Len(vectors) = last /\ Len(tokenLists) = Len(texts)
    <2>1. CASE stage = "tokenize"
      BY <1>1, <2>1 DEF BeginBatch, BatchInPlace
    <2>2. CASE stage = "read" /\ sequence = last
      BY <1>1, <2>2 DEF BatchInPlace, ListsFollowTexts
    <2> QED
      BY <2>1, <2>2 DEF BeginBatch
  <1>4. PICK off : BatchContents(off)
    BY DEF EmbedInv
  <1>5. EmbedTypeOK' /\ ListsFollowTexts' /\ VectorsInOrder'
    BY <1>1, <1>3 DEF EmbedTypeOK, ListsFollowTexts, VectorsInOrder, VectorOf
  <1>6. BatchInPlace'
    BY <1>1, <1>2, <1>3 DEF BatchInPlace
  <1>7. BatchContents(off)'
    <2>1. off[last] \in Nat
      BY <1>2, <1>4 DEF BatchContents, IsOffsets
    <2> QED
      BY <1>1, <1>2, <1>4, <2>1 DEF BatchContents
  <1> QED
    BY <1>5, <1>6, <1>7 DEF EmbedInv

\* One more text joins the batch.
LEMMA GatherKeepsInv ==
    ASSUME EmbedInv, Gather
    PROVE  EmbedInv'
  <1>1. /\ EmbedTypeOK /\ ListsFollowTexts /\ BatchInPlace /\ VectorsInOrder
        /\ stage = "gather" /\ TakesNext
        /\ tokenCount' = tokenCount + tokenLists[last + 1] /\ last' = last + 1
        /\ UNCHANGED <<texts, stage, tokenLists, first, sequence, batch, pooled, tokenOffset,
                       vectors>>
    BY DEF EmbedInv, Gather
  <1>2. /\ Len(tokenLists) \in Nat /\ last \in 0..Len(tokenLists)
        /\ first \in 0..Len(tokenLists) /\ last < Len(tokenLists)
    BY <1>1, EmbedFacts DEF TakesNext
  <1>3. PICK off : BatchContents(off)
    BY DEF EmbedInv
  <1>4. tokenLists[last + 1] \in Nat
    BY <1>1, <1>2 DEF EmbedTypeOK
  <1>5. EmbedTypeOK' /\ ListsFollowTexts' /\ VectorsInOrder'
    <2>1. tokenCount' \in Nat /\ last' \in Nat
      BY <1>1, <1>4 DEF EmbedTypeOK
    <2>2. EmbedTypeOK'
      BY <1>1, <2>1 DEF EmbedTypeOK
    <2> QED
      BY <1>1, <2>2 DEF ListsFollowTexts, VectorsInOrder, VectorOf
  <1>6. BatchInPlace'
    <2>1. first <= last + 1 /\ last + 1 <= Len(tokenLists)
      BY <1>1, <1>2 DEF BatchInPlace
    <2> QED
      BY <1>1, <2>1 DEF BatchInPlace
  <1>7. BatchContents(off)'
    <2>1. last + 1 \in 1..Len(tokenLists) /\ (last + 1) - 1 = last
      BY <1>2
    <2>2. off[last + 1] = off[last] + tokenLists[last + 1]
      <3>1. \A k \in 1..Len(tokenLists) : off[k] = off[k - 1] + tokenLists[k]
        BY <1>3 DEF BatchContents, IsOffsets
      <3>2. off[last + 1] = off[(last + 1) - 1] + tokenLists[last + 1]
        BY <2>1, <3>1
      <3> QED
        BY <2>1, <3>2
    <2>3. off[last] \in Nat /\ off[first] \in Nat
      BY <1>2, <1>3 DEF BatchContents, IsOffsets
    <2>4. tokenCount' = off[last + 1] - off[first] /\ tokenCount' <= BatchSize
      BY <1>1, <1>3, <1>4, <2>2, <2>3 DEF BatchContents, TakesNext
    <2> QED
      BY <1>1, <1>3, <2>4 DEF BatchContents
  <1> QED
    BY <1>5, <1>6, <1>7 DEF EmbedInv

\* A list that was accepted fits an empty batch.
LEMMA AnEmptyBatchTakesOne ==
    ASSUME EmbedInv, stage = "gather", last = first
    PROVE  TakesNext
  <1>1. /\ EmbedTypeOK /\ ListsFollowTexts /\ BatchInPlace
        /\ first < Len(tokenLists)
    BY DEF EmbedInv, BatchInPlace
  <1>2. Len(tokenLists) \in Nat /\ last \in 0..Len(tokenLists) /\ BatchSize \in Nat
    BY <1>1, EmbedFacts
  <1>3. last + 1 \in 1..Len(tokenLists)
    BY <1>1, <1>2
  <1>4. tokenLists[last + 1] \in 1..BatchSize
    BY <1>1, <1>3 DEF ListsFollowTexts
  <1>5. PICK off : BatchContents(off)
    BY DEF EmbedInv
  <1>6. off[last] \in Nat /\ tokenCount = off[last] - off[last]
    BY <1>2, <1>5 DEF BatchContents, IsOffsets
  <1> QED
    BY <1>1, <1>2, <1>4, <1>6 DEF TakesNext

\* The context and the batch are allocated.
LEMMA AllocateKeepsInv ==
    ASSUME EmbedInv, Allocate
    PROVE  EmbedInv'
  <1>1. /\ EmbedTypeOK /\ ListsFollowTexts /\ BatchInPlace /\ VectorsInOrder
        /\ stage = "gather" /\ last # first /\ stage' = "fill" /\ sequence' = first
        /\ UNCHANGED <<texts, tokenLists, first, last, tokenCount, batch, pooled, tokenOffset,
                       vectors>>
    BY AnEmptyBatchTakesOne DEF EmbedInv, Allocate
  <1>2. /\ Len(tokenLists) \in Nat /\ first \in 0..Len(tokenLists)
        /\ last \in 0..Len(tokenLists)
    BY <1>1, EmbedFacts
  <1>3. PICK off : BatchContents(off)
    BY DEF EmbedInv
  <1>4. EmbedTypeOK' /\ ListsFollowTexts' /\ VectorsInOrder'
    BY <1>1 DEF EmbedTypeOK, ListsFollowTexts, VectorsInOrder, VectorOf
  <1>5. BatchInPlace'
    BY <1>1, <1>2 DEF BatchInPlace
  <1>6. BatchContents(off)'
    <2>1. off[first] \in Nat /\ Len(batch) = 0
      BY <1>1, <1>2, <1>3 DEF BatchContents, IsOffsets, BatchInPlace
    <2>2. Holds(off, sequence)'
      BY <1>1, <1>2, <2>1 DEF Holds
    <2> QED
      BY <1>1, <1>3, <2>2 DEF BatchContents
  <1> QED
    BY <1>4, <1>5, <1>6 DEF EmbedInv

\* The tokens of one text are added to the batch.
LEMMA FillBatchKeepsInv ==
    ASSUME EmbedInv, FillBatch
    PROVE  EmbedInv'
  <1> DEFINE n == tokenLists[sequence + 1]
             added == [p \in 1..n |-> Cell(sequence, p)]
  <1>1. /\ EmbedTypeOK /\ ListsFollowTexts /\ BatchInPlace /\ VectorsInOrder
        /\ stage = "fill" /\ sequence < last /\ first <= sequence
        /\ batch' = batch \o added /\ sequence' = sequence + 1
        /\ UNCHANGED <<texts, stage, tokenLists, first, last, tokenCount, pooled, tokenOffset,
                       vectors>>
    BY DEF EmbedInv, BatchInPlace, FillBatch, SequenceId, Cell
  <1>2. /\ Len(tokenLists) \in Nat /\ first \in 0..Len(tokenLists)
        /\ last \in 0..Len(tokenLists) /\ sequence \in Nat /\ Len(batch) \in Nat
    BY <1>1, EmbedFacts DEF EmbedTypeOK
  <1>3. sequence + 1 \in 1..Len(tokenLists) /\ n \in Nat
    BY <1>1, <1>2 DEF EmbedTypeOK
  <1>4. PICK off : BatchContents(off)
    BY DEF EmbedInv
  <1>5. Holds(off, sequence)
    BY <1>1, <1>4 DEF BatchContents
  <1>6. /\ off[sequence + 1] = off[sequence] + n
        /\ off[sequence] \in Nat /\ off[first] \in Nat
    <2>1. /\ off \in [0..Len(tokenLists) -> Nat]
          /\ \A k \in 1..Len(tokenLists) : off[k] = off[k - 1] + tokenLists[k]
      BY <1>4 DEF BatchContents, IsOffsets
    <2>2. off[sequence + 1] = off[(sequence + 1) - 1] + tokenLists[sequence + 1]
      BY <1>3, <2>1
    <2>3. (sequence + 1) - 1 = sequence /\ sequence \in 0..Len(tokenLists)
      BY <1>2, <1>3
    <2> QED
      BY <1>2, <2>1, <2>2, <2>3
  <1>7. added \in [1..n -> CellSet]
    <2>1. ASSUME NEW p \in 1..n PROVE Cell(sequence, p) \in CellSet
      BY <1>1, <1>2, <1>3 DEF Cell, CellSet
    <2> QED
      BY <2>1
  <1>8. /\ batch' \in Seq(CellSet)
        /\ Len(batch') = Len(batch) + n
        /\ \A i \in 1..Len(batch) : batch'[i] = batch[i]
        /\ \A p \in 1..n : batch'[Len(batch) + p] = Cell(sequence, p)
    <2>1. batch \in Seq(CellSet)
      BY <1>1 DEF EmbedTypeOK
    <2>2. /\ batch \o added \in Seq(CellSet)
          /\ Len(batch \o added) = Len(batch) + n
          /\ \A i \in 1..Len(batch) : (batch \o added)[i] = batch[i]
          /\ \A p \in 1..n : (batch \o added)[Len(batch) + p] = added[p]
      <3> HIDE DEF added, n
      <3> QED
        BY <1>3, <1>7, <2>1, ConcatFacts
    <2> QED
      BY <1>1, <2>2
  <1>9. EmbedTypeOK' /\ ListsFollowTexts' /\ VectorsInOrder'
    <2>1. sequence' \in Nat
      BY <1>1, <1>2
    <2>2. EmbedTypeOK'
      BY <1>1, <1>8, <2>1 DEF EmbedTypeOK
    <2> QED
      BY <1>1, <2>2 DEF ListsFollowTexts, VectorsInOrder, VectorOf
  <1>10. BatchInPlace'
    <2>1. first <= sequence + 1 /\ sequence + 1 <= last
      BY <1>1, <1>2
    <2> QED
      BY <1>1, <2>1 DEF BatchInPlace
  <1>11. Holds(off, sequence)'
    <2>0. \A s, p : Cell(s, p)' = Cell(s, p)
      BY <1>1 DEF Cell
    <2> HIDE DEF added
    <2>1. Len(batch) = off[sequence] - off[first]
      BY <1>5 DEF Holds
    <2>2. Len(batch') = off[sequence + 1] - off[first]
      BY <1>6, <1>8, <1>3, <2>1
    <2>3. ASSUME NEW s \in first..sequence, NEW p \in 1..tokenLists[s + 1]
          PROVE  batch'[off[s] - off[first] + p] = Cell(s, p)
      <3>1. CASE s = sequence
        BY <1>8, <2>1, <2>3, <3>1
      <3>2. CASE s \in first..(sequence - 1)
        <4>1. /\ s \in 0..Len(tokenLists) /\ s + 1 \in 0..Len(tokenLists)
              /\ s + 1 \in 1..Len(tokenLists) /\ s + 1 <= sequence /\ first <= s
              /\ (s + 1) - 1 = s /\ sequence \in 0..Len(tokenLists)
          BY <1>1, <1>2, <1>3, <3>2
        <4>2. /\ off[s] \in Nat /\ off[s + 1] \in Nat /\ off[sequence] \in Nat
              /\ off[s + 1] <= off[sequence] /\ off[first] <= off[s]
          BY <1>2, <1>4, <4>1 DEF BatchContents, IsOffsets
        <4>3. off[s + 1] = off[(s + 1) - 1] + tokenLists[s + 1]
          BY <1>4, <4>1 DEF BatchContents, IsOffsets
        <4>4. tokenLists[s + 1] \in Nat
          BY <1>1, <4>1 DEF EmbedTypeOK
        <4>5. off[s] - off[first] + p \in 1..Len(batch)
          <5>1. off[s + 1] = off[s] + tokenLists[s + 1]
            BY <4>1, <4>3
          <5>2. p \in Int /\ 1 <= p /\ p <= tokenLists[s + 1]
            BY <4>4
          <5>3. off[s] - off[first] + p <= off[sequence] - off[first]
            BY <1>6, <4>2, <4>4, <5>1, <5>2
          <5>4. off[s] - off[first] + p \in Int /\ 1 <= off[s] - off[first] + p
            BY <1>6, <4>2, <5>2
          <5> QED
            BY <1>2, <2>1, <5>3, <5>4
        <4>6. batch[off[s] - off[first] + p] = Cell(s, p)
          BY <1>5, <2>3, <3>2 DEF Holds
        <4> QED
          BY <1>8, <4>5, <4>6
      <3> QED
        BY <1>2, <3>1, <3>2
    <2>4. ASSUME NEW i \in 1..Len(batch')
          PROVE  \E s \in first..sequence : \E p \in 1..tokenLists[s + 1] :
                     batch'[i] = Cell(s, p)
      <3>1. CASE i \in 1..Len(batch)
        <4>1. PICK s \in first..(sequence - 1) : \E p \in 1..tokenLists[s + 1] :
                  batch[i] = Cell(s, p)
          BY <1>5, <3>1 DEF Holds
        <4>2. s \in first..sequence
          BY <1>2
        <4> QED
          BY <1>8, <3>1, <4>1, <4>2
      <3>2. CASE i \notin 1..Len(batch)
        <4>1. i - Len(batch) \in 1..n /\ i = Len(batch) + (i - Len(batch))
          BY <1>2, <1>3, <1>8, <3>2
        <4>2. sequence \in first..sequence
          BY <1>1, <1>2
        <4> QED
          BY <1>8, <4>1, <4>2
      <3> QED
        BY <3>1, <3>2
    <2>5. (sequence + 1) - 1 = sequence
      BY <1>2
    <2> QED
      BY <1>1, <2>0, <2>2, <2>3, <2>4, <2>5 DEF Holds
  <1>12. BatchContents(off)'
    BY <1>1, <1>4, <1>11 DEF BatchContents
  <1> QED
    BY <1>9, <1>10, <1>12 DEF EmbedInv

\* The batch is evaluated.
LEMMA EvaluateKeepsInv ==
    ASSUME EmbedInv, Evaluate
    PROVE  EmbedInv'
  <1>1. /\ EmbedTypeOK /\ ListsFollowTexts /\ BatchInPlace /\ VectorsInOrder
        /\ stage = "fill" /\ sequence = last
        /\ stage' = "read" /\ sequence' = first /\ tokenOffset' = 0
        /\ UNCHANGED <<texts, tokenLists, first, last, tokenCount, batch, pooled, vectors>>
    BY DEF EmbedInv, Evaluate
  <1>2. first \in 0..Len(tokenLists) /\ last \in 0..Len(tokenLists) /\ Len(tokenLists) \in Nat
    BY <1>1, EmbedFacts
  <1>3. PICK off : BatchContents(off)
    BY DEF EmbedInv
  <1>4. EmbedTypeOK' /\ ListsFollowTexts' /\ VectorsInOrder'
    BY <1>1 DEF EmbedTypeOK, ListsFollowTexts, VectorsInOrder, VectorOf
  <1>5. BatchInPlace'
    BY <1>1, <1>2 DEF BatchInPlace
  <1>6. BatchContents(off)'
    <2>1. off[first] \in Nat
      BY <1>2, <1>3 DEF BatchContents, IsOffsets
    <2>2. Holds(off, last)'
      BY <1>1, <1>3 DEF BatchContents, Holds, Cell
    <2> QED
      BY <1>1, <1>3, <2>1, <2>2 DEF BatchContents
  <1> QED
    BY <1>4, <1>5, <1>6 DEF EmbedInv

\* The vector of one text is read.
LEMMA ReadVectorKeepsInv ==
    ASSUME EmbedInv, ReadVector
    PROVE  EmbedInv'
  <1> DEFINE n == tokenLists[sequence + 1]
             v == IF pooled THEN OfSequence ELSE LastOfText
  <1>1. /\ EmbedTypeOK /\ ListsFollowTexts /\ BatchInPlace /\ VectorsInOrder
        /\ stage = "read" /\ sequence < last /\ first <= sequence /\ Len(vectors) = sequence
        /\ vectors' = Append(vectors, v) /\ tokenOffset' = tokenOffset + n
        /\ sequence' = sequence + 1
        /\ UNCHANGED <<texts, stage, tokenLists, first, last, tokenCount, batch, pooled>>
    BY DEF EmbedInv, BatchInPlace, ReadVector
  <1>2. /\ Len(tokenLists) \in Nat /\ first \in 0..Len(tokenLists)
        /\ last \in 0..Len(tokenLists) /\ sequence \in Nat /\ Len(batch) \in Nat
        /\ tokenOffset \in Nat
    BY <1>1, EmbedFacts DEF EmbedTypeOK
  <1>3. /\ sequence + 1 \in 1..Len(tokenLists) /\ n \in Nat /\ n >= 1
        /\ texts[sequence + 1] = n
    BY <1>1, <1>2, EmbedderAssumption DEF ListsFollowTexts
  <1>4. PICK off : BatchContents(off)
    BY DEF EmbedInv
  <1>5. /\ Holds(off, last) /\ tokenOffset = off[sequence] - off[first]
    BY <1>1, <1>4 DEF BatchContents
  <1>6. /\ off[sequence + 1] = off[sequence] + n
        /\ off[sequence] \in Nat /\ off[first] \in Nat
    <2>1. /\ off \in [0..Len(tokenLists) -> Nat]
          /\ \A k \in 1..Len(tokenLists) : off[k] = off[k - 1] + tokenLists[k]
      BY <1>4 DEF BatchContents, IsOffsets
    <2>2. off[sequence + 1] = off[(sequence + 1) - 1] + tokenLists[sequence + 1]
      BY <1>3, <2>1
    <2>3. (sequence + 1) - 1 = sequence /\ sequence \in 0..Len(tokenLists)
      BY <1>2, <1>3
    <2> QED
      BY <1>2, <2>1, <2>2, <2>3
  <1>7. sequence \in first..(last - 1)
    BY <1>1, <1>2
  <1>8. \A p \in 1..n : batch[tokenOffset + p] = Cell(sequence, p)
    BY <1>5, <1>7 DEF Holds
  <1>9. v = VectorOf(sequence + 1)
    <2>1. CASE pooled
      <3>1. v = OfSequence /\ VectorOf(sequence + 1) = {<<sequence + 1, p>> : p \in 0..(n - 1)}
        BY <1>3, <2>1 DEF VectorOf
      <3>2. ASSUME NEW i \in 1..Len(batch), batch[i].seq = sequence - first
            PROVE  <<batch[i].text, batch[i].pos>> \in {<<sequence + 1, p>> : p \in 0..(n - 1)}
        <4>1. PICK s \in first..(last - 1) :
                  \E p \in 1..tokenLists[s + 1] : batch[i] = Cell(s, p)
          BY <1>5 DEF Holds
        <4>2. PICK p \in 1..tokenLists[s + 1] : batch[i] = Cell(s, p)
          BY <4>1
        <4>3. s - first = sequence - first /\ batch[i].text = s + 1 /\ batch[i].pos = p - 1
          BY <3>2, <4>2 DEF Cell
        <4>4. s = sequence
          BY <1>2, <4>3
        <4>5. p - 1 \in 0..(n - 1)
          BY <1>3, <4>4
        <4> QED
          BY <4>3, <4>4, <4>5
      <3>3. ASSUME NEW p \in 0..(n - 1)
            PROVE  \E i \in 1..Len(batch) :
                      /\ batch[i].seq = sequence - first
                      /\ batch[i].text = sequence + 1 /\ batch[i].pos = p
        <4>1. p + 1 \in 1..n /\ (p + 1) - 1 = p
          BY <1>3
        <4>2. batch[tokenOffset + (p + 1)] = Cell(sequence, p + 1)
          BY <1>8, <4>1
        <4>3. tokenOffset + (p + 1) \in 1..Len(batch)
          <5>1. off[last] \in Nat /\ off[sequence + 1] <= off[last]
            <6>1. sequence + 1 \in 0..Len(tokenLists) /\ sequence + 1 <= last
              BY <1>1, <1>2, <1>3
            <6> QED
              BY <1>2, <1>4, <6>1 DEF BatchContents, IsOffsets
          <5>2. Len(batch) = off[last] - off[first]
            BY <1>5 DEF Holds
          <5> QED
            <6>1. tokenOffset + (p + 1) <= off[last] - off[first]
              BY <1>3, <1>5, <1>6, <4>1, <5>1
            <6>2. tokenOffset + (p + 1) \in Int /\ 1 <= tokenOffset + (p + 1)
              BY <1>2, <4>1
            <6> QED
              BY <1>2, <5>2, <6>1, <6>2
        <4> QED
          BY <4>1, <4>2, <4>3 DEF Cell
      <3>4. OfSequence = {<<c.text, c.pos>> : c \in {d \in {batch[i] : i \in 1..Len(batch)} :
                                                        d.seq = sequence - first}}
        BY DEF OfSequence, Tokens
      <3>5. OfSequence \subseteq {<<sequence + 1, p>> : p \in 0..(n - 1)}
        BY <3>2, <3>4
      <3>6. {<<sequence + 1, p>> : p \in 0..(n - 1)} \subseteq OfSequence
        BY <3>3, <3>4
      <3> QED
        BY <3>1, <3>5, <3>6
    <2>2. CASE ~pooled
      <3>1. n \in 1..n
        BY <1>3
      <3>2. batch[tokenOffset + n] = Cell(sequence, n)
        BY <1>8, <3>1
      <3>3. LastOfText = {<<sequence + 1, n - 1>>}
        BY <3>2 DEF LastOfText, Tokens, Cell
      <3> QED
        BY <1>3, <2>2, <3>3 DEF VectorOf
    <2> QED
      BY <2>1, <2>2
  <1>10. v \in SUBSET (Nat \X Nat)
    BY <1>2, <1>3, <1>9 DEF VectorOf
  <1> HIDE DEF v, n
  <1>11. /\ vectors' \in Seq(SUBSET (Nat \X Nat))
         /\ Len(vectors') = sequence + 1
         /\ \A i \in 1..sequence : vectors'[i] = vectors[i]
         /\ vectors'[sequence + 1] = v
    <2> DEFINE V == SUBSET (Nat \X Nat)
    <2>1. vectors \in Seq(V)
      BY <1>1 DEF EmbedTypeOK
    <2>2. v \in V
      BY <1>10
    <2> HIDE DEF V
    <2>3. /\ vectors' \in Seq(V)
          /\ Len(vectors') = Len(vectors) + 1
          /\ \A i \in 1..Len(vectors) : vectors'[i] = vectors[i]
          /\ vectors'[Len(vectors) + 1] = v
      BY <1>1, <2>1, <2>2, AppendFacts
    <2> USE DEF V
    <2> QED
      BY <1>1, <2>3
  <1>12. EmbedTypeOK' /\ ListsFollowTexts'
    <2>1. sequence' \in Nat /\ tokenOffset' \in Nat
      BY <1>1, <1>2, <1>3
    <2> QED
      BY <1>1, <1>11, <2>1 DEF EmbedTypeOK, ListsFollowTexts
  <1>13. BatchInPlace'
    <2>1. first <= sequence + 1 /\ sequence + 1 <= last
      BY <1>1, <1>2
    <2> QED
      BY <1>1, <1>11, <2>1 DEF BatchInPlace
  <1>14. BatchContents(off)'
    <2>1. tokenOffset' = off[sequence + 1] - off[first]
      BY <1>1, <1>3, <1>5, <1>6
    <2>2. Holds(off, last)'
      BY <1>1, <1>5 DEF Holds, Cell
    <2> QED
      BY <1>1, <1>4, <2>1, <2>2 DEF BatchContents
  <1>15. VectorsInOrder'
    <2>1. \A i : VectorOf(i)' = VectorOf(i)
      BY <1>1 DEF VectorOf
    <2>2. ASSUME NEW i \in 1..(sequence + 1) PROVE vectors'[i] = VectorOf(i)
      <3>1. CASE i = sequence + 1
        BY <1>9, <1>11, <3>1
      <3>2. CASE i \in 1..sequence
        BY <1>1, <1>11, <3>2 DEF VectorsInOrder
      <3> QED
        BY <1>2, <3>1, <3>2
    <2> QED
      BY <1>11, <2>1, <2>2 DEF VectorsInOrder
  <1> QED
    BY <1>12, <1>13, <1>14, <1>15 DEF EmbedInv

\* An error ends the call.
LEMMA EvaluationFailsKeepsInv ==
    ASSUME EmbedInv, EvaluationFails
    PROVE  EmbedInv'
  <1>1. /\ EmbedTypeOK /\ ListsFollowTexts /\ BatchInPlace /\ VectorsInOrder
        /\ stage' = "thrown"
        /\ UNCHANGED <<texts, tokenLists, first, last, tokenCount, sequence, batch, pooled,
                       tokenOffset, vectors>>
    BY DEF EmbedInv, EvaluationFails
  <1>2. PICK off : BatchContents(off)
    BY DEF EmbedInv
  <1>3. EmbedTypeOK' /\ ListsFollowTexts' /\ BatchInPlace' /\ VectorsInOrder'
    BY <1>1 DEF EmbedTypeOK, ListsFollowTexts, BatchInPlace, VectorsInOrder, VectorOf
  <1>4. BatchContents(off)'
    BY <1>1, <1>2 DEF BatchContents
  <1> QED
    BY <1>3, <1>4 DEF EmbedInv

\* Before the call nothing has been counted.
LEMMA EmbedderBegins == ASSUME EmbedInit PROVE EmbedInv
  <1>1. /\ texts = << >> /\ tokenLists = << >> /\ batch = << >> /\ vectors = << >>
        /\ first = 0 /\ last = 0 /\ sequence = 0 /\ tokenCount = 0 /\ tokenOffset = 0
        /\ stage = "idle" /\ pooled = FALSE
    BY DEF EmbedInit
  <1>2. EmbedTypeOK /\ ListsFollowTexts /\ BatchInPlace /\ VectorsInOrder
    <2>1. /\ << >> \in Seq(Nat) /\ << >> \in Seq(CellSet)
          /\ << >> \in Seq(SUBSET (Nat \X Nat)) /\ Len(<< >>) = 0
      OBVIOUS
    <2>2. EmbedTypeOK
      BY <1>1, <2>1 DEF EmbedTypeOK
    <2> QED
      BY <1>1, <2>2 DEF ListsFollowTexts, BatchInPlace, VectorsInOrder
  <1>3. IsOffsets([k \in 0..0 |-> 0], << >>)
    BY DEF IsOffsets
  <1>4. PICK off : IsOffsets(off, << >>)
    BY <1>3
  <1>5. BatchContents(off)
    BY <1>1, <1>4 DEF BatchContents
  <1> QED
    BY <1>2, <1>5 DEF EmbedInv

LEMMA EmbedStepKeepsInv ==
    ASSUME EmbedInv, EmbedStep
    PROVE  EmbedInv'
  BY TokenizeKeepsInv, BeginBatchKeepsInv, GatherKeepsInv, AllocateKeepsInv,
     FillBatchKeepsInv, EvaluateKeepsInv, ReadVectorKeepsInv, EvaluationFailsKeepsInv
     DEF EmbedStep

LEMMA EmbedStutterKeepsInv ==
    ASSUME EmbedInv, UNCHANGED embedVars
    PROVE  EmbedInv'
  <1>1. /\ EmbedTypeOK /\ ListsFollowTexts /\ BatchInPlace /\ VectorsInOrder
        /\ UNCHANGED <<texts, stage, tokenLists, first, last, tokenCount, sequence, batch,
                       pooled, tokenOffset, vectors>>
    BY DEF EmbedInv, embedVars
  <1>2. PICK off : BatchContents(off)
    BY DEF EmbedInv
  <1>3. EmbedTypeOK' /\ ListsFollowTexts' /\ BatchInPlace' /\ VectorsInOrder'
    BY <1>1 DEF EmbedTypeOK, ListsFollowTexts, BatchInPlace, VectorsInOrder, VectorOf
  <1>4. BatchContents(off)'
    BY <1>1, <1>2 DEF BatchContents, Holds, Cell
  <1> QED
    BY <1>3, <1>4 DEF EmbedInv

\* What EmbedInv says of the batch that is evaluated.
LEMMA BatchesFitByInv == ASSUME EmbedInv PROVE BatchesFit
  <1>1. EmbedTypeOK /\ BatchInPlace
    BY DEF EmbedInv
  <1>2. /\ Len(tokenLists) \in Nat /\ Len(batch) \in Nat /\ sequence \in Nat
        /\ first \in 0..Len(tokenLists) /\ last \in 0..Len(tokenLists)
        /\ BatchSize \in Nat /\ ContextSize \in Nat /\ BatchSize <= ContextSize
        /\ tokenCount \in Nat
    BY <1>1, EmbedFacts DEF EmbedTypeOK
  <1>3. PICK off : BatchContents(off)
    BY DEF EmbedInv
  <1>4. \A j, k \in 0..Len(tokenLists) : off[j] \in Nat /\ (j <= k => off[j] <= off[k])
    BY <1>3 DEF BatchContents, IsOffsets
  <1>5. ASSUME NEW upto \in 0..last, Holds(off, upto), NEW i \in 1..Len(batch)
        PROVE  batch[i].seq \in 0..(last - first - 1)
    <2>1. PICK s \in first..(upto - 1) : \E p \in 1..tokenLists[s + 1] : batch[i] = Cell(s, p)
      BY <1>5 DEF Holds
    <2>2. batch[i].seq = s - first
      BY <2>1 DEF Cell
    <2> QED
      BY <1>2, <2>2
  <1>6. stage \in {"gather", "fill", "read"} =>
            tokenCount <= BatchSize /\ tokenCount <= ContextSize
    BY <1>2, <1>3 DEF BatchContents
  <1>7. CASE stage = "fill"
    <2>1. Holds(off, sequence) /\ sequence \in 0..last /\ tokenCount = off[last] - off[first]
      BY <1>1, <1>2, <1>3, <1>7 DEF BatchContents, BatchInPlace
    <2>2. Len(batch) = off[sequence] - off[first] /\ off[sequence] <= off[last]
      <3>1. Len(batch) = off[sequence] - off[first]
        BY <2>1 DEF Holds
      <3>2. sequence \in 0..Len(tokenLists) /\ sequence <= last
        BY <1>2, <2>1
      <3> QED
        BY <1>2, <1>4, <3>1, <3>2
    <2>3. /\ off[sequence] \in Nat /\ off[last] \in Nat /\ off[first] \in Nat
      BY <1>2, <1>4, <2>1
    <2>4. Len(batch) <= tokenCount
      BY <2>1, <2>2, <2>3
    <2> QED
      BY <1>5, <1>6, <1>7, <2>1, <2>4 DEF BatchesFit
  <1>8. CASE stage = "read"
    <2>1. Holds(off, last) /\ last \in 0..last /\ tokenCount = off[last] - off[first]
      BY <1>1, <1>2, <1>3, <1>8 DEF BatchContents
    <2>2. Len(batch) = tokenCount
      BY <2>1 DEF Holds
    <2>3. Len(batch) <= tokenCount
      BY <1>2, <2>2
    <2> QED
      BY <1>5, <1>6, <1>8, <2>1, <2>2, <2>3 DEF BatchesFit
  <1>9. CASE stage \notin {"fill", "read"}
    BY <1>6, <1>9, AnEmptyBatchTakesOne DEF BatchesFit
  <1> QED
    BY <1>7, <1>8, <1>9

-----------------------------------------------------------------------------
\* The texts of a file's chunks are what the embedder expects.
LEMMA TextsOfChunksType ==
    ASSUME ChunkerInv, NEW ts \in TextsOfChunks
    PROVE  ts \in Seq(Nat)
  <1>1. chunks \in Seq(Chunk) /\ Len(chunks) \in Nat
    BY DEF ChunkerInv, TypeOK
  <1>2. ts \in [1..Len(chunks) -> Nat]
    <2>1. TokenCounts \cup {Empty} \subseteq Nat
      BY TokenCountAssumption DEF Empty
    <2>2. ts \in [1..Len(chunks) -> TokenCounts \cup {Empty}]
      BY DEF TextsOfChunks
    <2> QED
      BY <2>1, <2>2
  <1> QED
    BY <1>1, <1>2

\* What IndexService::update relies on for one file: the chunks of its text
\* and the state of the embedder.
PrepareInv == ChunkerInv /\ EmbedInv

\* The inductive invariant of a file's preparation: the chunker's holds while
\* the embedder works on its chunks.
THEOREM PreparationInvariant == PrepareSpec => []PrepareInv
  <1>1. PrepareInit => PrepareInv
    BY ChunkerBegins, EmbedderBegins DEF PrepareInit, PrepareInv
  <1>2. PrepareInv /\ [PrepareNext]_<<vars, embedVars>> => PrepareInv'
    <2> SUFFICES ASSUME ChunkerInv, EmbedInv, [PrepareNext]_<<vars, embedVars>>
                 PROVE  ChunkerInv' /\ EmbedInv'
      BY DEF PrepareInv
    <2>1. CASE ChunkStep
      BY <2>1, ChunkerStepKeepsInv, EmbedStutterKeepsInv DEF ChunkStep, Next
    <2>2. CASE EmbedChunks
      <3>1. PICK ts \in TextsOfChunks : EmbedBatch(ts)
        BY <2>2 DEF EmbedChunks
      <3> QED
        BY <2>2, <3>1, TextsOfChunksType, ChunkerStepKeepsInv, EmbedBatchKeepsInv
           DEF EmbedChunks
    <2>3. CASE EmbeddingStep
      BY <2>3, ChunkerStepKeepsInv, EmbedStepKeepsInv DEF EmbeddingStep
    <2>4. CASE UNCHANGED <<vars, embedVars>>
      BY <2>4, ChunkerStepKeepsInv, EmbedStutterKeepsInv
    <2> QED
      BY <2>1, <2>2, <2>3, <2>4 DEF PrepareNext, Ended
  <1> QED
    BY <1>1, <1>2, PTL DEF PrepareSpec

\* No batch of a file's chunks is larger than what was allocated for it or
\* than the context, and every batch takes a text.
THEOREM EmbedderBatchesFit == PrepareSpec => []BatchesFit
  <1>1. PrepareInv => BatchesFit
    BY BatchesFitByInv DEF PrepareInv
  <1> QED
    BY <1>1, PreparationInvariant, PTL

\* The i-th vector is computed from the tokens of the i-th chunk, whichever
\* batch it fell into; a call that returns has a vector for every chunk.
THEOREM VectorsAreOfTheirChunks == PrepareSpec => []VectorsFollowTexts
  <1>1. PrepareInv => VectorsFollowTexts
    BY DEF PrepareInv, EmbedInv, BatchInPlace, VectorsInOrder, VectorsFollowTexts
  <1> QED
    BY <1>1, PreparationInvariant, PTL
=============================================================================
