------------------------ MODULE TextGeneratorProofs ------------------------
(***************************************************************************)
(* The loop of LlamaGenerator::generate keeps its limits for every context *)
(* size, batch size, prompt and token limit.  Then the stream: what        *)
(* emit_complete_utf8 delivers, piece by piece, is the conversion of all   *)
(* bytes at once, for every sequence of pieces.                            *)
(***************************************************************************)
EXTENDS TextGenerator, WellFoundedInduction, SequenceTheorems, TLAPS

LEMMA InitEstablishes == Init => GeneratorInv
  <1> SUFFICES ASSUME Init PROVE GeneratorInv
    OBVIOUS
  <1>1. PICK max \in MaxTokens : limit = IF Refused THEN 0 ELSE TokenLimit(max)
    BY DEF Init
  <1>2. max \in Nat /\ prompt \in Nat /\ ContextSize \in Nat
    BY GeneratorAssumption DEF Init
  <1>3. limit \in Nat /\ (prompt < ContextSize => limit <= ContextSize - prompt)
    BY <1>1, <1>2 DEF Refused, TokenLimit, Lesser
  <1>4. pc = IF Refused THEN "threw" ELSE "prefill"
    BY DEF Init
  <1>5. TypeOK
    BY <1>3, <1>4 DEF Init, TypeOK, States
  <1>6. CacheInPlace
    BY <1>2, <1>3, <1>4 DEF Init, CacheInPlace, Refused
  <1>7. LateIsLast /\ KeepsLimits
    BY <1>2, <1>3 DEF Init, LateIsLast, KeepsLimits
  <1> QED
    BY <1>5, <1>6, <1>7 DEF GeneratorInv

LEMMA StepPreserves == GeneratorInv /\ [Next]_vars => GeneratorInv'
  <1> SUFFICES ASSUME GeneratorInv, [Next]_vars PROVE GeneratorInv'
    OBVIOUS
  <1> USE DEF GeneratorInv, TypeOK, CacheInPlace, LateIsLast, KeepsLimits, States
  <1>1. /\ prompt \in Nat /\ limit \in Nat /\ cached \in Nat /\ generated \in Nat
        /\ late \in Nat /\ ContextSize \in Nat /\ BatchSize \in Nat \ {0}
    BY GeneratorAssumption
  <1>2. CASE Prefill
    <2>1. CASE cached < prompt /\ ~stop
      <3>1. BatchCount \in Nat /\ cached + BatchCount <= prompt
        BY <1>1, <2>1 DEF BatchCount, Lesser
      <3> QED
        BY <1>1, <1>2, <2>1, <3>1 DEF Prefill
    <2>2. CASE ~(cached < prompt /\ ~stop)
      BY <1>1, <1>2, <2>2 DEF Prefill
    <2> QED
      BY <2>1, <2>2
  <1>3. CASE LoopHead
    BY <1>1, <1>3 DEF LoopHead, StopSeen
  <1>4. CASE EndOfGeneration
    BY <1>1, <1>4 DEF EndOfGeneration
  <1>5. ASSUME NEW piece \in Piece, Sample(piece) PROVE GeneratorInv'
    BY <1>1, <1>5 DEF Sample
  <1>6. CASE Decode
    BY <1>1, <1>6 DEF Decode, DecodesToken
  <1>7. CASE Flush
    BY <1>1, <1>7 DEF Flush
  <1>8. CASE Throw
    BY <1>1, <1>8 DEF Throw
  <1>9. CASE RequestStop
    BY <1>1, <1>9 DEF RequestStop
  <1>10. CASE UNCHANGED vars
    BY <1>1, <1>10 DEF vars
  <1> QED
    BY <1>2, <1>3, <1>4, <1>5, <1>6, <1>7, <1>8, <1>9, <1>10 DEF Next, Generate, GenerateStep, Ended

\* The inductive invariant of generate.
THEOREM GeneratorInvariant == Safety => []GeneratorInv
  BY InitEstablishes, StepPreserves, PTL DEF Safety

\* The context is never overfilled, the answer keeps to its limit, and a
\* stop request lets at most one more token through.
THEOREM GeneratorKeepsLimits == Safety => []KeepsLimits
  <1>1. GeneratorInv => KeepsLimits
    BY DEF GeneratorInv
  <1> QED
    BY <1>1, GeneratorInvariant, PTL
-----------------------------------------------------------------------------
(***************************************************************************)
(* emit_complete_utf8 as a recursive function: it exists and is what Scan  *)
(* evaluates.  Facts about all positions of a buffer are shown from its    *)
(* end to its start.                                                       *)
(***************************************************************************)
OutByte == Byte \cup {"R"}

LEMMA LeastElement ==
    ASSUME NEW T \in SUBSET Nat, T # {}
    PROVE  \E x \in T : \A y \in T : x <= y
  <1> DEFINE Less == {ss \in Nat \X Nat : ss[1] < ss[2]}
  <1>1. IsWellFoundedOn(Less, Nat)
    BY NatLessThanWellFounded, Zenon DEF OpToRel
  <1> HIDE DEF Less
  <1>2. PICK x \in T : \A y \in T : ~(<<y, x>> \in Less)
    BY <1>1, WFMin
  <1>3. \A y \in Nat : y < x => <<y, x>> \in Less
    BY DEF Less
  <1>4. \A y \in T : ~(y < x)
    BY <1>2, <1>3
  <1>5. x \in Nat /\ \A y \in T : y \in Nat
    OBVIOUS
  <1> QED
    BY <1>4, <1>5

LEMMA FromTheEnd ==
    ASSUME NEW n \in Nat, NEW G,
           \A i \in 1..(n + 1) : (\A j \in (i + 1)..(n + 1) : j \in G) => i \in G
    PROVE  \A i \in 1..(n + 1) : i \in G
  <1> DEFINE T == {d \in Nat : d <= n /\ n + 1 - d \notin G}
  <1>1. SUFFICES ASSUME T # {} PROVE FALSE
    <2>1. SUFFICES ASSUME NEW i \in 1..(n + 1), i \notin G PROVE FALSE
      OBVIOUS
    <2>2. n + 1 - i \in Nat /\ n + 1 - i <= n /\ n + 1 - (n + 1 - i) = i
      OBVIOUS
    <2>3. n + 1 - i \in T
      BY <2>1, <2>2
    <2> QED
      BY <1>1, <2>3
  <1>2. PICK d \in T : \A e \in T : d <= e
    <2> HIDE DEF T
    <2>1. T \in SUBSET Nat
      BY DEF T
    <2> QED
      BY <1>1, <2>1, LeastElement
  <1>3. d \in Nat /\ d <= n /\ n + 1 - d \notin G /\ n + 1 - d \in 1..(n + 1)
    OBVIOUS
  <1>4. PICK j \in (n + 1 - d + 1)..(n + 1) : j \notin G
    BY <1>3
  <1>5. n + 1 - j \in Nat /\ n + 1 - j < d /\ n + 1 - j <= n /\ n + 1 - (n + 1 - j) = j
    BY <1>3
  <1>6. n + 1 - j \in T
    BY <1>4, <1>5
  <1> QED
    BY <1>2, <1>3, <1>5, <1>6

ScanBody(f, bytes, final, i) ==
    IF i = Len(bytes) + 1 THEN [out |-> << >>, rest |-> << >>]
    ELSE IF Waits(bytes, i, final)
         THEN [out |-> << >>, rest |-> SubSeq(bytes, i, Len(bytes))]
    ELSE [out |-> Emitted(bytes, i) \o f[i + Consumed(bytes, i)].out,
          rest |-> f[i + Consumed(bytes, i)].rest]

ScanFrom(bytes, final) ==
    CHOOSE f : f = [i \in 1..(Len(bytes) + 1) |-> ScanBody(f, bytes, final, i)]

LEMMA ScanIsScanFrom ==
    ASSUME NEW bytes, NEW final
    PROVE  Scan(bytes, final) = ScanFrom(bytes, final)[1]
  BY Zenon DEF Scan, ScanFrom, ScanBody

\* A position that is not the end is passed, and the scan stays in the buffer.
LEMMA ConsumedFacts ==
    ASSUME NEW bytes \in Seq(Byte), NEW i \in 1..Len(bytes)
    PROVE  /\ Consumed(bytes, i) \in 1..(Len(bytes) - i + 1)
           /\ Emitted(bytes, i) \in Seq(OutByte)
  <1>1. CASE TakesCharacter(bytes, i)
    <2>1. Consumed(bytes, i) = Width(bytes[i]) /\ Width(bytes[i]) \in 1..(Len(bytes) - i + 1)
      BY <1>1 DEF Consumed, TakesCharacter
    <2>2. SubSeq(bytes, i, i + Width(bytes[i]) - 1) \in Seq(Byte)
      BY <2>1, SubSeqProperties
    <2>3. Emitted(bytes, i) \in Seq(Byte) /\ Byte \subseteq OutByte
      BY <1>1, <2>2 DEF Emitted, OutByte
    <2>4. Emitted(bytes, i) \in Seq(OutByte)
      BY <2>3, SeqMonotonic
    <2> QED
      BY <2>1, <2>4
  <1>2. CASE ~TakesCharacter(bytes, i)
    BY <1>2 DEF Emitted, Consumed, OutByte
  <1> QED
    BY <1>1, <1>2

LEMMA ScanFromExists ==
    ASSUME NEW bytes \in Seq(Byte), NEW final
    PROVE  ScanFrom(bytes, final) =
               [i \in 1..(Len(bytes) + 1) |-> ScanBody(ScanFrom(bytes, final), bytes, final, i)]
  <1> DEFINE n == Len(bytes)
             G == {i \in 1..(n + 1) :
                      \E f : f = [k \in i..(n + 1) |-> ScanBody(f, bytes, final, k)]}
  <1>1. n \in Nat
    OBVIOUS
  <1>2. ASSUME NEW i \in 1..(n + 1), \A j \in (i + 1)..(n + 1) : j \in G
        PROVE  i \in G
    <2>1. CASE i = n + 1
      <3> DEFINE h == [k \in i..(n + 1) |-> [out |-> << >>, rest |-> << >>]]
      <3>1. ASSUME NEW k \in i..(n + 1)
            PROVE  ScanBody(h, bytes, final, k) = [out |-> << >>, rest |-> << >>]
        <4>1. k = n + 1
          BY <1>1, <2>1
        <4> QED
          BY <4>1 DEF ScanBody
      <3>2. h = [k \in i..(n + 1) |-> ScanBody(h, bytes, final, k)]
        <4> HIDE DEF n
        <4> QED
          BY <3>1, Zenon
      <3> QED
        BY <3>2
    <2>2. CASE i # n + 1
      <3>1. i + 1 \in (i + 1)..(n + 1) /\ i \in 1..n
        BY <1>1, <2>2
      <3>2. PICK f : f = [k \in (i + 1)..(n + 1) |-> ScanBody(f, bytes, final, k)]
        BY <1>2, <3>1
      <3> DEFINE h == [k \in i..(n + 1) |->
                          IF k = i THEN ScanBody(f, bytes, final, i) ELSE f[k]]
      <3>3. ASSUME NEW k \in i..(n + 1)
            PROVE  ScanBody(h, bytes, final, k) = ScanBody(f, bytes, final, k)
        <4>1. CASE k = n + 1
          BY <4>1 DEF ScanBody
        <4>2. CASE k # n + 1
          <5>1. k \in 1..n
            BY <1>1, <4>2
          <5>2. Consumed(bytes, k) \in 1..(n - k + 1)
            BY <5>1, ConsumedFacts
          <5>3. k + Consumed(bytes, k) \in i..(n + 1) /\ k + Consumed(bytes, k) # i
            BY <1>1, <5>1, <5>2
          <5>4. h[k + Consumed(bytes, k)] = f[k + Consumed(bytes, k)]
            BY <5>3
          <5> HIDE DEF h
          <5> QED
            BY <5>4 DEF ScanBody
        <4> QED
          BY <4>1, <4>2
      <3>4. ASSUME NEW k \in i..(n + 1) PROVE h[k] = ScanBody(h, bytes, final, k)
        <4>1. CASE k = i
          BY <3>3, <4>1
        <4>2. CASE k # i
          <5>1. k \in (i + 1)..(n + 1)
            BY <1>1, <4>2
          <5>2. f[k] = ScanBody(f, bytes, final, k)
            BY <3>2, <5>1
          <5>3. h[k] = f[k]
            BY <4>2
          <5> QED
            BY <3>3, <5>2, <5>3
        <4> QED
          BY <4>1, <4>2
      <3>5. h = [k \in i..(n + 1) |-> ScanBody(h, bytes, final, k)]
        BY <3>4
      <3> QED
        BY <3>5
    <2> QED
      BY <2>1, <2>2
  <1>3. \A i \in 1..(n + 1) : i \in G
    <2> HIDE DEF n, G
    <2> QED
      BY <1>1, <1>2, FromTheEnd
  <1>4. 1 \in 1..(n + 1)
    BY <1>1
  <1>5. \E f : f = [k \in 1..(n + 1) |-> ScanBody(f, bytes, final, k)]
    BY <1>3, <1>4
  <1> QED
    BY <1>5, Zenon DEF ScanFrom

\* One step of the scan.
LEMMA ScanStep ==
    ASSUME NEW bytes \in Seq(Byte), NEW final
    PROVE  /\ ScanFrom(bytes, final)[Len(bytes) + 1].out = << >>
           /\ ScanFrom(bytes, final)[Len(bytes) + 1].rest = << >>
           /\ \A i \in 1..Len(bytes) :
                 LET F == ScanFrom(bytes, final)
                     j == i + Consumed(bytes, i)
                 IN  /\ Waits(bytes, i, final) =>
                           F[i].out = << >> /\ F[i].rest = SubSeq(bytes, i, Len(bytes))
                     /\ ~Waits(bytes, i, final) =>
                           F[i].out = Emitted(bytes, i) \o F[j].out /\ F[i].rest = F[j].rest
  <1> DEFINE F == ScanFrom(bytes, final)
  <1>1. \A i \in 1..(Len(bytes) + 1) : F[i] = ScanBody(F, bytes, final, i)
    BY ScanFromExists
  <1> HIDE DEF F
  <1>2. Len(bytes) \in Nat
    OBVIOUS
  <1>3. F[Len(bytes) + 1].out = << >> /\ F[Len(bytes) + 1].rest = << >>
    <2>1. Len(bytes) + 1 \in 1..(Len(bytes) + 1)
      BY <1>2
    <2>2. F[Len(bytes) + 1] = ScanBody(F, bytes, final, Len(bytes) + 1)
      BY <1>1, <2>1
    <2>3. F[Len(bytes) + 1] = [out |-> << >>, rest |-> << >>]
      BY <2>2 DEF ScanBody
    <2> QED
      BY <2>3
  <1>4. ASSUME NEW i \in 1..Len(bytes)
        PROVE  /\ Waits(bytes, i, final) =>
                     F[i].out = << >> /\ F[i].rest = SubSeq(bytes, i, Len(bytes))
               /\ ~Waits(bytes, i, final) =>
                     /\ F[i].out = Emitted(bytes, i) \o F[i + Consumed(bytes, i)].out
                     /\ F[i].rest = F[i + Consumed(bytes, i)].rest
    <2>1. i \in 1..(Len(bytes) + 1) /\ i # Len(bytes) + 1
      BY <1>2
    <2>2. F[i] = ScanBody(F, bytes, final, i)
      BY <1>1, <2>1
    <2> QED
      BY <2>1, <2>2 DEF ScanBody
  <1> QED
    BY <1>3, <1>4 DEF F

LEMMA ScanTypes ==
    ASSUME NEW bytes \in Seq(Byte), NEW final
    PROVE  \A i \in 1..(Len(bytes) + 1) :
               /\ ScanFrom(bytes, final)[i].out \in Seq(OutByte)
               /\ ScanFrom(bytes, final)[i].rest \in Seq(Byte)
  <1> DEFINE n == Len(bytes)
             F == ScanFrom(bytes, final)
             G == {i \in 1..(n + 1) : F[i].out \in Seq(OutByte) /\ F[i].rest \in Seq(Byte)}
  <1>1. n \in Nat
    OBVIOUS
  <1>2. ASSUME NEW i \in 1..(n + 1), \A j \in (i + 1)..(n + 1) : j \in G
        PROVE  i \in G
    <2>1. CASE i = n + 1
      <3>1. F[i].out = << >> /\ F[i].rest = << >>
        BY <2>1, ScanStep
      <3> HIDE DEF F
      <3> QED
        BY <3>1, EmptySeq
    <2>2. CASE i # n + 1
      <3> DEFINE j == i + Consumed(bytes, i)
      <3>1. i \in 1..n
        BY <1>1, <2>2
      <3>2. Consumed(bytes, i) \in 1..(n - i + 1) /\ Emitted(bytes, i) \in Seq(OutByte)
        BY <3>1, ConsumedFacts
      <3>3. j \in (i + 1)..(n + 1)
        BY <1>1, <3>1, <3>2
      <3>4. F[j].out \in Seq(OutByte) /\ F[j].rest \in Seq(Byte)
        BY <1>2, <3>3
      <3>5. \A k \in i..n : bytes[k] \in Byte
        OBVIOUS
      <3>6. SubSeq(bytes, i, n) \in Seq(Byte)
        BY <1>1, <3>5, SubSeqProperties
      <3>7. \/ F[i].out = << >> /\ F[i].rest = SubSeq(bytes, i, n)
            \/ F[i].out = Emitted(bytes, i) \o F[j].out /\ F[i].rest = F[j].rest
        BY <3>1, ScanStep
      <3> HIDE DEF F, j, n
      <3>8. Emitted(bytes, i) \o F[j].out \in Seq(OutByte)
        BY <3>2, <3>4, ConcatProperties
      <3> QED
        BY <3>4, <3>6, <3>7, <3>8, EmptySeq
    <2> QED
      BY <2>1, <2>2
  <1>3. \A i \in 1..(n + 1) : i \in G
    <2> HIDE DEF n, G
    <2> QED
      BY <1>1, <1>2, FromTheEnd
  <1> QED
    BY <1>3

LEMMA WidthFacts ==
    ASSUME NEW b
    PROVE  /\ Width(b) \in 0..4
           /\ b = "A" => Width(b) = 1
           /\ b = "D" => Width(b) = 2
           /\ b \in {"E0", "E", "ED"} => Width(b) = 3
           /\ b \in {"F0", "F", "F4"} => Width(b) = 4
           /\ Width(b) = 1 => b = "A"
           /\ Width(b) = 2 => b = "D"
           /\ Width(b) = 3 => b \in {"E0", "E", "ED"}
           /\ Width(b) = 4 => b \in {"F0", "F", "F4"}
  BY DEF Width

\* What happens at a position depends on the bytes of one character only.
LEMMA SameCharacter ==
    ASSUME NEW a \in Seq(Byte), NEW i \in 1..Len(a),
           NEW b \in Seq(Byte), NEW j \in 1..Len(b),
           a[i] = b[j],
           Width(a[i]) <= Len(a) - i + 1 <=> Width(b[j]) <= Len(b) - j + 1,
           Width(a[i]) <= Len(a) - i + 1 =>
               \A k \in 0..(Width(a[i]) - 1) : a[i + k] = b[j + k]
    PROVE  Consumed(a, i) = Consumed(b, j) /\ Emitted(a, i) = Emitted(b, j)
  <1> DEFINE w == Width(a[i])
  <1>1. /\ w \in 0..4 /\ w \in Nat /\ Width(b[j]) = w
        /\ i \in Nat /\ j \in Nat /\ Len(a) \in Nat /\ Len(b) \in Nat
    BY WidthFacts
  <1> HIDE DEF w
  <1>2. CASE ~(w \in 1..(Len(a) - i + 1))
    <2>1. ~(w \in 1..(Len(b) - j + 1))
      BY <1>1, <1>2
    <2>2. ~TakesCharacter(a, i) /\ ~TakesCharacter(b, j)
      BY <1>1, <1>2, <2>1 DEF TakesCharacter
    <2> QED
      BY <2>2 DEF Consumed, Emitted
  <1>3. CASE w \in 1..(Len(a) - i + 1)
    <2>1. w \in 1..(Len(b) - j + 1) /\ \A k \in 0..(w - 1) : a[i + k] = b[j + k]
      BY <1>1, <1>3
    <2>2. ASSUME NEW k \in (i + 1)..(i + w - 1)
          PROVE  a[k] = b[k - i + j] /\ k - i + j \in (j + 1)..(j + w - 1)
      <3>1. k - i \in 0..(w - 1) /\ i + (k - i) = k /\ j + (k - i) = k - i + j
        BY <1>1
      <3>2. a[i + (k - i)] = b[j + (k - i)]
        BY <2>1, <3>1
      <3> QED
        BY <1>1, <3>1, <3>2
    <2>3. ASSUME NEW k \in (j + 1)..(j + w - 1)
          PROVE  b[k] = a[k - j + i] /\ k - j + i \in (i + 1)..(i + w - 1)
      <3>1. k - j \in 0..(w - 1) /\ j + (k - j) = k /\ i + (k - j) = k - j + i
        BY <1>1
      <3>2. a[i + (k - j)] = b[j + (k - j)]
        BY <2>1, <3>1
      <3> QED
        BY <1>1, <3>1, <3>2
    <2>4. (\A k \in (i + 1)..(i + w - 1) : a[k] \in Continuation) <=>
          (\A k \in (j + 1)..(j + w - 1) : b[k] \in Continuation)
      BY <2>2, <2>3
    <2>5. w \in {3, 4} => a[i + 1] = b[j + 1]
      BY <2>1
    <2>6. a[i] \in {"E0", "ED", "F0", "F4"} => w \in {3, 4}
      BY WidthFacts DEF w
    <2>7. ValidAt(a, i) <=> ValidAt(b, j)
      BY <1>1, <2>4, <2>5, <2>6 DEF ValidAt
    <2>8. TakesCharacter(a, i) <=> TakesCharacter(b, j)
      BY <1>1, <1>3, <2>1, <2>7 DEF TakesCharacter
    <2>9. SubSeq(a, i, i + w - 1) = SubSeq(b, j, j + w - 1)
      <3>1. \A k \in i..(i + w - 1) : a[k] \in Byte
        BY <1>3
      <3>2. \A k \in j..(j + w - 1) : b[k] \in Byte
        BY <2>1
      <3>3. /\ SubSeq(a, i, i + w - 1) \in Seq(Byte)
            /\ Len(SubSeq(a, i, i + w - 1)) = w
            /\ \A k \in 1..w : SubSeq(a, i, i + w - 1)[k] = a[i + k - 1]
        <4>1. i \in Int /\ i + w - 1 \in Int /\ i <= i + w - 1 /\ (i + w - 1) - i + 1 = w
          BY <1>3
        <4> HIDE DEF w
        <4> QED
          BY <3>1, <4>1, SubSeqProperties
      <3>4. /\ SubSeq(b, j, j + w - 1) \in Seq(Byte)
            /\ Len(SubSeq(b, j, j + w - 1)) = w
            /\ \A k \in 1..w : SubSeq(b, j, j + w - 1)[k] = b[j + k - 1]
        <4>1. j \in Int /\ j + w - 1 \in Int /\ j <= j + w - 1 /\ (j + w - 1) - j + 1 = w
          BY <1>3
        <4> HIDE DEF w
        <4> QED
          BY <3>2, <4>1, SubSeqProperties
      <3>5. \A k \in 1..w : a[i + k - 1] = b[j + k - 1]
        <4>1. ASSUME NEW k \in 1..w PROVE a[i + k - 1] = b[j + k - 1]
          <5>1. k - 1 \in 0..(w - 1) /\ i + (k - 1) = i + k - 1 /\ j + (k - 1) = j + k - 1
            BY <1>1
          <5> QED
            BY <2>1, <5>1
        <4> QED
          BY <4>1
      <3> HIDE DEF w
      <3> QED
        BY <3>3, <3>4, <3>5, SeqEqual
    <2> QED
      BY <1>1, <2>8, <2>9 DEF Consumed, Emitted
  <1> QED
    BY <1>2, <1>3

\* What a final scan puts out from a position on does not depend on what is
\* in front of it.
LEMMA ScanOfSuffix ==
    ASSUME NEW p \in Seq(Byte), NEW y \in Seq(Byte)
    PROVE  \A j \in 1..(Len(y) + 1) :
               ScanFrom(p \o y, TRUE)[Len(p) + j].out = ScanFrom(y, TRUE)[j].out
  <1> DEFINE n == Len(y)
             b == p \o y
             F == ScanFrom(b, TRUE)
             Y == ScanFrom(y, TRUE)
             G == {j \in 1..(n + 1) : F[Len(p) + j].out = Y[j].out}
  <1>1. n \in Nat /\ Len(p) \in Nat /\ b \in Seq(Byte) /\ Len(b) = Len(p) + n
    BY ConcatProperties
  <1>2. \A k \in 1..n : b[Len(p) + k] = y[k]
    BY ConcatProperties
  <1> HIDE DEF n, b
  <1>3. ASSUME NEW j \in 1..(n + 1), \A k \in (j + 1)..(n + 1) : k \in G
        PROVE  j \in G
    <2> DEFINE i == Len(p) + j
    <2>1. i \in 1..(Len(b) + 1) /\ (i = Len(b) + 1 <=> j = n + 1)
      BY <1>1
    <2>3. CASE j = n + 1
      <3>1. F[Len(b) + 1].out = << >> /\ Y[n + 1].out = << >>
        BY <1>1, ScanStep DEF n
      <3> HIDE DEF F, Y
      <3> QED
        BY <2>1, <2>3, <3>1
    <2>4. CASE j # n + 1
      <3>1. j \in 1..n /\ i \in 1..Len(b)
        BY <1>1, <2>4
      <3>2. /\ F[i].out = Emitted(b, i) \o F[i + Consumed(b, i)].out
            /\ Y[j].out = Emitted(y, j) \o Y[j + Consumed(y, j)].out
        <4>1. ~Waits(b, i, TRUE) /\ ~Waits(y, j, TRUE)
          BY DEF Waits
        <4> QED
          BY <1>1, <3>1, <4>1, ScanStep DEF n
      <3>3. Consumed(y, j) = Consumed(b, i) /\ Emitted(y, j) = Emitted(b, i)
        <4>1. y[j] = b[i]
          BY <1>2, <3>1
        <4>2. Width(y[j]) \in 0..4
          BY WidthFacts
        <4>3. Width(y[j]) <= n - j + 1 <=> Width(b[i]) <= Len(b) - i + 1
          BY <1>1, <3>1, <4>1, <4>2
        <4>4. ASSUME Width(y[j]) <= n - j + 1, NEW k \in 0..(Width(y[j]) - 1)
              PROVE  y[j + k] = b[i + k]
          <5>1. j + k \in 1..n /\ Len(p) + (j + k) = i + k
            BY <1>1, <3>1, <4>2, <4>4
          <5> QED
            BY <1>2, <5>1
        <4> HIDE DEF i
        <4> QED
          BY <1>1, <3>1, <4>1, <4>3, <4>4, SameCharacter DEF n
      <3>4. Consumed(y, j) \in 1..(n - j + 1)
        BY <3>1, ConsumedFacts DEF n
      <3>5. /\ j + Consumed(y, j) \in (j + 1)..(n + 1)
            /\ Len(p) + (j + Consumed(y, j)) = i + Consumed(b, i)
        BY <1>1, <3>1, <3>3, <3>4
      <3>6. F[i + Consumed(b, i)].out = Y[j + Consumed(y, j)].out
        BY <1>3, <3>5
      <3> QED
        BY <3>2, <3>3, <3>6
    <2> QED
      BY <2>3, <2>4
  <1>4. \A j \in 1..(n + 1) : j \in G
    <2> HIDE DEF G
    <2> QED
      BY <1>1, <1>3, FromTheEnd
  <1> QED
    BY <1>4 DEF n, b

\* emit_complete_utf8 may stop anywhere and go on when more bytes have come:
\* what it puts out for a part, and then for what it kept and the rest, is
\* what it puts out for the whole.
LEMMA ScanInTwoParts ==
    ASSUME NEW b \in Seq(Byte), NEW x \in Seq(Byte)
    PROVE  Scan(b \o x, TRUE).out =
               Scan(b, FALSE).out \o Scan(Scan(b, FALSE).rest \o x, TRUE).out
  <1> DEFINE n == Len(b)
             all == b \o x
             F == ScanFrom(all, TRUE)
             B == ScanFrom(b, FALSE)
             G == {i \in 1..(n + 1) :
                      F[i].out = B[i].out \o ScanFrom(B[i].rest \o x, TRUE)[1].out}
  <1>1. n \in Nat /\ Len(x) \in Nat /\ all \in Seq(Byte) /\ Len(all) = n + Len(x)
    BY ConcatProperties
  <1>2. \A k \in 1..n : all[k] = b[k]
    BY ConcatProperties
  <1> HIDE DEF n, all
  <1>3. ASSUME NEW i \in 1..(n + 1), \A k \in (i + 1)..(n + 1) : k \in G
        PROVE  i \in G
    <2>2. CASE i = n + 1
      <3>1. B[i].out = << >> /\ B[i].rest = << >>
        BY <2>2, ScanStep DEF n
      <3>2. << >> \o x = x
        BY ConcatEmptySeq
      <3>3. 1 \in 1..(Len(x) + 1)
        BY <1>1
      <3>4. F[n + 1].out = ScanFrom(x, TRUE)[1].out
        BY <3>3, ScanOfSuffix DEF n, all
      <3>5. ScanFrom(x, TRUE)[1].out \in Seq(OutByte)
        BY <3>3, ScanTypes
      <3>6. << >> \o ScanFrom(x, TRUE)[1].out = ScanFrom(x, TRUE)[1].out
        BY <3>5, ConcatEmptySeq
      <3> HIDE DEF F, B
      <3> QED
        BY <2>2, <3>1, <3>2, <3>4, <3>6
    <2>3. CASE i # n + 1 /\ Waits(b, i, FALSE)
      <3> DEFINE p == SubSeq(b, 1, i - 1)
                 r == SubSeq(b, i, n)
      <3>1. B[i].out = << >> /\ B[i].rest = r
        <4>1. i \in 1..Len(b)
          BY <1>1, <2>3 DEF n
        <4> QED
          BY <2>3, <4>1, ScanStep DEF n
      <3>2. /\ p \in Seq(Byte) /\ Len(p) = i - 1
            /\ r \in Seq(Byte)
            /\ p \o r = b
        <4>1. i - 1 \in Int /\ 1 \in Int /\ \A k \in 1..(i - 1) : b[k] \in Byte
          BY <1>1 DEF n
        <4>2. p \in Seq(Byte) /\ Len(p) = i - 1
          BY <4>1, SubSeqProperties
        <4>3. n \in Int /\ \A k \in i..n : b[k] \in Byte
          BY <1>1 DEF n
        <4>4. r \in Seq(Byte)
          BY <4>3, SubSeqProperties
        <4>5. 1 \in 1..(n + 1) /\ i - 1 \in 0..n /\ n \in (i - 1)..n /\ i - 1 + 1 = i
          BY <1>1
        <4>6. p \o r = SubSeq(b, 1, n)
          <5>1. SubSeq(b, 1, i - 1) \o SubSeq(b, i - 1 + 1, n) = SubSeq(b, 1, n)
            <6>1. /\ 1 \in 1..(Len(b) + 1)
                  /\ i - 1 \in (1 - 1)..Len(b)
                  /\ n \in (i - 1)..Len(b)
              BY <4>5 DEF n
            <6> HIDE DEF n
            <6> QED
              BY <6>1, ConcatAdjacentSubSeq
          <5> QED
            BY <4>5, <5>1
        <4>7. SubSeq(b, 1, n) = b
          BY SubSeqFull DEF n
        <4> QED
          BY <4>2, <4>4, <4>6, <4>7
      <3>3. p \o (r \o x) = all /\ r \o x \in Seq(Byte)
        <4> HIDE DEF p, r
        <4>1. (p \o r) \o x = p \o (r \o x)
          <5>1. \A u, v, t \in Seq(Byte) : (u \o v) \o t = u \o (v \o t)
            BY ConcatAssociative
          <5> QED
            BY <3>2, <5>1
        <4>2. r \o x \in Seq(Byte)
          BY <3>2, ConcatProperties
        <4> QED
          BY <3>2, <4>1, <4>2 DEF all
      <3> HIDE DEF p, r
      <3>4. 1 \in 1..(Len(r \o x) + 1) /\ i - 1 + 1 = i
        BY <3>3
      <3>5. F[i].out = ScanFrom(r \o x, TRUE)[1].out
        <4>1. ScanFrom(p \o (r \o x), TRUE)[Len(p) + 1].out = ScanFrom(r \o x, TRUE)[1].out
          BY <3>2, <3>3, <3>4, ScanOfSuffix
        <4> QED
          BY <3>2, <3>3, <3>4, <4>1
      <3>6. ScanFrom(r \o x, TRUE)[1].out \in Seq(OutByte)
        BY <3>3, <3>4, ScanTypes
      <3>7. << >> \o ScanFrom(r \o x, TRUE)[1].out = ScanFrom(r \o x, TRUE)[1].out
        BY <3>6, ConcatEmptySeq
      <3> HIDE DEF F, B
      <3> QED
        BY <3>1, <3>5, <3>7
    <2>4. CASE i # n + 1 /\ ~Waits(b, i, FALSE)
      <3>1. i \in 1..n /\ i \in 1..Len(all) /\ i # Len(all) + 1 /\ i \in 1..(Len(all) + 1)
        BY <1>1, <2>4
      <3>3. /\ F[i].out = Emitted(all, i) \o F[i + Consumed(all, i)].out
            /\ B[i].out = Emitted(b, i) \o B[i + Consumed(b, i)].out
            /\ B[i].rest = B[i + Consumed(b, i)].rest
        <4>1. ~Waits(all, i, TRUE)
          BY DEF Waits
        <4> QED
          BY <1>1, <2>4, <3>1, <4>1, ScanStep DEF n
      <3>4. Consumed(b, i) = Consumed(all, i) /\ Emitted(b, i) = Emitted(all, i)
        <4>1. b[i] = all[i] /\ Width(b[i]) \in 0..4
          BY <1>2, <3>1, WidthFacts
        <4>2. Width(b[i]) <= n - i + 1
          BY <1>1, <2>4, <3>1, <4>1 DEF Waits, n
        <4>3. Width(all[i]) <= Len(all) - i + 1
          BY <1>1, <3>1, <4>1, <4>2
        <4>4. ASSUME NEW k \in 0..(Width(b[i]) - 1) PROVE b[i + k] = all[i + k]
          <5>1. i + k \in 1..n
            BY <1>1, <3>1, <4>1, <4>2
          <5> QED
            BY <1>2, <5>1
        <4> QED
          BY <1>1, <3>1, <4>1, <4>2, <4>3, <4>4, SameCharacter DEF n
      <3> DEFINE k == i + Consumed(b, i)
                 s == ScanFrom(B[k].rest \o x, TRUE)[1].out
      <3>5. k \in (i + 1)..(n + 1) /\ k \in 1..(n + 1) /\ Emitted(b, i) \in Seq(OutByte)
        <4>1. Consumed(b, i) \in 1..(n - i + 1) /\ Emitted(b, i) \in Seq(OutByte)
          BY <3>1, ConsumedFacts DEF n
        <4> QED
          BY <1>1, <3>1, <4>1
      <3>6. F[k].out = B[k].out \o s
        BY <1>3, <3>5
      <3>7. B[k].out \in Seq(OutByte) /\ B[k].rest \in Seq(Byte)
        BY <3>5, ScanTypes DEF n
      <3>8. s \in Seq(OutByte)
        <4> DEFINE z == B[k].rest \o x
        <4>1. z \in Seq(Byte)
          BY <3>7, ConcatProperties
        <4> HIDE DEF B, k, z
        <4>2. 1 \in 1..(Len(z) + 1)
          BY <4>1
        <4>3. ScanFrom(z, TRUE)[1].out \in Seq(OutByte)
          BY <4>1, <4>2, ScanTypes
        <4> QED
          BY <4>3 DEF z
      <3>9. F[i].out = Emitted(b, i) \o F[k].out /\ B[i].out = Emitted(b, i) \o B[k].out
        BY <3>3, <3>4
      <3>10. ScanFrom(B[i].rest \o x, TRUE)[1].out = s
        BY <3>3
      <3> HIDE DEF F, B, k, s
      <3>11. (Emitted(b, i) \o B[k].out) \o s = Emitted(b, i) \o (B[k].out \o s)
        <4>1. \A u, v, t \in Seq(OutByte) : (u \o v) \o t = u \o (v \o t)
          BY ConcatAssociative
        <4> QED
          BY <3>5, <3>7, <3>8, <4>1
      <3>12. F[i].out = B[i].out \o ScanFrom(B[i].rest \o x, TRUE)[1].out
        BY <3>6, <3>9, <3>10, <3>11
      <3> QED
        BY <3>12
    <2> QED
      BY <2>2, <2>3, <2>4
  <1>4. \A i \in 1..(n + 1) : i \in G
    <2> HIDE DEF G
    <2> QED
      BY <1>1, <1>3, FromTheEnd
  <1>5. F[1].out = B[1].out \o ScanFrom(B[1].rest \o x, TRUE)[1].out
    <2>1. 1 \in 1..(n + 1)
      BY <1>1
    <2> QED
      BY <1>4, <2>1
  <1> QED
    BY <1>5, ScanIsScanFrom DEF all

-----------------------------------------------------------------------------
(***************************************************************************)
(* What the scan takes for a character is one of the characters Unicode    *)
(* lists, and the other way round.                                         *)
(***************************************************************************)
\* The tests of emit_complete_utf8 on a sequence of their own.
IsTaken(c) ==
    /\ c \in Seq(Byte)
    /\ Len(c) \in 1..4
    /\ Len(c) = Width(c[1])
    /\ \A k \in 2..Len(c) : c[k] \in Continuation
    /\ ~(c[1] = "E0" /\ c[2] \in {"C8", "C9"})
    /\ ~(c[1] = "ED" /\ c[2] = "CA")
    /\ ~(c[1] = "F0" /\ c[2] = "C8")
    /\ ~(c[1] = "F4" /\ c[2] \in {"C9", "CA"})

LEMMA ShortSequences ==
    ASSUME NEW c \in Seq(Byte)
    PROVE  /\ Len(c) = 1 => c = <<c[1]>>
           /\ Len(c) = 2 => c = <<c[1], c[2]>>
           /\ Len(c) = 3 => c = <<c[1], c[2], c[3]>>
           /\ Len(c) = 4 => c = <<c[1], c[2], c[3], c[4]>>
  OBVIOUS

LEMMA TakenAreCharacters ==
    ASSUME NEW c, IsTaken(c)
    PROVE  c \in Characters
  <1>1. c \in Seq(Byte) /\ Len(c) \in 1..4 /\ Len(c) = Width(c[1])
    BY DEF IsTaken
  <1>2. CASE Len(c) = 1
    <2>1. c = <<"A">>
      BY <1>1, <1>2, ShortSequences, WidthFacts
    <2> QED
      BY <2>1 DEF Characters
  <1>3. CASE Len(c) = 2
    <2>1. c = <<c[1], c[2]>> /\ c[1] = "D" /\ c[2] \in Continuation
      <3>1. c = <<c[1], c[2]>>
        BY <1>1, <1>3, ShortSequences
      <3>2. c[1] = "D"
        BY <1>1, <1>3, WidthFacts
      <3>3. 2 \in 2..Len(c)
        BY <1>3
      <3> QED
        BY <3>1, <3>2, <3>3 DEF IsTaken
    <2>2. c \in {"D"} \X Continuation
      BY <2>1
    <2> QED
      BY <2>2, Zenon DEF Characters
  <1>4. CASE Len(c) = 3
    <2>1. /\ c = <<c[1], c[2], c[3]>> /\ c[1] \in {"E0", "E", "ED"}
          /\ c[2] \in Continuation /\ c[3] \in Continuation
      <3>1. c = <<c[1], c[2], c[3]>>
        BY <1>1, <1>4, ShortSequences
      <3>2. c[1] \in {"E0", "E", "ED"}
        BY <1>1, <1>4, WidthFacts
      <3>3. 2 \in 2..Len(c) /\ 3 \in 2..Len(c)
        BY <1>4
      <3> QED
        BY <3>1, <3>2, <3>3 DEF IsTaken
    <2>2. c[1] = "E0" => c[2] = "CA"
      BY <2>1 DEF IsTaken, Continuation
    <2>3. c[1] = "ED" => c[2] \in {"C8", "C9"}
      BY <2>1 DEF IsTaken, Continuation
    <2>4. \/ c \in {"E0"} \X {"CA"} \X Continuation
          \/ c \in {"E"} \X Continuation \X Continuation
          \/ c \in {"ED"} \X {"C8", "C9"} \X Continuation
      BY <2>1, <2>2, <2>3
    <2> QED
      BY <2>4, Zenon DEF Characters
  <1>5. CASE Len(c) = 4
    <2>1. /\ c = <<c[1], c[2], c[3], c[4]>> /\ c[1] \in {"F0", "F", "F4"}
          /\ c[2] \in Continuation /\ c[3] \in Continuation /\ c[4] \in Continuation
      <3>1. c = <<c[1], c[2], c[3], c[4]>>
        BY <1>1, <1>5, ShortSequences
      <3>2. c[1] \in {"F0", "F", "F4"}
        BY <1>1, <1>5, WidthFacts
      <3>3. 2 \in 2..Len(c) /\ 3 \in 2..Len(c) /\ 4 \in 2..Len(c)
        BY <1>5
      <3> QED
        BY <3>1, <3>2, <3>3 DEF IsTaken
    <2>2. c[1] = "F0" => c[2] \in {"C9", "CA"}
      BY <2>1 DEF IsTaken, Continuation
    <2>3. c[1] = "F4" => c[2] = "C8"
      BY <2>1 DEF IsTaken, Continuation
    <2>4. \/ c \in {"F0"} \X {"C9", "CA"} \X Continuation \X Continuation
          \/ c \in {"F"} \X Continuation \X Continuation \X Continuation
          \/ c \in {"F4"} \X {"C8"} \X Continuation \X Continuation
      BY <2>1, <2>2, <2>3
    <2> QED
      BY <2>4, Zenon DEF Characters
  <1> QED
    BY <1>1, <1>2, <1>3, <1>4, <1>5

LEMMA CharactersAreTaken ==
    ASSUME NEW c \in Characters
    PROVE  IsTaken(c)
  <1> USE DEF Continuation
  <1>1. CASE c = <<"A">>
    BY <1>1, WidthFacts DEF IsTaken, Byte
  <1>2. CASE c \in {"D"} \X Continuation
    <2>1. PICK x \in Continuation : c = <<"D", x>>
      BY <1>2
    <2>2. /\ c \in Seq(Byte) /\ Len(c) = 2 /\ c[1] = "D" /\ c[2] = x
      BY <2>1 DEF Byte
    <2>3. Width(c[1]) = 2
      BY <2>2, WidthFacts
    <2> QED
      BY <2>2, <2>3 DEF IsTaken
  <1>3. CASE \/ c \in {"E0"} \X {"CA"} \X Continuation
             \/ c \in {"E"} \X Continuation \X Continuation
             \/ c \in {"ED"} \X {"C8", "C9"} \X Continuation
    <2>1. PICK l \in {"E0", "E", "ED"}, x \in Continuation, y \in Continuation :
              /\ c = <<l, x, y>>
              /\ l = "E0" => x = "CA"
              /\ l = "ED" => x \in {"C8", "C9"}
      BY <1>3
    <2>2. /\ c \in Seq(Byte) /\ Len(c) = 3
          /\ c[1] = l /\ c[2] = x /\ c[3] = y
      BY <2>1 DEF Byte
    <2>3. Width(c[1]) = 3
      BY <2>2, WidthFacts
    <2>4. \A k \in 2..Len(c) : c[k] \in Continuation
      BY <2>2
    <2> QED
      BY <2>1, <2>2, <2>3, <2>4 DEF IsTaken
  <1>4. CASE \/ c \in {"F0"} \X {"C9", "CA"} \X Continuation \X Continuation
             \/ c \in {"F"} \X Continuation \X Continuation \X Continuation
             \/ c \in {"F4"} \X {"C8"} \X Continuation \X Continuation
    <2>1. PICK l \in {"F0", "F", "F4"},
               x \in Continuation, y \in Continuation, z \in Continuation :
              /\ c = <<l, x, y, z>>
              /\ l = "F0" => x \in {"C9", "CA"}
              /\ l = "F4" => x = "C8"
      BY <1>4
    <2>2. /\ c \in Seq(Byte) /\ Len(c) = 4
          /\ c[1] = l /\ c[2] = x /\ c[3] = y /\ c[4] = z
      BY <2>1 DEF Byte
    <2>3. Width(c[1]) = 4
      BY <2>2, WidthFacts
    <2>4. \A k \in 2..Len(c) : c[k] \in Continuation
      BY <2>2
    <2> QED
      BY <2>1, <2>2, <2>3, <2>4 DEF IsTaken
  <1> QED
    BY <1>1, <1>2, <1>3, <1>4 DEF Characters

LEMMA SubSeqOfBuffer ==
    ASSUME NEW S, NEW s \in Seq(S), NEW i \in 1..Len(s), NEW w \in 1..(Len(s) - i + 1)
    PROVE  /\ SubSeq(s, i, i + w - 1) \in Seq(S)
           /\ Len(SubSeq(s, i, i + w - 1)) = w
           /\ \A k \in 1..w : SubSeq(s, i, i + w - 1)[k] = s[i + k - 1]
  <1>1. Len(s) \in Nat /\ i \in Nat /\ w \in Nat
    OBVIOUS
  <1>2. i \in Int /\ i + w - 1 \in Int /\ i <= i + w - 1 /\ (i + w - 1) - i + 1 = w
    BY <1>1
  <1>3. \A k \in i..(i + w - 1) : s[k] \in S
    BY <1>1
  <1> QED
    BY <1>2, <1>3, SubSeqProperties

LEMMA TakenHere ==
    ASSUME NEW bytes \in Seq(Byte), NEW i \in 1..Len(bytes),
           NEW w \in 1..(Len(bytes) - i + 1), w <= 4
    PROVE  TakesCharacter(bytes, i) /\ Width(bytes[i]) = w
               <=> IsTaken(SubSeq(bytes, i, i + w - 1))
  <1> DEFINE c == SubSeq(bytes, i, i + w - 1)
  <1>1. c \in Seq(Byte) /\ Len(c) = w /\ \A k \in 1..w : c[k] = bytes[i + k - 1]
    BY SubSeqOfBuffer
  <1> HIDE DEF c
  <1>2. i \in Nat /\ w \in Nat /\ Len(bytes) \in Nat
    OBVIOUS
  <1>3. c[1] = bytes[i]
    <2>1. 1 \in 1..w /\ i + 1 - 1 = i
      BY <1>2
    <2> QED
      BY <1>1, <2>1
  <1>4. w # 1 => c[2] = bytes[i + 1]
    <2>1. w # 1 => 2 \in 1..w /\ i + 2 - 1 = i + 1
      BY <1>2
    <2> QED
      BY <1>1, <2>1
  <1>5. (\A k \in 2..w : c[k] \in Continuation) <=>
        (\A j \in (i + 1)..(i + w - 1) : bytes[j] \in Continuation)
    <2>1. ASSUME NEW k \in 2..w
          PROVE  i + k - 1 \in (i + 1)..(i + w - 1) /\ c[k] = bytes[i + k - 1]
      BY <1>1, <1>2
    <2>2. ASSUME NEW j \in (i + 1)..(i + w - 1)
          PROVE  j - i + 1 \in 2..w /\ bytes[j] = c[j - i + 1]
      <3>1. j - i + 1 \in 2..w /\ j - i + 1 \in 1..w /\ i + (j - i + 1) - 1 = j
        BY <1>2
      <3> QED
        BY <1>1, <3>1
    <2> QED
      BY <2>1, <2>2
  <1>6. bytes[i] \in {"E0", "ED", "F0", "F4"} /\ Width(bytes[i]) = w => w # 1
    BY WidthFacts
  <1>7. w \in 1..4
    BY <1>2
  <1>8. ASSUME Width(bytes[i]) = w PROVE ValidAt(bytes, i) <=> IsTaken(c)
    BY <1>1, <1>3, <1>4, <1>5, <1>6, <1>7, <1>8 DEF ValidAt, IsTaken
  <1>9. Width(bytes[i]) = w => (TakesCharacter(bytes, i) <=> ValidAt(bytes, i))
    BY DEF TakesCharacter
  <1>10. IsTaken(c) => Width(bytes[i]) = w
    BY <1>1, <1>3 DEF IsTaken
  <1>11. TakesCharacter(bytes, i) /\ Width(bytes[i]) = w <=> IsTaken(c)
    BY <1>8, <1>9, <1>10
  <1> QED
    BY <1>11 DEF c

WholeCharacters == Characters \cup {<<"R">>}

LEMMA OutputFacts ==
    ASSUME NEW c \in WholeCharacters
    PROVE  c \in Seq(OutByte) /\ Len(c) \in 1..4
  <1>1. CASE c \in Characters
    <2>1. c \in Seq(Byte) /\ Len(c) \in 1..4
      BY <1>1, CharactersAreTaken DEF IsTaken
    <2>2. Byte \subseteq OutByte
      BY DEF OutByte
    <2> QED
      BY <2>1, <2>2, SeqMonotonic
  <1>2. CASE c = <<"R">>
    BY <1>2 DEF OutByte
  <1> QED
    BY <1>1, <1>2 DEF WholeCharacters

LEMMA EmittedIsOutput ==
    ASSUME NEW bytes \in Seq(Byte), NEW i \in 1..Len(bytes)
    PROVE  Emitted(bytes, i) \in WholeCharacters
  <1>1. CASE TakesCharacter(bytes, i)
    <2>1. /\ Width(bytes[i]) \in 1..(Len(bytes) - i + 1)
          /\ Emitted(bytes, i) = SubSeq(bytes, i, i + Width(bytes[i]) - 1)
      BY <1>1 DEF TakesCharacter, Emitted
    <2>2. Width(bytes[i]) <= 4
      BY WidthFacts
    <2>3. IsTaken(Emitted(bytes, i))
      BY <1>1, <2>1, <2>2, TakenHere
    <2> QED
      BY <2>3, TakenAreCharacters DEF WholeCharacters
  <1>2. CASE ~TakesCharacter(bytes, i)
    BY <1>2 DEF Emitted, WholeCharacters
  <1> QED
    BY <1>1, <1>2

\* A row of characters with one more in front.
LEMMA DividesWithOneMore ==
    ASSUME NEW c \in WholeCharacters, NEW y \in Seq(OutByte), DividesInto(y, WholeCharacters)
    PROVE  DividesInto(c \o y, WholeCharacters)
  <1> DEFINE n == Len(y)
             m == Len(c)
             b == c \o y
  <1>1. PICK begins \in SUBSET (1..(n + 1)) :
            /\ 1 \in begins
            /\ \A i \in begins \ {n + 1} : \E d \in WholeCharacters :
                  i + Len(d) \in begins /\ SubSeq(y, i, i + Len(d) - 1) = d
    BY DEF DividesInto
  <1>2. c \in Seq(OutByte) /\ m \in 1..4 /\ n \in Nat /\ m \in Nat
    BY OutputFacts
  <1>3. b \in Seq(OutByte) /\ Len(b) = m + n
    BY <1>2, ConcatProperties
  <1> DEFINE starts == {1} \cup {k + m : k \in begins}
  <1>4. starts \in SUBSET (1..(Len(b) + 1))
    <2>1. ASSUME NEW k \in begins PROVE k + m \in 1..(m + n + 1)
      <3>1. k \in 1..(n + 1)
        OBVIOUS
      <3> HIDE DEF n, m
      <3> QED
        BY <1>2, <3>1
    <2>2. 1 \in 1..(m + n + 1)
      <3> HIDE DEF n, m
      <3> QED
        BY <1>2
    <2> HIDE DEF n, m, b
    <2> QED
      BY <1>3, <2>1, <2>2
  <1>5. ASSUME NEW i \in starts \ {Len(b) + 1}
        PROVE  \E d \in WholeCharacters : i + Len(d) \in starts /\ SubSeq(b, i, i + Len(d) - 1) = d
    <2>1. CASE i = 1
      <3>1. 1 + m \in starts
        <4> HIDE DEF n, m
        <4>1. 1 + m = m + 1 /\ m + 1 = 1 + m
          BY <1>2
        <4> QED
          BY <1>1
      <3>2. 1 \in 1..m /\ m \in 1..m /\ 1 + m - 1 = m
        <4> HIDE DEF n, m
        <4> QED
          BY <1>2
      <3>3. SubSeq(b, 1, m) = SubSeq(c, 1, m)
        BY <1>2, <3>2, SubSeqOfConcat1
      <3>4. SubSeq(c, 1, m) = c
        BY <1>2, SubSeqFull
      <3> HIDE DEF starts, b
      <3> QED
        BY <2>1, <3>1, <3>2, <3>3, <3>4
    <2>2. CASE i # 1
      <3>1. PICK k \in begins : i = k + m
        BY <2>2
      <3>2. k \in 1..(n + 1) /\ k # n + 1
        <4> HIDE DEF n, m, b
        <4> QED
          BY <1>2, <1>3, <3>1
      <3>3. PICK d \in WholeCharacters : k + Len(d) \in begins /\ SubSeq(y, k, k + Len(d) - 1) = d
        BY <1>1, <3>2
      <3>4. Len(d) \in 1..4 /\ k + Len(d) \in 1..(n + 1)
        BY <3>3, OutputFacts
      <3> DEFINE l == Len(d)
      <3> HIDE DEF n, m, b, l
      <3>5. k \in Nat /\ k >= 1 /\ k <= n /\ l \in Nat /\ l >= 1 /\ k + l <= n + 1
        <4>1. l \in 1..4 /\ k + l \in 1..(n + 1)
          BY <3>4 DEF l
        <4> QED
          BY <1>2, <3>2, <4>1
      <3>6. i + l = (k + l) + m /\ i + l - 1 = k + l - 1 + m
        BY <1>2, <3>1, <3>2, <3>4 DEF l
      <3>7. i + l \in starts
        BY <3>3, <3>6 DEF l
      <3>8. i \in (m + 1)..(m + n) /\ i + l - 1 \in (m + 1)..(m + n)
        BY <1>2, <3>1, <3>5
      <3>9. i - m = k /\ (i + l - 1) - m = k + l - 1
        BY <1>2, <3>1, <3>2, <3>4 DEF l
      <3>10. SubSeq(b, i, i + l - 1) = SubSeq(y, i - m, (i + l - 1) - m)
        <4> DEFINE v == i + l - 1
        <4>1. i \in (Len(c) + 1)..(Len(c) + Len(y)) /\ v \in (Len(c) + 1)..(Len(c) + Len(y))
          BY <3>8 DEF n, m
        <4> HIDE DEF v, starts
        <4>2. SubSeq(c \o y, i, v) = SubSeq(y, i - Len(c), v - Len(c))
          <5>1. \A s, t \in Seq(OutByte) :
                   \A u, z \in (Len(s) + 1)..(Len(s) + Len(t)) :
                      SubSeq(s \o t, u, z) = SubSeq(t, u - Len(s), z - Len(s))
            BY SubSeqOfConcat2
          <5> QED
            BY <1>2, <4>1, <5>1
        <4>3. v = i + l - 1
          BY DEF v
        <4>4. c \o y = b /\ Len(c) = m
          BY DEF b, m
        <4>5. SubSeq(b, i, v) = SubSeq(y, i - m, v - m)
          BY <4>2, <4>4
        <4> QED
          BY <4>3, <4>5
      <3>11. SubSeq(b, i, i + l - 1) = d
        BY <3>3, <3>9, <3>10 DEF l
      <3> QED
        BY <3>7, <3>11 DEF l
    <2> QED
      BY <2>1, <2>2
  <1> HIDE DEF starts, b
  <1>6. 1 \in starts
    BY DEF starts
  <1>7. DividesInto(b, WholeCharacters)
    BY <1>4, <1>5, <1>6 DEF DividesInto
  <1> QED
    BY <1>7 DEF b

LEMMA EmptyDivides == DividesInto(<< >>, WholeCharacters)
  <1>1. Len(<< >>) + 1 = 1
    OBVIOUS
  <1>2. {1} \in SUBSET (1..(Len(<< >>) + 1))
    OBVIOUS
  <1>3. \A i \in {1} \ {Len(<< >>) + 1} : \E c \in WholeCharacters :
            i + Len(c) \in {1} /\ SubSeq(<< >>, i, i + Len(c) - 1) = c
    OBVIOUS
  <1> QED
    BY <1>2, <1>3 DEF DividesInto

\* Whatever comes in, what is put out consists of whole characters.
LEMMA ScanDivides ==
    ASSUME NEW bytes \in Seq(Byte), NEW final
    PROVE  DividesInto(Scan(bytes, final).out, WholeCharacters)
  <1> DEFINE n == Len(bytes)
             F == ScanFrom(bytes, final)
             G == {i \in 1..(n + 1) : DividesInto(F[i].out, WholeCharacters)}
  <1>1. n \in Nat
    OBVIOUS
  <1>2. ASSUME NEW i \in 1..(n + 1), \A j \in (i + 1)..(n + 1) : j \in G
        PROVE  i \in G
    <2>1. CASE i = n + 1
      <3>1. F[i].out = << >>
        BY <2>1, ScanStep
      <3> HIDE DEF F
      <3> QED
        BY <3>1, EmptyDivides
    <2>2. CASE i # n + 1
      <3> DEFINE j == i + Consumed(bytes, i)
      <3>1. i \in 1..n
        BY <1>1, <2>2
      <3>2. Consumed(bytes, i) \in 1..(n - i + 1) /\ Emitted(bytes, i) \in WholeCharacters
        BY <3>1, ConsumedFacts, EmittedIsOutput
      <3>3. j \in (i + 1)..(n + 1) /\ j \in 1..(n + 1)
        BY <1>1, <3>1, <3>2
      <3>4. DividesInto(F[j].out, WholeCharacters)
        BY <1>2, <3>3
      <3>5. F[j].out \in Seq(OutByte)
        BY <3>3, ScanTypes
      <3>6. \/ F[i].out = << >>
            \/ F[i].out = Emitted(bytes, i) \o F[j].out
        BY <3>1, ScanStep
      <3> HIDE DEF F, j, n
      <3>7. DividesInto(Emitted(bytes, i) \o F[j].out, WholeCharacters)
        BY <3>2, <3>4, <3>5, DividesWithOneMore
      <3> QED
        BY <3>6, <3>7, EmptyDivides
    <2> QED
      BY <2>1, <2>2
  <1>3. \A i \in 1..(n + 1) : i \in G
    <2> HIDE DEF n, G
    <2> QED
      BY <1>1, <1>2, FromTheEnd
  <1>4. 1 \in 1..(n + 1)
    BY <1>1
  <1> QED
    BY <1>3, <1>4, ScanIsScanFrom

\* Well-formed text comes out as it went in.
LEMMA WellFormedIsUnchanged ==
    ASSUME NEW b \in Seq(Byte), DividesInto(b, Characters)
    PROVE  Scan(b, TRUE).out = b
  <1> DEFINE n == Len(b)
             F == ScanFrom(b, TRUE)
  <1>1. n \in Nat
    OBVIOUS
  <1>2. PICK begins \in SUBSET (1..(n + 1)) :
            /\ 1 \in begins
            /\ \A i \in begins \ {n + 1} : \E c \in Characters :
                  i + Len(c) \in begins /\ SubSeq(b, i, i + Len(c) - 1) = c
    BY DEF DividesInto
  <1> DEFINE G == {i \in 1..(n + 1) : i \in begins => F[i].out = SubSeq(b, i, n)}
  <1>3. ASSUME NEW i \in 1..(n + 1), \A j \in (i + 1)..(n + 1) : j \in G
        PROVE  i \in G
    <2> SUFFICES ASSUME i \in begins PROVE F[i].out = SubSeq(b, i, n)
      OBVIOUS
    <2>1. CASE i = n + 1
      <3>1. F[n + 1].out = << >>
        BY ScanStep
      <3>2. n + 1 \in Int /\ n \in Int /\ n < n + 1
        BY <1>1
      <3>3. SubSeq(b, n + 1, n) = << >>
        BY <3>2, SubSeqEmpty
      <3> HIDE DEF F, n
      <3> QED
        BY <2>1, <3>1, <3>3
    <2>2. CASE i # n + 1
      <3>1. PICK c \in Characters :
                i + Len(c) \in begins /\ SubSeq(b, i, i + Len(c) - 1) = c
        BY <1>2, <2>2
      <3> DEFINE w == Len(c)
      <3>2. IsTaken(c) /\ w \in 1..4
        BY CharactersAreTaken DEF IsTaken
      <3>3. i + w \in 1..(n + 1)
        BY <3>1
      <3> HIDE DEF w
      <3>4. /\ i \in 1..n /\ w \in 1..(n - i + 1) /\ w <= 4
            /\ i + w \in (i + 1)..(n + 1)
            /\ i + w - 1 \in (i - 1)..n /\ i + w - 1 + 1 = i + w /\ n \in (i + w - 1)..n
        BY <1>1, <2>2, <3>2, <3>3
      <3>5. TakesCharacter(b, i) /\ Width(b[i]) = w
        BY <3>1, <3>2, <3>4, TakenHere DEF w
      <3>6. Consumed(b, i) = w /\ Emitted(b, i) = c
        BY <3>1, <3>5 DEF Consumed, Emitted, w
      <3>7. ~Waits(b, i, TRUE)
        BY DEF Waits
      <3>8. F[i].out = c \o F[i + w].out
        BY <3>4, <3>6, <3>7, ScanStep
      <3>9. F[i + w].out = SubSeq(b, i + w, n)
        BY <1>3, <3>1, <3>4 DEF w
      <3>10. SubSeq(b, i, i + w - 1) \o SubSeq(b, i + w - 1 + 1, n) = SubSeq(b, i, n)
        BY <3>4, ConcatAdjacentSubSeq
      <3> HIDE DEF F, n
      <3> QED
        BY <3>1, <3>4, <3>8, <3>9, <3>10 DEF w
    <2> QED
      BY <2>1, <2>2
  <1>4. \A i \in 1..(n + 1) : i \in G
    <2> HIDE DEF n, G
    <2> QED
      BY <1>1, <1>3, FromTheEnd
  <1>5. F[1].out = SubSeq(b, 1, n)
    BY <1>1, <1>2, <1>4
  <1> QED
    BY <1>5, ScanIsScanFrom, SubSeqFull

-----------------------------------------------------------------------------
(***************************************************************************)
(* The text a client has received: the outputs joined.                     *)
(***************************************************************************)
Joins(f, s) == f = [i \in 1..Len(s) |-> IF i = 1 THEN s[i] ELSE f[i - 1] \o s[i]]

IsJoined(f, s) == f \in [1..Len(s) -> Seq(OutByte)] /\ Joins(f, s)

LEMMA JoinedIsUnique ==
    ASSUME NEW s \in Seq(Seq(OutByte)),
           NEW f, Joins(f, s), NEW g, Joins(g, s)
    PROVE  f = g
  <1> DEFINE Differ == {i \in Nat : i \in 1..Len(s) /\ f[i] # g[i]}
  <1>1. Differ = {}
    <2> SUFFICES ASSUME Differ # {} PROVE FALSE
      OBVIOUS
    <2>1. PICK i \in Differ : \A j \in Differ : i <= j
      BY LeastElement
    <2>2. i \in Nat /\ i \in 1..Len(s) /\ f[i] # g[i]
      OBVIOUS
    <2>3. f[i] = IF i = 1 THEN s[i] ELSE f[i - 1] \o s[i]
      BY <2>2 DEF Joins
    <2>4. g[i] = IF i = 1 THEN s[i] ELSE g[i - 1] \o s[i]
      BY <2>2 DEF Joins
    <2>5. i # 1 /\ f[i - 1] # g[i - 1]
      BY <2>2, <2>3, <2>4
    <2>6. i - 1 \in Nat /\ i - 1 \in 1..Len(s) /\ ~(i <= i - 1)
      BY <2>2, <2>5
    <2> QED
      BY <2>1, <2>5, <2>6
  <1>2. \A i \in 1..Len(s) : f[i] = g[i]
    BY <1>1
  <1>3. f = [i \in 1..Len(s) |-> f[i]] /\ g = [i \in 1..Len(s) |-> g[i]]
    BY DEF Joins
  <1> QED
    BY <1>2, <1>3

LEMMA JoinedIsFlattened ==
    ASSUME NEW s \in Seq(Seq(OutByte)), NEW f, IsJoined(f, s), Len(s) # 0
    PROVE  FlattenSeq(s) = f[Len(s)]
  <1> DEFINE J == CHOOSE g : g = [i \in 1..Len(s) |-> IF i = 1 THEN s[i] ELSE g[i - 1] \o s[i]]
  <1>1. FlattenSeq(s) = J[Len(s)]
    BY Zenon DEF FlattenSeq
  <1>2. Joins(f, s)
    BY DEF IsJoined
  <1>3. Joins(J, s)
    BY <1>2, Zenon DEF Joins
  <1> HIDE DEF J
  <1>4. f = J
    BY <1>2, <1>3, JoinedIsUnique
  <1> QED
    BY <1>1, <1>4

LEMMA FlattenType ==
    ASSUME NEW s \in Seq(Seq(OutByte)), NEW f, IsJoined(f, s)
    PROVE  FlattenSeq(s) \in Seq(OutByte)
  <1>1. CASE Len(s) = 0
    <2>1. s = << >>
      BY <1>1, EmptySeq
    <2>2. FlattenSeq(s) = s
      BY <1>1, Zenon DEF FlattenSeq
    <2> QED
      BY <2>1, <2>2, EmptySeq
  <1>2. CASE Len(s) # 0
    <2>1. Len(s) \in 1..Len(s)
      BY <1>2
    <2>2. f[Len(s)] \in Seq(OutByte)
      BY <2>1 DEF IsJoined
    <2> QED
      BY <1>2, <2>2, JoinedIsFlattened
  <1> QED
    BY <1>1, <1>2

LEMMA FlattenAppend ==
    ASSUME NEW s \in Seq(Seq(OutByte)), NEW f, IsJoined(f, s), NEW e \in Seq(OutByte)
    PROVE  /\ \E h : IsJoined(h, Append(s, e))
           /\ FlattenSeq(Append(s, e)) = FlattenSeq(s) \o e
  <1> DEFINE t == Append(s, e)
             n == Len(s)
             last == IF n = 0 THEN e ELSE f[n] \o e
             h == [i \in 1..(n + 1) |-> IF i = n + 1 THEN last ELSE f[i]]
  <1>1. /\ t \in Seq(Seq(OutByte)) /\ Len(t) = n + 1 /\ n \in Nat
        /\ t[n + 1] = e
        /\ \A i \in 1..n : t[i] = s[i]
    BY AppendProperties
  <1>2. /\ \A i \in 1..n : f[i] \in Seq(OutByte)
        /\ \A i \in 1..n : f[i] = IF i = 1 THEN s[i] ELSE f[i - 1] \o s[i]
    <2> HIDE DEF n
    <2>1. f \in [1..n -> Seq(OutByte)]
      BY DEF IsJoined, n
    <2>2. f = [i \in 1..n |-> IF i = 1 THEN s[i] ELSE f[i - 1] \o s[i]]
      BY DEF IsJoined, Joins, n
    <2> QED
      BY <2>1, <2>2
  <1> HIDE DEF t, n
  <1>3. last \in Seq(OutByte)
    <2>1. n # 0 => f[n] \in Seq(OutByte)
      BY <1>1, <1>2
    <2> QED
      BY <2>1, ConcatProperties
  <1>4. h \in [1..(n + 1) -> Seq(OutByte)]
    <2> HIDE DEF last
    <2>1. ASSUME NEW i \in 1..(n + 1) PROVE (IF i = n + 1 THEN last ELSE f[i]) \in Seq(OutByte)
      <3>1. i # n + 1 => i \in 1..n
        BY <1>1
      <3> QED
        BY <1>2, <1>3, <3>1
    <2> QED
      BY <2>1
  <1>5. ASSUME NEW i \in 1..(n + 1)
        PROVE  h[i] = IF i = 1 THEN t[i] ELSE h[i - 1] \o t[i]
    <2>1. CASE i = n + 1
      <3>1. h[i] = last /\ t[i] = e
        BY <1>1, <2>1
      <3>2. n = 0 <=> i = 1
        BY <1>1, <2>1
      <3>3. n # 0 => i - 1 \in 1..(n + 1) /\ i - 1 # n + 1 /\ i - 1 = n
        BY <1>1, <2>1
      <3>4. n # 0 => h[i - 1] = f[n]
        BY <3>3
      <3> HIDE DEF h
      <3> QED
        BY <3>1, <3>2, <3>4
    <2>2. CASE i # n + 1
      <3>1. i \in 1..n /\ (i # 1 => i - 1 \in 1..(n + 1) /\ i - 1 # n + 1)
        BY <1>1, <2>2
      <3>2. h[i] = f[i] /\ (i # 1 => h[i - 1] = f[i - 1])
        BY <2>2, <3>1
      <3> HIDE DEF h
      <3> QED
        BY <1>1, <1>2, <3>1, <3>2
    <2> QED
      BY <2>1, <2>2
  <1>6. h[n + 1] = last
    BY <1>1
  <1>7. IsJoined(h, t)
    <2>1. h = [i \in 1..(n + 1) |-> IF i = 1 THEN t[i] ELSE h[i - 1] \o t[i]]
      BY <1>5
    <2> HIDE DEF h
    <2> QED
      BY <1>1, <1>4, <2>1 DEF IsJoined, Joins
  <1> HIDE DEF h
  <1>8. FlattenSeq(t) = last
    <2>1. Len(t) # 0
      BY <1>1
    <2>2. FlattenSeq(t) = h[Len(t)]
      BY <1>1, <1>7, <2>1, JoinedIsFlattened
    <2> HIDE DEF last
    <2> QED
      BY <1>1, <1>6, <2>2
  <1>9. CASE n = 0
    <2>1. FlattenSeq(s) = s /\ s = << >>
      <3>1. s = << >>
        BY <1>9, EmptySeq DEF n
      <3>2. FlattenSeq(s) = s
        BY <1>9, Zenon DEF FlattenSeq, n
      <3> QED
        BY <3>1, <3>2
    <2>2. << >> \o e = e
      BY ConcatEmptySeq
    <2> QED
      BY <1>7, <1>8, <1>9, <2>1, <2>2 DEF t
  <1>10. CASE n # 0
    <2>1. FlattenSeq(s) = f[n]
      BY <1>10, JoinedIsFlattened DEF n
    <2> QED
      BY <1>7, <1>8, <1>10, <2>1 DEF t
  <1> QED
    BY <1>9, <1>10

-----------------------------------------------------------------------------
(***************************************************************************)
(* The stream of generate.  Until it ends, what was delivered and what a   *)
(* last scan would make of the buffer is, whatever may still be sampled,   *)
(* the conversion of all bytes at once.                                    *)
(***************************************************************************)
StreamTypeOK ==
    /\ fed \in Seq(Byte)
    /\ pending \in Seq(Byte)
    /\ outputs \in Seq(Seq(OutByte))
    /\ \E f : IsJoined(f, outputs)

Delivered == FlattenSeq(outputs)

StreamOpen ==
    \A x \in Seq(Byte) : Scan(fed \o x, TRUE).out = Delivered \o Scan(pending \o x, TRUE).out

StreamInv ==
    /\ StreamTypeOK
    /\ \A i \in 1..Len(outputs) : DividesInto(outputs[i], WholeCharacters)
    /\ pc = "prefill" => fed = << >> /\ outputs = << >>
    /\ pc \notin {"returned", "threw"} => StreamOpen
    /\ pc = "returned" => Delivered = Scan(fed, TRUE).out

LEMMA ScanType ==
    ASSUME NEW bytes \in Seq(Byte), NEW final
    PROVE  Scan(bytes, final).out \in Seq(OutByte) /\ Scan(bytes, final).rest \in Seq(Byte)
  <1>1. 1 \in 1..(Len(bytes) + 1)
    OBVIOUS
  <1> QED
    BY <1>1, ScanTypes, ScanIsScanFrom

LEMMA ScanOfNothing == Scan(<< >>, TRUE).out = << >>
  <1>1. << >> \in Seq(Byte) /\ Len(<< >>) + 1 = 1
    OBVIOUS
  <1>2. ScanFrom(<< >>, TRUE)[Len(<< >>) + 1].out = << >>
    BY <1>1, ScanStep
  <1>3. ScanFrom(<< >>, TRUE)[1].out = << >>
    BY <1>1, <1>2
  <1> QED
    BY <1>3, ScanIsScanFrom

LEMMA FlattenOfNothing == FlattenSeq(<< >>) = << >> /\ IsJoined(<< >>, << >>)
  <1>1. Len(<< >>) = 0
    OBVIOUS
  <1>2. FlattenSeq(<< >>) = << >>
    BY <1>1, Zenon DEF FlattenSeq
  <1>3. IsJoined(<< >>, << >>)
    BY <1>1 DEF IsJoined, Joins
  <1> QED
    BY <1>2, <1>3

\* A call of emit_complete_utf8 delivers what the scan puts out, as whole
\* characters, and nothing it has delivered before is touched.
LEMMA EmitDelivers ==
    ASSUME StreamTypeOK, NEW bytes \in Seq(Byte), NEW final, EmitCompleteUtf8(bytes, final),
           \A i \in 1..Len(outputs) : DividesInto(outputs[i], WholeCharacters)
    PROVE  /\ pending' \in Seq(Byte)
           /\ outputs' \in Seq(Seq(OutByte))
           /\ \E f : IsJoined(f, outputs')
           /\ \A i \in 1..Len(outputs') : DividesInto(outputs'[i], WholeCharacters)
           /\ FlattenSeq(outputs') = Delivered \o Scan(bytes, final).out
  <1> DEFINE o == Scan(bytes, final).out
  <1>1. o \in Seq(OutByte) /\ pending' \in Seq(Byte)
    BY ScanType DEF EmitCompleteUtf8
  <1>2. outputs' = IF o = << >> THEN outputs ELSE Append(outputs, o)
    BY DEF EmitCompleteUtf8
  <1>3. DividesInto(o, WholeCharacters)
    BY ScanDivides
  <1> HIDE DEF o
  <1>4. outputs \in Seq(Seq(OutByte)) /\ \E f : IsJoined(f, outputs)
    BY DEF StreamTypeOK
  <1>5. PICK f : IsJoined(f, outputs)
    BY <1>4
  <1>6. Delivered \in Seq(OutByte)
    BY <1>4, <1>5, FlattenType DEF Delivered
  <1>7. CASE o = << >>
    <2>1. Delivered \o o = Delivered /\ outputs' = outputs
      BY <1>2, <1>6, <1>7, ConcatEmptySeq
    <2> QED
      BY <1>1, <1>4, <2>1 DEF Delivered, o
  <1>8. CASE o # << >>
    <2>1. outputs' = Append(outputs, o)
      BY <1>2, <1>8
    <2>2. /\ \E h : IsJoined(h, outputs')
          /\ FlattenSeq(outputs') = Delivered \o o
      BY <1>1, <1>4, <1>5, <2>1, FlattenAppend DEF Delivered
    <2>3. /\ outputs' \in Seq(Seq(OutByte))
          /\ Len(outputs') = Len(outputs) + 1
          /\ \A i \in 1..Len(outputs) : outputs'[i] = outputs[i]
          /\ outputs'[Len(outputs) + 1] = o
          /\ Len(outputs) \in Nat
      BY <1>1, <1>4, <2>1, AppendProperties
    <2>4. ASSUME NEW i \in 1..Len(outputs') PROVE DividesInto(outputs'[i], WholeCharacters)
      <3>1. i \in 1..Len(outputs) \/ i = Len(outputs) + 1
        BY <2>3
      <3> QED
        BY <1>3, <2>3, <3>1
    <2> QED
      BY <1>1, <2>2, <2>3, <2>4 DEF o
  <1> QED
    BY <1>7, <1>8

LEMMA StreamBegins == Init => StreamInv
  <1> SUFFICES ASSUME Init PROVE StreamInv
    OBVIOUS
  <1>1. fed = << >> /\ pending = << >> /\ outputs = << >> /\ pc # "returned"
    BY DEF Init
  <1>2. StreamTypeOK
    BY <1>1, EmptySeq, FlattenOfNothing DEF StreamTypeOK
  <1>3. Delivered = << >>
    BY <1>1, FlattenOfNothing DEF Delivered
  <1>4. ASSUME NEW x \in Seq(Byte)
        PROVE  Scan(fed \o x, TRUE).out = Delivered \o Scan(pending \o x, TRUE).out
    <2>1. << >> \o x = x /\ Scan(x, TRUE).out \in Seq(OutByte)
      BY ConcatEmptySeq, ScanType
    <2>2. << >> \o Scan(x, TRUE).out = Scan(x, TRUE).out
      BY <2>1, ConcatEmptySeq
    <2> QED
      BY <1>1, <1>3, <2>1, <2>2
  <1>5. StreamOpen
    BY <1>4 DEF StreamOpen
  <1>6. \A i \in 1..Len(outputs) : DividesInto(outputs[i], WholeCharacters)
    <2>1. Len(outputs) = 0
      BY <1>1
    <2> QED
      BY <2>1
  <1> QED
    BY <1>1, <1>2, <1>5, <1>6 DEF StreamInv

\* A token is sampled: its piece joins the buffer, which is scanned.
LEMMA SampleKeepsStream ==
    ASSUME StreamInv, NEW piece \in Piece, Sample(piece)
    PROVE  StreamInv'
  <1> DEFINE b == pending \o piece
             S == Scan(b, FALSE)
  <1>1. piece \in Seq(Byte) /\ StreamTypeOK /\ fed \in Seq(Byte) /\ pending \in Seq(Byte)
    BY GeneratorAssumption DEF StreamInv, StreamTypeOK
  <1>2. pc = "sample" /\ pc' = "decode" /\ fed' = fed \o piece /\ EmitCompleteUtf8(b, FALSE)
    BY DEF Sample
  <1>3. b \in Seq(Byte) /\ fed' \in Seq(Byte)
    BY <1>1, <1>2, ConcatProperties
  <1>4. pending' = S.rest
    BY <1>2 DEF EmitCompleteUtf8
  <1>5. S.out \in Seq(OutByte) /\ S.rest \in Seq(Byte)
    BY <1>3, ScanType
  <1> HIDE DEF b
  <1>6. /\ pending' \in Seq(Byte)
        /\ outputs' \in Seq(Seq(OutByte))
        /\ \E f : IsJoined(f, outputs')
        /\ \A i \in 1..Len(outputs') : DividesInto(outputs'[i], WholeCharacters)
        /\ FlattenSeq(outputs') = Delivered \o S.out
    BY <1>1, <1>2, <1>3, EmitDelivers DEF StreamInv
  <1>7. Delivered \in Seq(OutByte)
    BY <1>1, FlattenType DEF StreamTypeOK, Delivered
  <1>8. ASSUME NEW x \in Seq(Byte)
        PROVE  Scan(fed' \o x, TRUE).out = FlattenSeq(outputs') \o Scan(pending' \o x, TRUE).out
    <2> DEFINE r == Scan(S.rest \o x, TRUE).out
    <2>1. piece \o x \in Seq(Byte) /\ S.rest \o x \in Seq(Byte)
      BY <1>1, <1>5, ConcatProperties
    <2>2. r \in Seq(OutByte)
      BY <2>1, ScanType
    <2>3. Scan(fed \o (piece \o x), TRUE).out
              = Delivered \o Scan(pending \o (piece \o x), TRUE).out
      BY <1>2, <2>1 DEF StreamInv, StreamOpen
    <2>4. /\ (fed \o piece) \o x = fed \o (piece \o x)
          /\ b \o x = pending \o (piece \o x)
      <3>1. \A u, v, w \in Seq(Byte) : (u \o v) \o w = u \o (v \o w)
        BY ConcatAssociative
      <3> QED
        BY <1>1, <3>1 DEF b
    <2>5. Scan(b \o x, TRUE).out = S.out \o r
      BY <1>3, ScanInTwoParts
    <2>6. (Delivered \o S.out) \o r = Delivered \o (S.out \o r)
      <3> HIDE DEF S, r
      <3>1. \A u, v, w \in Seq(OutByte) : (u \o v) \o w = u \o (v \o w)
        BY ConcatAssociative
      <3> QED
        BY <1>5, <1>7, <2>2, <3>1
    <2>7. Scan(fed' \o x, TRUE).out = Delivered \o (S.out \o r)
      BY <1>2, <2>3, <2>4, <2>5
    <2> QED
      BY <1>4, <1>6, <2>6, <2>7
  <1>9. StreamTypeOK'
    BY <1>3, <1>6 DEF StreamTypeOK
  <1>10. StreamOpen'
    BY <1>8 DEF StreamOpen, Delivered
  <1> QED
    BY <1>2, <1>6, <1>9, <1>10 DEF StreamInv

\* The end: what is left in the buffer is converted.
LEMMA FlushKeepsStream ==
    ASSUME StreamInv, Flush
    PROVE  StreamInv'
  <1>1. StreamTypeOK /\ fed \in Seq(Byte) /\ pending \in Seq(Byte)
    BY DEF StreamInv, StreamTypeOK
  <1>2. pc = "flush" /\ pc' = "returned" /\ fed' = fed /\ EmitCompleteUtf8(pending, TRUE)
    BY DEF Flush
  <1>3. /\ pending' \in Seq(Byte)
        /\ outputs' \in Seq(Seq(OutByte))
        /\ \E f : IsJoined(f, outputs')
        /\ \A i \in 1..Len(outputs') : DividesInto(outputs'[i], WholeCharacters)
        /\ FlattenSeq(outputs') = Delivered \o Scan(pending, TRUE).out
    BY <1>1, <1>2, EmitDelivers DEF StreamInv
  <1>4. Scan(fed, TRUE).out = Delivered \o Scan(pending, TRUE).out
    <2>1. << >> \in Seq(Byte) /\ fed \o << >> = fed /\ pending \o << >> = pending
      BY <1>1, EmptySeq, ConcatEmptySeq
    <2>2. Scan(fed \o << >>, TRUE).out = Delivered \o Scan(pending \o << >>, TRUE).out
      BY <1>2, <2>1 DEF StreamInv, StreamOpen
    <2> QED
      BY <2>1, <2>2
  <1>5. StreamTypeOK'
    BY <1>1, <1>2, <1>3 DEF StreamTypeOK
  <1>6. (Delivered = Scan(fed, TRUE).out)'
    BY <1>2, <1>3, <1>4 DEF Delivered
  <1> QED
    BY <1>2, <1>3, <1>5, <1>6 DEF StreamInv

LEMMA StepKeepsStream == StreamInv /\ [Next]_vars => StreamInv'
  <1> SUFFICES ASSUME StreamInv, [Next]_vars PROVE StreamInv'
    OBVIOUS
  <1>1. ASSUME UNCHANGED <<fed, pending, outputs>>,
               pc' = "prefill" => pc = "prefill",
               pc' \notin {"returned", "threw"} => pc \notin {"returned", "threw"},
               pc' = "returned" => pc \in {"returned", "prefill"}
        PROVE  StreamInv'
    <2>1. StreamTypeOK' /\ (\A i \in 1..Len(outputs) : DividesInto(outputs[i], WholeCharacters))'
      BY <1>1 DEF StreamInv, StreamTypeOK
    <2>2. (pc = "prefill" => fed = << >> /\ outputs = << >>)'
      BY <1>1 DEF StreamInv
    <2>3. (pc \notin {"returned", "threw"} => StreamOpen)'
      BY <1>1 DEF StreamInv, StreamOpen, Delivered
    <2>4. (pc = "returned" => Delivered = Scan(fed, TRUE).out)'
      <3>1. pc = "prefill" => Delivered = Scan(fed, TRUE).out
        BY ScanOfNothing, FlattenOfNothing DEF StreamInv, Delivered
      <3> QED
        BY <1>1, <3>1 DEF StreamInv, Delivered
    <2> QED
      BY <2>1, <2>2, <2>3, <2>4 DEF StreamInv
  <1>2. CASE Prefill
    BY <1>1, <1>2 DEF Prefill
  <1>3. CASE LoopHead
    BY <1>1, <1>3 DEF LoopHead
  <1>4. CASE EndOfGeneration
    BY <1>1, <1>4 DEF EndOfGeneration
  <1>5. ASSUME NEW piece \in Piece, Sample(piece) PROVE StreamInv'
    BY <1>5, SampleKeepsStream
  <1>6. CASE Decode
    BY <1>1, <1>6 DEF Decode
  <1>7. CASE Flush
    BY <1>7, FlushKeepsStream
  <1>8. CASE Throw
    BY <1>1, <1>8 DEF Throw
  <1>9. CASE RequestStop
    BY <1>1, <1>9 DEF RequestStop
  <1>10. CASE UNCHANGED vars
    BY <1>1, <1>10 DEF vars
  <1> QED
    BY <1>2, <1>3, <1>4, <1>5, <1>6, <1>7, <1>8, <1>9, <1>10 DEF Next, Generate, GenerateStep, Ended

\* The stream is faithful, for every sequence of pieces the model samples:
\* every event is valid UTF-8 by itself, and what was received in the end is
\* the conversion of all bytes at once, wherever the tokens split them, and
\* the bytes themselves if they were well-formed.
THEOREM GeneratorStreamIsFaithful == Safety => []StreamIsFaithful
  <1>1. StreamInv => StreamIsFaithful
    <2> SUFFICES ASSUME StreamInv PROVE StreamIsFaithful
      OBVIOUS
    <2>1. fed \in Seq(Byte)
      BY DEF StreamInv, StreamTypeOK
    <2>2. DividesInto(fed, Characters) => Scan(fed, TRUE).out = fed
      BY <2>1, WellFormedIsUnchanged
    <2> QED
      BY <2>2 DEF StreamInv, StreamIsFaithful, Delivered, WholeCharacters
  <1> QED
    BY <1>1, StreamBegins, StepKeepsStream, PTL DEF Safety
=============================================================================
