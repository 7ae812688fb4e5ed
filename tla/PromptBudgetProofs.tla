------------------------- MODULE PromptBudgetProofs -------------------------
(***************************************************************************)
(* For every number of sources or messages, every tokenizer and every      *)
(* budget: the answer keeps the tokens reserved for it, and a chat keeps   *)
(* the longest history that fits.                                          *)
(***************************************************************************)
EXTENDS PromptBudget, FiniteSetTheorems, WellFoundedInduction, TLAPS

TypeOK ==
    /\ call \in Call
    /\ pc \in {"begin", "choose", "fit", "generate", "returned", "threw"}
    /\ next \in Nat
    /\ retained \in SUBSET Part
    /\ dropped \in Nat

\* Each of the two loops belongs to its kind of call, and starts from the
\* values Init gave.
OwnLoop ==
    /\ pc = "choose" => call.kind = "ask"
    /\ pc = "fit" => call.kind = "chat"
    /\ pc = "begin" => retained = {} /\ dropped = 0 /\ next = 1

\* A prompt that is handed on fits, and so does what ContextBudget has so far.
PromptFits == pc \in {"choose", "generate", "returned"} => Fits

\* The loop of ContextBudget has looked at the sources before next.
RankedSoFar ==
    call.kind = "ask" => next \in 1..(call.size + 1) /\ retained \subseteq 1..(next - 1)

\* What PromptBuilder has tried so far: every longer history.
LongestSoFar ==
    (call.kind = "chat" /\ pc \in {"fit", "generate", "returned"}) =>
        /\ retained \in Shortened
        /\ \A h \in Shortened :
              (retained \subseteq h /\ h # retained) => call.tokens[h] > MaxPrompt
        /\ dropped = call.size - Cardinality(retained)

BudgetInv ==
    /\ TypeOK
    /\ OwnLoop
    /\ PromptFits
    /\ RankedSoFar
    /\ LongestSoFar
    /\ AnswerHasItsRoom
    /\ KeepsTheLongestThatFits

\* What the types of the call's fields give.
LEMMA CallFacts ==
    ASSUME TypeOK
    PROVE  /\ call.kind \in {"ask", "chat"}
           /\ call.size \in Nat
           /\ call.context \in Nat /\ call.reserved \in Nat /\ call.margin \in Nat
           /\ MaxPrompt \in Int
           /\ \A s \in SUBSET Part : call.tokens[s] \in Nat
           /\ IsFiniteSet(Part) /\ Cardinality(Part) = call.size
           /\ IsFiniteSet(retained) /\ Cardinality(retained) \in Nat
  <1>1. /\ call.kind \in {"ask", "chat"} /\ call.size \in Nat
        /\ call.context \in Nat /\ call.reserved \in Nat /\ call.margin \in Nat
        /\ call.tokens \in [SUBSET (1..call.size) -> Nat]
    BY BudgetAssumption DEF TypeOK
  <1>2. MaxPrompt \in Int
    BY <1>1 DEF MaxPrompt
  <1>3. \A s \in SUBSET Part : call.tokens[s] \in Nat
    BY <1>1 DEF Part
  <1>4. IsFiniteSet(Part) /\ Cardinality(Part) = call.size
    <2>1. 1 \in Int /\ call.size \in Int /\ (1 > call.size => call.size = 0)
      BY <1>1
    <2>2. /\ IsFiniteSet(1..call.size)
          /\ Cardinality(1..call.size) = IF 1 > call.size THEN 0 ELSE call.size - 1 + 1
      BY <2>1, FS_Interval
    <2> QED
      BY <1>1, <2>1, <2>2 DEF Part
  <1>5. IsFiniteSet(retained)
    BY <1>4, FS_Subset DEF TypeOK
  <1>6. Cardinality(retained) \in Nat
    BY <1>5, FS_CardinalityType
  <1> QED
    BY <1>1, <1>2, <1>3, <1>4, <1>5, <1>6

\* A set of natural numbers has a least element, which is its Min.
LEMMA MinFacts ==
    ASSUME NEW T \in SUBSET Nat, T # {}
    PROVE  Min(T) \in T /\ \A y \in T : Min(T) <= y
  <1> DEFINE Less == {ss \in Nat \X Nat : ss[1] < ss[2]}
  <1>1. IsWellFoundedOn(Less, Nat)
    BY NatLessThanWellFounded, Zenon DEF OpToRel
  <1> HIDE DEF Less
  <1>2. \E x \in T : \A y \in T : ~(<<y, x>> \in Less)
    BY <1>1, WFMin
  <1>3. \A x, y \in Nat : y < x => <<y, x>> \in Less
    BY DEF Less
  <1>4. \E x \in T : \A y \in T : x <= y
    <2>1. PICK x \in T : \A y \in T : ~(<<y, x>> \in Less)
      BY <1>2
    <2>2. \A y \in T : ~(y < x)
      BY <1>3, <2>1
    <2> QED
      BY <2>2
  <1> QED
    BY <1>4 DEF Min

-----------------------------------------------------------------------------
(***************************************************************************)
(* Shortened histories.                                                    *)
(***************************************************************************)
\* The members of From(k): the messages that are in the conversation and not
\* before k, and those that are not in it.
LEMMA FromFacts ==
    ASSUME TypeOK
    PROVE  \A k \in 1..(call.size + 1), i \in Part :
               i \in From(k) <=> (i \in Conversation => i >= k)
  BY DEF From

\* Of two shortened histories one contains the other.
LEMMA ShortenedIsAChain ==
    ASSUME TypeOK
    PROVE  /\ \A g, h \in Shortened : g \subseteq h \/ h \subseteq g
           /\ \A h \in Shortened : h \in SUBSET Part
  <1>1. call.size \in Nat
    BY CallFacts
  <1>2. ASSUME NEW g \in Shortened, NEW h \in Shortened PROVE g \subseteq h \/ h \subseteq g
    <2>1. PICK j \in 1..(call.size + 1) : g = From(j)
      BY DEF Shortened
    <2>2. PICK k \in 1..(call.size + 1) : h = From(k)
      BY DEF Shortened
    <2>3. j <= k \/ k <= j
      BY <1>1
    <2>4. \A i \in Part : i \in Nat
      BY <1>1 DEF Part
    <2> QED
      BY <1>1, <2>1, <2>2, <2>3, <2>4 DEF From
  <1> QED
    BY <1>2 DEF Shortened, From

\* The whole history is the longest of them.
LEMMA WholeHistory ==
    ASSUME TypeOK
    PROVE  Part \in Shortened /\ \A h \in Shortened : h \subseteq Part
  <1>1. call.size \in Nat
    BY CallFacts
  <1>2. From(1) = Part
    BY <1>1 DEF From, Part
  <1> QED
    BY <1>1, <1>2 DEF Shortened, From

\* Without its oldest message of the conversation a shortened history is the
\* next shorter one.
LEMMA NextShorter ==
    ASSUME TypeOK, retained \in Shortened, Conversation \cap retained # {}
    PROVE  /\ Candidate \in Conversation \cap retained
           /\ retained \ {Candidate} \in Shortened
           /\ \A h \in Shortened :
                 (retained \ {Candidate} \subseteq h /\ h # retained \ {Candidate})
                     => retained \subseteq h
  <1> DEFINE m == Candidate
  <1>1. call.size \in Nat /\ retained \in SUBSET Part
    BY CallFacts DEF TypeOK
  <1>2. Part \subseteq Nat /\ Conversation \subseteq Part
    BY <1>1 DEF Part, Conversation
  <1>3. /\ m \in Conversation /\ m \in retained
        /\ \A i \in Conversation \cap retained : m <= i
    BY <1>2, MinFacts DEF Candidate
  <1>4. m \in 1..call.size /\ m + 1 \in 1..(call.size + 1)
    BY <1>1, <1>2, <1>3 DEF Part
  <1>5. PICK k \in 1..(call.size + 1) : retained = From(k)
    BY DEF Shortened
  <1>6. retained \ {m} = From(m + 1)
    <2>1. ASSUME NEW i \in Part
          PROVE  i \in From(k) \ {m} <=> (i \in Conversation => i >= m + 1)
      <3>1. i \in Nat /\ k \in Nat /\ m \in Nat
        BY <1>1, <1>2, <1>4
      <3>2. i \in From(k) <=> (i \in Conversation => i >= k)
        BY FromFacts
      <3>3. m >= k
        BY <1>2, <1>3, <1>5, FromFacts
      <3>4. i \in Conversation /\ i \in From(k) => m <= i
        BY <1>3, <1>5
      <3> QED
        BY <1>3, <3>1, <3>2, <3>3, <3>4
    <2> QED
      BY <1>4, <1>5, <2>1 DEF From
  <1>7. ASSUME NEW h \in Shortened, retained \ {m} \subseteq h, h # retained \ {m}
        PROVE  retained \subseteq h
    <2>1. PICK j \in 1..(call.size + 1) : h = From(j)
      BY DEF Shortened
    <2>2. j \in Nat /\ m \in Nat
      BY <1>1, <1>4
    <2>3. ~(j >= m + 1)
      <3>1. ASSUME j >= m + 1 PROVE From(j) \subseteq From(m + 1)
        <4>1. \A i \in Nat : i >= j => i >= m + 1
          BY <2>2, <3>1
        <4> QED
          BY <1>2, <4>1 DEF From
      <3> QED
        BY <1>6, <1>7, <2>1, <3>1
    <2>4. m \in From(j)
      BY <1>2, <1>3, <2>2, <2>3 DEF From
    <2> QED
      BY <1>7, <2>1, <2>4
  <1> QED
    BY <1>3, <1>4, <1>6, <1>7 DEF Shortened

-----------------------------------------------------------------------------
(***************************************************************************)
(* The steps.                                                              *)
(***************************************************************************)
\* What depends on the call alone stays with it.
LEMMA SameCall ==
    ASSUME call' = call
    PROVE  /\ Part' = Part /\ MaxPrompt' = MaxPrompt /\ Conversation' = Conversation
           /\ Shortened' = Shortened
           /\ retained' = retained => (Fits' <=> Fits)
  BY DEF Part, MaxPrompt, Conversation, Shortened, From, Fits

\* The properties of the two loops are about retained and dropped: a step that
\* only moves on keeps them.
LEMMA MovesOn ==
    ASSUME BudgetInv, UNCHANGED <<call, next, retained, dropped>>
    PROVE  RankedSoFar'
  BY SameCall DEF BudgetInv, RankedSoFar

\* The tests at the head of both functions.
LEMMA BeginKeepsInv ==
    ASSUME BudgetInv, BeginAsk \/ BeginChat
    PROVE  BudgetInv'
  <1>1. /\ TypeOK /\ pc = "begin" /\ retained = {} /\ dropped = 0 /\ next = 1
        /\ call' = call /\ UNCHANGED <<next, dropped, room>>
        /\ RankedSoFar
    BY DEF BudgetInv, OwnLoop, BeginAsk, BeginChat, Goes
  <1>2. /\ call.kind \in {"ask", "chat"} /\ call.size \in Nat
        /\ MaxPrompt \in Int /\ IsFiniteSet(Part) /\ Cardinality(Part) = call.size
        /\ \A s \in SUBSET Part : call.tokens[s] \in Nat
    BY <1>1, CallFacts
  <1>3. CASE retained' = {} /\ pc' \in {"threw", "choose"}
              /\ (pc' = "choose" => call.kind = "ask" /\ Fits)
    <2>1. TypeOK' /\ OwnLoop' /\ PromptFits'
      BY <1>1, <1>3, SameCall DEF TypeOK, OwnLoop, PromptFits
    <2>2. RankedSoFar'
      BY <1>1, <1>3, MovesOn
    <2>3. LongestSoFar' /\ AnswerHasItsRoom'
      BY <1>1, <1>3 DEF LongestSoFar, AnswerHasItsRoom
    <2>4. KeepsTheLongestThatFits'
      BY <1>1, <1>3 DEF KeepsTheLongestThatFits
    <2> QED
      BY <2>1, <2>2, <2>3, <2>4 DEF BudgetInv
  <1>4. CASE retained' = Part /\ pc' = "fit" /\ call.kind = "chat"
    <2>1. TypeOK' /\ OwnLoop' /\ PromptFits'
      BY <1>1, <1>4, SameCall DEF TypeOK, OwnLoop, PromptFits
    <2>2. RankedSoFar' /\ AnswerHasItsRoom' /\ KeepsTheLongestThatFits'
      BY <1>1, <1>4 DEF RankedSoFar, AnswerHasItsRoom, KeepsTheLongestThatFits
    <2>3. LongestSoFar'
      <3>1. Part \in Shortened /\ \A h \in Shortened : Part \subseteq h => h = Part
        BY <1>1, WholeHistory
      <3>2. dropped' = call.size - Cardinality(Part)
        BY <1>1, <1>2
      <3> QED
        BY <1>1, <1>4, <3>1, <3>2, SameCall DEF LongestSoFar
    <2> QED
      BY <2>1, <2>2, <2>3 DEF BudgetInv
  <1>5. CASE BeginAsk
    <2>1. call.tokens[{}] \in Nat
      BY <1>2
    <2>2. /\ pc' \in {"threw", "choose"} /\ retained' = retained /\ call.kind = "ask"
          /\ pc' = "choose" => ~(call.tokens[{}] > MaxPrompt)
      BY <1>5 DEF BeginAsk, Goes
    <2> QED
      BY <1>1, <1>2, <1>3, <2>1, <2>2 DEF Fits
  <1>6. CASE BeginChat
    BY <1>1, <1>3, <1>4, <1>6 DEF BeginChat, Goes
  <1> QED
    BY <1>5, <1>6

\* ContextBudget looks at one source.
LEMMA ChooseKeepsInv ==
    ASSUME BudgetInv, Choose
    PROVE  BudgetInv'
  <1>1. /\ TypeOK /\ pc = "choose" /\ call.kind = "ask" /\ Fits
        /\ next \in Part /\ next' = next + 1
        /\ UNCHANGED <<call, pc, room>>
        /\ retained \subseteq 1..(next - 1)
    BY DEF BudgetInv, OwnLoop, PromptFits, RankedSoFar, Choose
  <1>2. /\ call.size \in Nat /\ MaxPrompt \in Int
        /\ \A s \in SUBSET Part : call.tokens[s] \in Nat
        /\ dropped \in Nat /\ next \in 1..call.size /\ retained \in SUBSET Part
    BY <1>1, CallFacts DEF TypeOK, Part
  <1>3. /\ retained' \in SUBSET Part /\ dropped' \in Nat
        /\ retained' \subseteq 1..(next' - 1)
        /\ call.tokens[retained'] <= MaxPrompt
    <2>1. CASE CandidateFits
      <3>1. retained' = retained \cup {next} /\ dropped' = dropped
        BY <2>1 DEF Choose
      <3> QED
        BY <1>1, <1>2, <2>1, <3>1 DEF CandidateFits
    <2>2. CASE ~CandidateFits
      <3>1. retained' = retained /\ dropped' = dropped + 1
        BY <2>2 DEF Choose
      <3> QED
        BY <1>1, <1>2, <2>2, <3>1 DEF Fits
    <2> QED
      BY <2>1, <2>2
  <1>4. TypeOK' /\ OwnLoop'
    BY <1>1, <1>2, <1>3, SameCall DEF TypeOK, OwnLoop
  <1>5. PromptFits' /\ RankedSoFar'
    BY <1>1, <1>2, <1>3, SameCall DEF PromptFits, RankedSoFar, Fits
  <1>6. LongestSoFar' /\ KeepsTheLongestThatFits' /\ AnswerHasItsRoom'
    BY <1>1 DEF LongestSoFar, KeepsTheLongestThatFits, AnswerHasItsRoom
  <1> QED
    BY <1>4, <1>5, <1>6 DEF BudgetInv

\* Either loop hands its prompt to the generator.
LEMMA HandedOnKeepsInv ==
    ASSUME BudgetInv, Chosen \/ Fitted
    PROVE  BudgetInv'
  <1>1. /\ TypeOK /\ Fits /\ pc \in {"choose", "fit"} /\ pc' = "generate"
        /\ UNCHANGED <<call, next, retained, dropped, room>>
        /\ pc = "choose" => call.kind = "ask"
    BY DEF BudgetInv, OwnLoop, PromptFits, Chosen, Fitted, Goes
  <1>2. /\ MaxPrompt \in Int /\ call.tokens[retained] \in Nat
        /\ call.context \in Nat /\ call.reserved \in Nat /\ call.margin \in Nat
    BY <1>1, CallFacts DEF TypeOK
  <1>3. TypeOK' /\ OwnLoop' /\ PromptFits'
    BY <1>1, SameCall DEF TypeOK, OwnLoop, PromptFits
  <1>4. RankedSoFar'
    BY <1>1, MovesOn
  <1>5. LongestSoFar'
    BY <1>1, SameCall DEF BudgetInv, LongestSoFar
  <1>6. KeepsTheLongestThatFits'
    BY <1>1, <1>3, <1>5, SameCall DEF KeepsTheLongestThatFits, LongestSoFar, PromptFits
  <1>7. AnswerHasItsRoom'
    BY <1>1, <1>2 DEF AnswerHasItsRoom, Fits, MaxPrompt
  <1> QED
    BY <1>3, <1>4, <1>5, <1>6, <1>7 DEF BudgetInv

\* PromptBuilder gives up its oldest message.
LEMMA DiscardKeepsInv ==
    ASSUME BudgetInv, Discard
    PROVE  BudgetInv'
  <1>1. /\ TypeOK /\ pc = "fit" /\ call.kind = "chat" /\ ~Fits /\ ~NoCandidate
        /\ retained' = retained \ {Candidate} /\ dropped' = dropped + 1
        /\ UNCHANGED <<call, pc, next, room>>
        /\ LongestSoFar
    BY DEF BudgetInv, OwnLoop, Discard
  <1>2. /\ call.size \in Nat /\ MaxPrompt \in Int /\ call.tokens[retained] \in Nat
        /\ IsFiniteSet(retained) /\ Cardinality(retained) \in Nat
        /\ dropped \in Nat
    BY <1>1, CallFacts DEF TypeOK
  <1>3. /\ retained \in Shortened
        /\ \A h \in Shortened :
              (retained \subseteq h /\ h # retained) => call.tokens[h] > MaxPrompt
        /\ dropped = call.size - Cardinality(retained)
    BY <1>1 DEF LongestSoFar
  <1>4. /\ Candidate \in retained
        /\ retained' \in Shortened
        /\ \A h \in Shortened : (retained' \subseteq h /\ h # retained') => retained \subseteq h
    BY <1>1, <1>3, NextShorter DEF NoCandidate
  <1>5. call.tokens[retained] > MaxPrompt
    BY <1>1, <1>2 DEF Fits
  <1>6. dropped' = call.size - Cardinality(retained')
    <2>1. Cardinality(retained') = Cardinality(retained) - 1
      BY <1>1, <1>2, <1>4, FS_RemoveElement
    <2> QED
      BY <1>1, <1>2, <1>3, <2>1
  <1>7. TypeOK' /\ OwnLoop' /\ PromptFits'
    BY <1>1, SameCall DEF TypeOK, OwnLoop, PromptFits
  <1>8. LongestSoFar'
    <2>1. ASSUME NEW h \in Shortened, retained' \subseteq h, h # retained'
          PROVE  call.tokens[h] > MaxPrompt
      BY <1>3, <1>4, <1>5, <2>1
    <2> QED
      BY <1>1, <1>4, <1>6, <2>1, SameCall DEF LongestSoFar
  <1>9. RankedSoFar' /\ AnswerHasItsRoom' /\ KeepsTheLongestThatFits'
    BY <1>1 DEF RankedSoFar, AnswerHasItsRoom, KeepsTheLongestThatFits
  <1> QED
    BY <1>7, <1>8, <1>9 DEF BudgetInv

\* PromptBuilder rejects the history: nothing shorter is left but the empty
\* one.
LEMMA RejectKeepsInv ==
    ASSUME BudgetInv, Reject
    PROVE  BudgetInv'
  <1>1. /\ TypeOK /\ pc = "fit" /\ call.kind = "chat" /\ ~Fits /\ NoCandidate
        /\ pc' = "threw" /\ UNCHANGED <<call, next, retained, dropped, room>>
        /\ LongestSoFar
    BY DEF BudgetInv, OwnLoop, Reject, Goes
  <1>2. /\ MaxPrompt \in Int /\ call.tokens[retained] \in Nat /\ IsFiniteSet(retained)
    BY <1>1, CallFacts DEF TypeOK
  <1>3. /\ retained \in Shortened
        /\ \A h \in Shortened :
              (retained \subseteq h /\ h # retained) => call.tokens[h] > MaxPrompt
    BY <1>1 DEF LongestSoFar
  <1>4. ASSUME NEW h \in Shortened, h # {} PROVE call.tokens[h] > MaxPrompt
    <2>1. retained \subseteq h
      <3>1. CASE Conversation \cap retained = {}
        <4>1. PICK k \in 1..(call.size + 1) : h = From(k)
          BY DEF Shortened
        <4> QED
          BY <1>1, <3>1, <4>1 DEF From, TypeOK
      <3>2. CASE Cardinality(retained) = 1
        <4>1. PICK x : retained = {x}
          BY <1>2, <3>2, FS_Singleton
        <4>2. retained \subseteq h \/ h \subseteq retained
          BY <1>1, <1>3, ShortenedIsAChain
        <4> QED
          BY <1>4, <4>1, <4>2
      <3> QED
        BY <1>1, <3>1, <3>2 DEF NoCandidate
    <2>2. call.tokens[retained] > MaxPrompt
      BY <1>1, <1>2 DEF Fits
    <2> QED
      BY <1>3, <2>1, <2>2
  <1>5. TypeOK' /\ OwnLoop' /\ PromptFits' /\ LongestSoFar' /\ AnswerHasItsRoom'
    BY <1>1, SameCall DEF TypeOK, OwnLoop, PromptFits, LongestSoFar, AnswerHasItsRoom
  <1>6. RankedSoFar'
    BY <1>1, MovesOn
  <1>7. KeepsTheLongestThatFits'
    BY <1>1, <1>4, SameCall DEF KeepsTheLongestThatFits
  <1> QED
    BY <1>5, <1>6, <1>7 DEF BudgetInv

\* The generator gives the answer what the prompt leaves.
LEMMA GenerateKeepsInv ==
    ASSUME BudgetInv, Generate
    PROVE  BudgetInv'
  <1>1. /\ TypeOK /\ Fits /\ pc = "generate" /\ pc' \in {"threw", "returned"}
        /\ UNCHANGED <<call, next, retained, dropped>>
        /\ pc' = "returned" => room' = Lesser(call.context - call.tokens[retained], call.reserved)
        /\ LongestSoFar
    BY DEF BudgetInv, PromptFits, Generate, Goes
  <1>2. /\ MaxPrompt \in Int /\ call.tokens[retained] \in Nat
        /\ call.context \in Nat /\ call.reserved \in Nat /\ call.margin \in Nat
    BY <1>1, CallFacts DEF TypeOK
  <1>3. AnswerHasItsRoom'
    BY <1>1, <1>2 DEF AnswerHasItsRoom, Lesser, Fits, MaxPrompt
  <1>4. TypeOK' /\ OwnLoop' /\ PromptFits' /\ LongestSoFar'
    BY <1>1, SameCall DEF TypeOK, OwnLoop, PromptFits, LongestSoFar
  <1>5. RankedSoFar'
    BY <1>1, MovesOn
  <1>6. KeepsTheLongestThatFits'
    BY <1>1, SameCall DEF LongestSoFar, KeepsTheLongestThatFits
  <1> QED
    BY <1>3, <1>4, <1>5, <1>6 DEF BudgetInv

-----------------------------------------------------------------------------
\* The inductive invariant of both ways to build a prompt.
THEOREM BudgetInvariant == Spec => []BudgetInv
  <1>1. Init => BudgetInv
    <2> SUFFICES ASSUME Init PROVE BudgetInv
      OBVIOUS
    <2>1. TypeOK /\ OwnLoop /\ PromptFits /\ LongestSoFar /\ AnswerHasItsRoom
      BY DEF Init, TypeOK, OwnLoop, PromptFits, LongestSoFar, AnswerHasItsRoom
    <2>2. call.size \in Nat
      BY <2>1, CallFacts
    <2>3. RankedSoFar /\ KeepsTheLongestThatFits
      BY <2>2 DEF Init, RankedSoFar, KeepsTheLongestThatFits
    <2> QED
      BY <2>1, <2>3 DEF BudgetInv
  <1>2. BudgetInv /\ [Next]_vars => BudgetInv'
    <2> SUFFICES ASSUME BudgetInv, [Next]_vars PROVE BudgetInv'
      OBVIOUS
    <2>1. CASE UNCHANGED vars
      <3>1. UNCHANGED <<call, pc, next, retained, dropped, room>>
        BY <2>1 DEF vars
      <3>2. RankedSoFar'
        BY <3>1, MovesOn
      <3>3. TypeOK' /\ OwnLoop' /\ PromptFits' /\ LongestSoFar' /\ AnswerHasItsRoom'
        BY <3>1, SameCall
        DEF BudgetInv, TypeOK, OwnLoop, PromptFits, LongestSoFar, AnswerHasItsRoom
      <3>4. KeepsTheLongestThatFits'
        BY <3>1, SameCall DEF BudgetInv, KeepsTheLongestThatFits
      <3> QED
        BY <3>2, <3>3, <3>4 DEF BudgetInv
    <2> QED
      BY <2>1, BeginKeepsInv, ChooseKeepsInv, HandedOnKeepsInv, DiscardKeepsInv,
         RejectKeepsInv, GenerateKeepsInv
      DEF Next, Ended
  <1> QED
    BY <1>1, <1>2, PTL DEF Spec

\* An answer has all of the tokens reserved for it, whatever the tokenizer
\* counts for the prompt.
THEOREM AnswersHaveTheirRoom == Spec => []AnswerHasItsRoom
  <1>1. BudgetInv => AnswerHasItsRoom
    BY DEF BudgetInv
  <1> QED
    BY <1>1, BudgetInvariant, PTL

\* PromptBuilder keeps the longest shortened history that fits, and rejects
\* only when none does.
THEOREM HistoryIsTheLongest == Spec => []KeepsTheLongestThatFits
  <1>1. BudgetInv => KeepsTheLongestThatFits
    BY DEF BudgetInv
  <1> QED
    BY <1>1, BudgetInvariant, PTL
=============================================================================
