---------------------------- MODULE PromptBudget ----------------------------
(***************************************************************************)
(* The two ways a prompt is made to fit the context.  For a question,      *)
(* ContextBudget::build adds sources in the order of their rank, skipping  *)
(* those that do not fit.  For a chat, PromptBuilder::build starts with    *)
(* the whole history and discards the oldest message that is not a system  *)
(* message until the rest fits.  Then the generator gets what is left.     *)
(*                                                                         *)
(* A part is a source (its rank) or a message (its place in the history).  *)
(* The text of a prompt is determined by the set of its parts, and the     *)
(* tokenizer is any function of that text: the tokens of a text are not    *)
(* the sum of those of its parts, and a longer text may have fewer.        *)
(***************************************************************************)
EXTENDS Integers, FiniteSetsExt

CONSTANT Call   \* the calls considered: parts, tokenizer and budget

\* role tells system messages from other parts.  reserved is max_tokens of
\* the generation; a chat has no safety margin.
ASSUME BudgetAssumption ==
    \A c \in Call :
        /\ c.kind \in {"ask", "chat"}
        /\ c.size \in Nat
        /\ c.kind = "ask" => c.size > 0
        /\ c.role \in [1..c.size -> {"system", "other"}]
        /\ c.tokens \in [SUBSET (1..c.size) -> Nat]
        /\ c.context \in Nat /\ c.reserved \in Nat /\ c.margin \in Nat
        /\ c.kind = "chat" => c.margin = 0

VARIABLES
    call,
    pc,         \* "begin", "choose", "fit", "generate", "returned" or "threw"
    next,       \* the source under consideration
    retained,   \* retained_sources, retained_messages
    dropped,    \* skipped_sources, discarded_messages
    room        \* token_limit of the generation

vars == <<call, pc, next, retained, dropped, room>>

Part == 1..call.size

Init ==
    /\ call \in Call
    /\ pc = "begin"
    /\ next = 1
    /\ retained = {}
    /\ dropped = 0
    /\ room = 0

\* Mutant: the answer's share is forgotten.
MaxPromptIgnoresOutput == call.context - call.margin

MaxPrompt == call.context - call.reserved - call.margin

Goes(to) ==
    /\ pc' = to
    /\ UNCHANGED <<call, next, retained, dropped, room>>

-----------------------------------------------------------------------------
(***************************************************************************)
(* ContextBudget::build.                                                   *)
(***************************************************************************)
BadBudget ==
    \/ call.context = 0
    \/ call.reserved = 0
    \/ call.reserved + call.margin >= call.context

\* The question and the instructions alone have to fit.
BeginAsk ==
    /\ pc = "begin"
    /\ call.kind = "ask"
    /\ Goes(IF BadBudget \/ call.tokens[{}] > MaxPrompt THEN "threw" ELSE "choose")

\* Mutant: a source is counted without those already in the prompt.
AloneFits == call.tokens[{next}] <= MaxPrompt

\* The whole candidate text is counted, not its new part.
CandidateFits == call.tokens[retained \cup {next}] <= MaxPrompt

Choose ==
    /\ pc = "choose"
    /\ next \in Part
    /\ IF CandidateFits
       THEN retained' = retained \cup {next} /\ UNCHANGED dropped
       ELSE dropped' = dropped + 1 /\ UNCHANGED retained
    /\ next' = next + 1
    /\ UNCHANGED <<call, pc, room>>

Chosen == pc = "choose" /\ next \notin Part /\ Goes("generate")

-----------------------------------------------------------------------------
(***************************************************************************)
(* PromptBuilder::build, as the chat command calls it.                     *)
(***************************************************************************)
BeginChat ==
    /\ pc = "begin"
    /\ call.kind = "chat"
    /\ IF call.size = 0 \/ call.reserved >= call.context
       THEN Goes("threw")
       ELSE /\ retained' = Part
            /\ pc' = "fit"
            /\ UNCHANGED <<call, next, dropped, room>>

Fits == call.tokens[retained] <= MaxPrompt

Conversation == {i \in Part : call.role[i] # "system"}

Fitted == pc = "fit" /\ Fits /\ Goes("generate")

\* Mutant: the last two messages are never given up.
NoneOrTwoLeft ==
    Conversation \cap retained = {} \/ Cardinality(retained) <= 2

\* Only system messages are left, or only one message.
NoCandidate ==
    Conversation \cap retained = {} \/ Cardinality(retained) = 1

Reject == pc = "fit" /\ ~Fits /\ NoCandidate /\ Goes("threw")

\* Mutant: the newest message goes first.
Newest == Max(Conversation \cap retained)

Candidate == Min(Conversation \cap retained)

Discard ==
    /\ pc = "fit"
    /\ ~Fits
    /\ ~NoCandidate
    /\ retained' = retained \ {Candidate}
    /\ dropped' = dropped + 1
    /\ UNCHANGED <<call, pc, next, room>>

-----------------------------------------------------------------------------
Lesser(a, b) == IF a < b THEN a ELSE b

\* The generator refuses a prompt that is empty or fills the context, and
\* otherwise gives the answer what the prompt leaves.
Generate ==
    /\ pc = "generate"
    /\ LET prompt == call.tokens[retained]
       IN  IF prompt = 0 \/ prompt >= call.context
           THEN Goes("threw")
           ELSE /\ room' = Lesser(call.context - prompt, call.reserved)
                /\ pc' = "returned"
                /\ UNCHANGED <<call, next, retained, dropped>>

Ended == pc \in {"returned", "threw"} /\ UNCHANGED vars

Next ==
    \/ BeginAsk \/ Choose \/ Chosen
    \/ BeginChat \/ Fitted \/ Reject \/ Discard
    \/ Generate \/ Ended

Spec == Init /\ [][Next]_vars

-----------------------------------------------------------------------------
\* However the tokenizer counts, neither sources nor history eat into the
\* output: an answer has all of the tokens reserved for it.  With a token of
\* them reserved, a prompt that was built is never refused for its length.
AnswerHasItsRoom ==
    /\ pc = "returned" => room = call.reserved
    /\ pc = "generate" /\ call.reserved > 0 => call.tokens[retained] < call.context

\* The history without the conversation before message k.
From(k) == {i \in Part : i \in Conversation => i >= k}

Shortened == {From(k) : k \in 1..(call.size + 1)}

\* The prompt of a chat is its history shortened at the beginning, with all
\* system messages; it fits, and every longer one did not, whatever the
\* template adds and however the tokenizer counts.  PromptBuilder rejects a
\* history only when no way to shorten it leaves a message and fits.
KeepsTheLongestThatFits ==
    call.kind = "chat" =>
        /\ pc \in {"generate", "returned"} =>
              /\ retained \in Shortened
              /\ Fits
              /\ \A h \in Shortened :
                    (retained \subseteq h /\ h # retained) => call.tokens[h] > MaxPrompt
              /\ dropped = call.size - Cardinality(retained)
        /\ (pc = "threw" /\ retained # {} /\ ~Fits) =>
              \A h \in Shortened \ {{}} : call.tokens[h] > MaxPrompt
=============================================================================
