--------------------------- MODULE TextGenerator ---------------------------
(***************************************************************************)
(* LlamaGenerator::generate: the prompt is decoded in batches, then tokens *)
(* are sampled one by one until the limit, the end of generation or a stop *)
(* request from another thread.  The piece of a token is a few bytes, and  *)
(* emit_complete_utf8 hands on only whole characters.                      *)
(*                                                                         *)
(* Bytes are the classes the code tells apart: "A" is ASCII, "D" leads two *)
(* bytes, "E0", "ED" and "E" lead three, "F0", "F4" and "F" lead four,     *)
(* "C8", "C9" and "CA" continue (80-8F, 90-9F, A0-BF), "X" is never valid. *)
(* "R" is the replacement character.                                       *)
(***************************************************************************)
EXTENDS Integers, SequencesExt

Byte == {"A", "D", "E0", "E", "ED", "F0", "F", "F4", "C8", "C9", "CA", "X"}

CONSTANTS
    ContextSize, BatchSize, \* config.context_size, config.batch_size
    PromptSize,             \* the possible lengths of a prompt, in tokens
    MaxTokens,              \* the possible values of options.max_tokens
    Piece                   \* the pieces of tokens: sequences of bytes

ASSUME GeneratorAssumption ==
    /\ ContextSize \in Nat \ {0}
    /\ BatchSize \in Nat \ {0}
    /\ PromptSize \subseteq Nat
    /\ MaxTokens \subseteq Nat
    /\ Piece \subseteq Seq(Byte)

VARIABLES
    prompt,         \* prompt_tokens.size()
    limit,          \* token_limit
    pc,             \* the next step of generate
    cached,         \* tokens in the KV cache of the context
    generated,      \* tokens sampled and emitted
    pending,        \* pending_utf8
    outputs,        \* what was passed to on_token
    stop,           \* stop_token.stop_requested()
    fed,            \* history: all bytes sampled
    late            \* history: tokens sampled after the stop request

vars == <<prompt, limit, pc, cached, generated, pending, outputs, stop, fed, late>>

Lesser(a, b) == IF a < b THEN a ELSE b

Refused == prompt = 0 \/ prompt >= ContextSize

\* Mutant: the prompt's share of the context is forgotten.
LimitIgnoresPrompt(max) == Lesser(ContextSize, max)

\* The answer gets what the prompt leaves of the context.
TokenLimit(max) == Lesser(ContextSize - prompt, max)

\* An empty prompt and one that fills the context are refused.
Init ==
    /\ prompt \in PromptSize
    /\ \E max \in MaxTokens : limit = IF Refused THEN 0 ELSE TokenLimit(max)
    /\ pc = IF Refused THEN "threw" ELSE "prefill"
    /\ cached = 0
    /\ generated = 0
    /\ pending = << >>
    /\ outputs = << >>
    /\ stop = FALSE
    /\ fed = << >>
    /\ late = 0

-----------------------------------------------------------------------------
(***************************************************************************)
(* emit_complete_utf8.                                                     *)
(***************************************************************************)
Continuation == {"C8", "C9", "CA"}

Width(lead) ==
    CASE lead = "A" -> 1
      [] lead = "D" -> 2
      [] lead \in {"E0", "E", "ED"} -> 3
      [] lead \in {"F0", "F", "F4"} -> 4
      [] OTHER -> 0

\* Mutant: surrogates and overlong forms are let through.
ValidByWidth(bytes, i) ==
    \A j \in (i + 1)..(i + Width(bytes[i]) - 1) : bytes[j] \in Continuation

\* The bytes from position i on form a character of the width of its lead.
ValidAt(bytes, i) ==
    /\ \A j \in (i + 1)..(i + Width(bytes[i]) - 1) : bytes[j] \in Continuation
    /\ ~(bytes[i] = "E0" /\ bytes[i + 1] \in {"C8", "C9"})
    /\ ~(bytes[i] = "ED" /\ bytes[i + 1] = "CA")
    /\ ~(bytes[i] = "F0" /\ bytes[i + 1] = "C8")
    /\ ~(bytes[i] = "F4" /\ bytes[i + 1] \in {"C9", "CA"})

\* Mutant: an incomplete character is replaced at once.
NeverWaits(bytes, i, final) == FALSE

\* A character that is not complete yet stays in the buffer.
Waits(bytes, i, final) ==
    ~final /\ Len(bytes) - i + 1 < Width(bytes[i])

TakesCharacter(bytes, i) ==
    /\ Width(bytes[i]) \in 1..(Len(bytes) - i + 1)
    /\ ValidAt(bytes, i)

\* What the scan passes over at position i, and what it puts out for it.
Consumed(bytes, i) == IF TakesCharacter(bytes, i) THEN Width(bytes[i]) ELSE 1

Emitted(bytes, i) ==
    IF TakesCharacter(bytes, i) THEN SubSeq(bytes, i, i + Width(bytes[i]) - 1)
    ELSE <<"R">>

\* The scan from the start of the buffer: what it puts out and what it keeps.
Scan(bytes, final) ==
    LET n == Len(bytes)
        from[i \in 1..(n + 1)] ==
            IF i = n + 1 THEN [out |-> << >>, rest |-> << >>]
            ELSE IF Waits(bytes, i, final)
                 THEN [out |-> << >>, rest |-> SubSeq(bytes, i, n)]
            ELSE [out |-> Emitted(bytes, i) \o from[i + Consumed(bytes, i)].out,
                  rest |-> from[i + Consumed(bytes, i)].rest]
    IN  from[1]

\* The callback is only called with something to say.
EmitCompleteUtf8(bytes, final) ==
    /\ pending' = Scan(bytes, final).rest
    /\ outputs' = IF Scan(bytes, final).out = << >> THEN outputs
                  ELSE Append(outputs, Scan(bytes, final).out)

-----------------------------------------------------------------------------
\* Mutant: the last token of the prompt is left to the sampling loop.
BatchButLast == Lesser(BatchSize, prompt - 1 - cached)

BatchCount == Lesser(BatchSize, prompt - cached)

Prefill ==
    /\ pc = "prefill"
    /\ IF cached < prompt
       THEN IF stop
            THEN pc' = "returned" /\ UNCHANGED cached
            ELSE cached' = cached + BatchCount /\ UNCHANGED pc
       ELSE pc' = "head" /\ UNCHANGED cached
    /\ UNCHANGED <<prompt, limit, generated, pending, outputs, stop, fed, late>>

\* Mutant: the stop token is only looked at before the first token.
StopSeenAtFirst == stop /\ generated = 0

StopSeen == stop

\* The head of the loop: the limit, then the stop token.
LoopHead ==
    /\ pc = "head"
    /\ pc' = IF generated < limit /\ ~StopSeen THEN "sample" ELSE "flush"
    /\ UNCHANGED <<prompt, limit, cached, generated, pending, outputs, stop, fed, late>>

EndOfGeneration ==
    /\ pc = "sample"
    /\ pc' = "flush"
    /\ UNCHANGED <<prompt, limit, cached, generated, pending, outputs, stop, fed, late>>

Sample(piece) ==
    /\ pc = "sample"
    /\ EmitCompleteUtf8(pending \o piece, FALSE)
    /\ fed' = fed \o piece
    /\ late' = IF stop THEN late + 1 ELSE late
    /\ generated' = generated + 1
    /\ pc' = "decode"
    /\ UNCHANGED <<prompt, limit, cached, stop>>

DecodesToken == generated < limit /\ ~stop

\* The sampled token is decoded unless it was the last one.
Decode ==
    /\ pc = "decode"
    /\ cached' = IF DecodesToken THEN cached + 1 ELSE cached
    /\ pc' = "head"
    /\ UNCHANGED <<prompt, limit, generated, pending, outputs, stop, fed, late>>

Flush ==
    /\ pc = "flush"
    /\ EmitCompleteUtf8(pending, TRUE)
    /\ pc' = "returned"
    /\ UNCHANGED <<prompt, limit, cached, generated, stop, fed, late>>

\* llama.cpp reports an error.
Throw ==
    /\ pc \in {"prefill", "sample", "decode"}
    /\ pc' = "threw"
    /\ UNCHANGED <<prompt, limit, cached, generated, pending, outputs, stop, fed, late>>

RequestStop ==
    /\ ~stop
    /\ pc \notin {"returned", "threw"}
    /\ stop' = TRUE
    /\ UNCHANGED <<prompt, limit, pc, cached, generated, pending, outputs, fed, late>>

Ended ==
    /\ pc \in {"returned", "threw"}
    /\ UNCHANGED vars

GenerateStep ==
    \/ Prefill \/ LoopHead \/ EndOfGeneration \/ Decode \/ Flush
    \/ \E piece \in Piece : Sample(piece)

Generate == GenerateStep \/ Throw

Next == Generate \/ RequestStop \/ Ended

Safety == Init /\ [][Next]_vars

\* The thread that generates is scheduled; it need not meet an error.
Spec == Safety /\ WF_vars(GenerateStep)

-----------------------------------------------------------------------------
States == {"prefill", "head", "sample", "decode", "flush", "returned", "threw"}

TypeOK ==
    /\ prompt \in PromptSize
    /\ limit \in Nat
    /\ pc \in States
    /\ cached \in Nat
    /\ generated \in Nat
    /\ stop \in BOOLEAN
    /\ late \in Nat

\* What the context holds at each step of generate.
CacheInPlace ==
    /\ pc # "threw" => prompt # 0 /\ prompt < ContextSize
    /\ prompt < ContextSize => limit <= ContextSize - prompt
    /\ pc = "prefill" => cached <= prompt /\ generated = 0
    /\ pc = "head" => /\ cached <= prompt + generated
                      /\ cached = prompt + generated \/ stop \/ generated = limit
    /\ pc = "sample" => cached = prompt + generated /\ generated < limit
    /\ pc = "decode" => cached + 1 = prompt + generated

\* A token sampled after the stop request was the last one.
LateIsLast ==
    late # 0 => stop /\ pc \in {"decode", "head", "flush", "returned", "threw"}

\* The context never holds more tokens than it has room for, the answer
\* keeps to max_tokens and to what the prompt left, also when that is a
\* single place or none, and a stop request that falls between the test and
\* the sampling lets one more token through, never two.
KeepsLimits ==
    /\ cached <= ContextSize
    /\ generated <= limit
    /\ late <= 1

\* The inductive invariant of the loop.
GeneratorInv == TypeOK /\ CacheInPlace /\ LateIsLast /\ KeepsLimits

\* generate comes back, with or without a stop request.
Terminates == <>(pc \in {"returned", "threw"})

-----------------------------------------------------------------------------
\* The well-formed characters, as the Unicode standard lists them.
Characters ==
    {<<"A">>} \cup
    ({"D"} \X Continuation) \cup
    ({"E0"} \X {"CA"} \X Continuation) \cup
    ({"E"} \X Continuation \X Continuation) \cup
    ({"ED"} \X {"C8", "C9"} \X Continuation) \cup
    ({"F0"} \X {"C9", "CA"} \X Continuation \X Continuation) \cup
    ({"F"} \X Continuation \X Continuation \X Continuation) \cup
    ({"F4"} \X {"C8"} \X Continuation \X Continuation)

\* The sequence is a row of members of chars: there are places where one
\* begins, the first is one of them, and a member leads from each to the next.
DividesInto(bytes, chars) ==
    LET End == Len(bytes) + 1
    IN  \E begins \in SUBSET (1..End) :
            /\ 1 \in begins
            /\ \A i \in begins \ {End} : \E c \in chars :
                  i + Len(c) \in begins /\ SubSeq(bytes, i, i + Len(c) - 1) = c

\* Every call of on_token gets whole characters, however tokens split them:
\* each event of the stream is valid UTF-8 by itself.  What a client has
\* received when generate returns does not depend on where the tokens split
\* the bytes: it is the conversion of all bytes at once, and the bytes
\* themselves if they were well-formed.
StreamIsFaithful ==
    /\ \A i \in 1..Len(outputs) : DividesInto(outputs[i], Characters \cup {<<"R">>})
    /\ pc = "returned" =>
          /\ FlattenSeq(outputs) = Scan(fed, TRUE).out
          /\ DividesInto(fed, Characters) => FlattenSeq(outputs) = fed
=============================================================================
