---------------------------- MODULE ChatCommand ----------------------------
(***************************************************************************)
(* The chat, ask and generate commands of the CLI: the main thread, the    *)
(* SIGINT handler that sets a flag, and the bridge thread that polls the   *)
(* flag and turns it into a stop request for the generation.  A chat also  *)
(* keeps a ChatSession, whose operations throw std::logic_error when they  *)
(* are called in the wrong state.                                          *)
(***************************************************************************)
EXTENDS Integers, Sequences

CONSTANT MaxMessages    \* bound on the messages on the command line

ASSUME CommandAssumption == MaxMessages \in Nat

VARIABLES
    chat,           \* the command is chat
    pc,             \* the main thread
    bridge,         \* interrupt_bridge: "none", "polling", "leaving", "ended"
    interrupted,    \* the flag of the signal handler
    stop,           \* the state of generation_stop
    bridgeStop,     \* the stop state of interrupt_bridge
    state,          \* ChatSession::state_
    messages,       \* ChatSession::messages_: their roles
    cut             \* history: the generation ended because of the stop

session == <<state, messages>>
vars == <<chat, pc, bridge, interrupted, stop, bridgeStop, session, cut>>

Active == {"prefill", "decoding"}

Init ==
    /\ chat \in BOOLEAN
    /\ pc = "install"
    /\ bridge = "none"
    /\ interrupted = FALSE
    /\ stop = FALSE
    /\ bridgeStop = FALSE
    /\ state = "idle"
    /\ messages = << >>
    /\ cut = FALSE

\* An exception leaves the try block: the destructors run.
Unwind ==
    /\ pc' = "unwind"
    /\ UNCHANGED <<chat, bridge, interrupted, stop, bridgeStop, session, cut>>

-----------------------------------------------------------------------------
(***************************************************************************)
(* ChatSession.                                                            *)
(***************************************************************************)
\* An operation of the session that the main thread calls on its way to
\* next: legal says when it does not throw.
Call(legal, newState, newMessages, next) ==
    IF legal
    THEN /\ state' = newState
         /\ messages' = newMessages
         /\ pc' = next
         /\ UNCHANGED <<chat, bridge, interrupted, stop, bridgeStop, cut>>
    ELSE Unwind

Add(role) ==
    Call(state \notin Active, "idle", Append(messages, role), "history")

BeginPrefill ==
    Call(messages # << >> /\ state \in {"idle", "completed", "cancelled", "failed"},
         "prefill", messages, "decoding")

BeginDecoding == Call(state = "prefill", "decoding", messages, "generate")

\* An empty answer is not recorded.
Complete(empty) ==
    Call(state = "decoding", "completed",
         IF empty THEN messages ELSE Append(messages, "assistant"), "release")

Cancel == Call(state \in Active, "cancelled", messages, "release")

-----------------------------------------------------------------------------
(***************************************************************************)
(* The main thread.                                                        *)
(***************************************************************************)
Goes(from, next) ==
    /\ pc = from
    /\ pc' = next
    /\ UNCHANGED <<chat, bridge, interrupted, stop, bridgeStop, session, cut>>

\* std::signal, and then the flag is cleared.
InstallHandler == Goes("install", "reset")

ClearFlag ==
    /\ pc = "reset"
    /\ interrupted' = FALSE
    /\ pc' = "spawn"
    /\ UNCHANGED <<chat, bridge, stop, bridgeStop, session, cut>>

SpawnBridge ==
    /\ pc = "spawn"
    /\ bridge' = "polling"
    /\ pc' = IF chat THEN "history" ELSE "generate"
    /\ UNCHANGED <<chat, interrupted, stop, bridgeStop, session, cut>>

\* The messages of the command line, then the prompt is built, which may
\* throw, as it does without any message.
AddMessage ==
    /\ pc = "history"
    /\ Len(messages) < MaxMessages
    /\ \E role \in {"system", "user", "assistant"} : Add(role)

BuildPrompt ==
    \/ messages # << >> /\ Goes("history", "prefill")
    \/ pc = "history" /\ Unwind

Prepare ==
    \/ pc = "prefill" /\ BeginPrefill
    \/ pc = "decoding" /\ BeginDecoding

\* generate returns: the answer is whole, or a stop request ended it.
Generate ==
    \/ /\ pc = "generate"
       /\ cut' \in {FALSE, stop}
       /\ pc' = IF chat THEN "settle" ELSE "release"
       /\ UNCHANGED <<chat, bridge, interrupted, stop, bridgeStop, session>>
    \/ pc = "generate" /\ Unwind

\* Mutant: the answer is recorded whatever happened.
NeverCancelled == FALSE

Cancelled == stop

Settle ==
    /\ pc = "settle"
    /\ IF Cancelled THEN Cancel ELSE \E empty \in BOOLEAN : Complete(empty)

ReleaseBridge ==
    /\ pc \in {"release", "unwind"}
    /\ bridgeStop' = TRUE
    /\ pc' = "join"
    /\ UNCHANGED <<chat, bridge, interrupted, stop, session, cut>>

JoinBridge == bridge = "ended" /\ Goes("join", "exit")

MainStep ==
    \/ InstallHandler \/ ClearFlag \/ SpawnBridge \/ AddMessage \/ BuildPrompt
    \/ Prepare \/ Generate \/ Settle \/ ReleaseBridge \/ JoinBridge

-----------------------------------------------------------------------------
\* Ctrl-C, once the handler is installed.
Interrupt ==
    /\ pc \notin {"install", "exit"}
    /\ ~interrupted
    /\ interrupted' = TRUE
    /\ UNCHANGED <<chat, pc, bridge, stop, bridgeStop, session, cut>>

\* Mutant: the bridge only waits for the signal.
LeavesOnInterrupt == interrupted

LeavesLoop == bridgeStop \/ interrupted

BridgePoll ==
    /\ bridge = "polling"
    /\ LeavesLoop
    /\ bridge' = "leaving"
    /\ UNCHANGED <<chat, pc, interrupted, stop, bridgeStop, session, cut>>

\* Mutant: a bridge that was told to end no longer looks at the flag.
InterruptUnlessReleased == interrupted /\ ~bridgeStop

\* The flag is read again after the loop.
SeesInterrupt == interrupted

BridgeLeave ==
    /\ bridge = "leaving"
    /\ stop' = (stop \/ SeesInterrupt)
    /\ bridge' = "ended"
    /\ UNCHANGED <<chat, pc, interrupted, bridgeStop, session, cut>>

BridgeStep == BridgePoll \/ BridgeLeave

Exited == pc = "exit" /\ UNCHANGED vars

Next == MainStep \/ Interrupt \/ BridgeStep \/ Exited

\* Both threads are scheduled, and generate returns.  Nobody has to press
\* Ctrl-C.
Spec ==
    /\ Init /\ [][Next]_vars
    /\ WF_vars(MainStep)
    /\ WF_vars(BridgeStep)

-----------------------------------------------------------------------------
\* The answer recorded in the session is a whole one, although the stop
\* request comes from another thread at any time: a generation that was cut
\* short is settled as cancelled, and a chat whose generation returned is
\* always settled.
CompletedIsWhole ==
    /\ state = "completed" => ~cut
    /\ chat /\ pc = "release" => state \in {"completed", "cancelled"}

\* Ctrl-C during a generation is never lost: it becomes a stop request even
\* if the main thread releases the bridge before the bridge looks again.
InterruptIsDelivered ==
    (pc = "generate" /\ interrupted) ~> stop

\* The process ends, whether or not Ctrl-C is pressed and at whatever point
\* an exception leaves the command.
CommandExits == <>(pc = "exit")
=============================================================================
