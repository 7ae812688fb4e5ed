------------------------- MODULE ChatCommandProofs -------------------------
(***************************************************************************)
(* A chat records whole answers only, for any number of messages on the    *)
(* command line and whenever Ctrl-C is pressed.                            *)
(***************************************************************************)
EXTENDS ChatCommand, TLAPS

\* A generation is only cut short by a stop request, which is never taken
\* back; and a session that is completed is not touched again.
CommandInv ==
    /\ chat \in BOOLEAN /\ stop \in BOOLEAN /\ cut \in BOOLEAN
    /\ cut => stop
    /\ state = "completed" => pc \in {"release", "join", "exit"}
    /\ CompletedIsWhole

\* The session's operations throw in the wrong state, and then leave it alone.
LEMMA SettleKeepsInv == ASSUME CommandInv, Settle PROVE CommandInv'
  <1> USE DEF CommandInv, CompletedIsWhole
  <1>1. UNCHANGED <<chat, stop, cut>>
    BY DEF Settle, Cancel, Complete, Call, Unwind
  <1>2. CASE stop
    <2>1. \/ state' = "cancelled" /\ pc' = "release"
          \/ state' = state /\ pc' = "unwind"
      BY <1>2 DEF Settle, Cancelled, Cancel, Call, Unwind, session
    <2> QED
      BY <1>1, <2>1 DEF Settle
  <1>3. CASE ~stop
    <2>1. \/ state' = "completed" /\ pc' = "release"
          \/ state' = state /\ pc' = "unwind"
      BY <1>3 DEF Settle, Cancelled, Complete, Call, Unwind, session
    <2> QED
      BY <1>1, <1>3, <2>1 DEF Settle
  <1> QED
    BY <1>2, <1>3

LEMMA SessionKeepsInv == ASSUME CommandInv, AddMessage \/ Prepare PROVE CommandInv'
  <1> USE DEF CommandInv, CompletedIsWhole
  <1>1. UNCHANGED <<chat, stop, cut>>
    BY DEF AddMessage, Add, Prepare, BeginPrefill, BeginDecoding, Call, Unwind
  <1>2. /\ pc \in {"history", "prefill", "decoding"}
        /\ pc' \in {"history", "decoding", "generate", "unwind"}
        /\ state' \in {state, "idle", "prefill", "decoding"}
    BY DEF AddMessage, Add, Prepare, BeginPrefill, BeginDecoding, Call, Unwind, session
  <1> QED
    BY <1>1, <1>2

LEMMA MainKeepsInv ==
    ASSUME CommandInv,
           InstallHandler \/ ClearFlag \/ SpawnBridge \/ BuildPrompt \/ Generate
             \/ ReleaseBridge \/ JoinBridge
    PROVE  CommandInv'
  <1> USE DEF CommandInv, CompletedIsWhole
  <1>1. CASE Generate
    <2>1. /\ pc = "generate" /\ UNCHANGED <<chat, stop, state>>
          /\ \/ pc' = "unwind" /\ cut' = cut
             \/ cut' \in {FALSE, stop} /\ pc' = IF chat THEN "settle" ELSE "release"
      BY <1>1 DEF Generate, Unwind, session
    <2>2. state # "completed"
      BY <2>1
    <2>3. cut' = cut \/ cut' = FALSE \/ cut' = stop
      BY <2>1
    <2>4. cut' \in BOOLEAN /\ (cut' => stop)
      <3>1. CASE cut' = cut
        BY <3>1
      <3>2. CASE cut' = FALSE
        BY <3>2
      <3>3. CASE cut' = stop
        BY <3>3
      <3> QED
        BY <2>3, <3>1, <3>2, <3>3
    <2>5. chat => pc' # "release"
      BY <2>1
    <2> QED
      BY <2>1, <2>2, <2>4, <2>5
  <1>2. CASE ReleaseBridge \/ JoinBridge
    BY <1>2 DEF ReleaseBridge, JoinBridge, Goes, session
  <1>3. CASE InstallHandler \/ ClearFlag \/ SpawnBridge \/ BuildPrompt
    <2>1. /\ pc \in {"install", "reset", "spawn", "history"}
          /\ pc' \in {"reset", "spawn", "history", "generate", "prefill", "unwind"}
          /\ UNCHANGED <<chat, stop, cut, state>>
      BY <1>3 DEF InstallHandler, ClearFlag, SpawnBridge, BuildPrompt, Goes, Unwind, session
    <2> QED
      BY <2>1
  <1> QED
    BY <1>1, <1>2, <1>3

LEMMA OtherThreadsKeepInv ==
    ASSUME CommandInv, Interrupt \/ BridgeStep \/ UNCHANGED vars
    PROVE  CommandInv'
  <1> USE DEF CommandInv, CompletedIsWhole
  <1>1. UNCHANGED <<chat, pc, cut, state>>
    BY DEF Interrupt, BridgeStep, BridgePoll, BridgeLeave, vars, session
  <1>2. stop' \in BOOLEAN /\ (stop => stop')
    BY DEF Interrupt, BridgeStep, BridgePoll, BridgeLeave, vars
  <1> QED
    BY <1>1, <1>2

\* The inductive invariant of the command.
THEOREM CommandInvariant == Spec => []CommandInv
  <1>1. Init => CommandInv
    BY DEF Init, CommandInv, CompletedIsWhole
  <1>2. CommandInv /\ [Next]_vars => CommandInv'
    BY SettleKeepsInv, SessionKeepsInv, MainKeepsInv, OtherThreadsKeepInv
       DEF Next, MainStep, Exited
  <1> QED
    BY <1>1, <1>2, PTL DEF Spec

\* The answer recorded in a session is whole, and a chat whose generation
\* returned is settled, whenever the stop request arrives.
THEOREM CompletedAnswersAreWhole == Spec => []CompletedIsWhole
  <1>1. CommandInv => CompletedIsWhole
    BY DEF CommandInv
  <1> QED
    BY <1>1, CommandInvariant, PTL
=============================================================================
