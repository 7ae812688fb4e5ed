-------------------------- MODULE ChatServerProofs --------------------------
(***************************************************************************)
(* For every set of tasks and every capacity: the queue's inductive        *)
(* invariant, and that the queue implements SerialExecutor.  Then, for     *)
(* every set of requests and every token limit: the server uses the queue  *)
(* as the queue expects, and therefore has the queue's invariant; from     *)
(* that the life of the sink, the shape of the stream and what may be      *)
(* withheld from a client.                                                 *)
(***************************************************************************)
EXTENDS ChatServer, SequenceTheorems, TLAPS

-----------------------------------------------------------------------------
(***************************************************************************)
(* The queue by itself.                                                    *)
(***************************************************************************)
\* Popping the front of a nonempty sequence shifts the rest by one.
LEMMA TailFacts ==
    ASSUME NEW S, NEW s \in Seq(S), s # << >>
    PROVE  /\ Tail(s) \in Seq(S)
           /\ Len(s) \in Nat \ {0}
           /\ Len(Tail(s)) = Len(s) - 1
           /\ \A i \in 1..Len(Tail(s)) : Tail(s)[i] = s[i + 1]
  OBVIOUS

\* Appending keeps the old entries and adds the new one at the end.
LEMMA AppendFacts ==
    ASSUME NEW S, NEW s \in Seq(S), NEW e \in S
    PROVE  /\ Append(s, e) \in Seq(S)
           /\ Len(s) \in Nat
           /\ Len(Append(s, e)) = Len(s) + 1
           /\ \A i \in 1..Len(s) : Append(s, e)[i] = s[i]
           /\ Append(s, e)[Len(s) + 1] = e
  OBVIOUS

\* The constructor establishes the invariant.
LEMMA InitEstablishesInv == QueueInit => QueueInv
  <1> SUFFICES ASSUME QueueInit PROVE QueueInv
    OBVIOUS
  <1> USE DEF QueueInit
  <1>1. QueueTypeOK
    BY EmptySeq DEF QueueTypeOK, WorkerStates, StopperStates
  <1>2. QueueIsUntakenSuffix /\ LogIsInjective
    <2>1. Len(tasks) = 0 /\ Len(log) = 0 /\ taken = 0
      OBVIOUS
    <2> QED
      BY <2>1 DEF QueueIsUntakenSuffix, LogIsInjective
  <1>3. StopOrder
    BY DEF StopOrder
  <1>4. WithinCapacity
    BY CapacityAssumption DEF WithinCapacity
  <1> QED
    BY <1>1, <1>2, <1>3, <1>4 DEF QueueInv

\* An accepted or refused try_submit keeps the invariant.
LEMMA TrySubmitKeepsInv ==
    ASSUME QueueInv, NEW t \in Task \ Accepted, NEW ok \in BOOLEAN,
           TrySubmit(t, ok)
    PROVE  QueueInv'
  <1> USE DEF QueueInv
  <1>1. CASE ~ok
    BY <1>1 DEF TrySubmit, QueueTypeOK, QueueIsUntakenSuffix, StopOrder,
                LogIsInjective, WithinCapacity
  <1>2. CASE ok
    <2>1. /\ tasks' = Append(tasks, t)
          /\ log' = Append(log, t)
          /\ worker' = Woken
          /\ Accepts
          /\ UNCHANGED <<accepting, stopRequested, stopper, taken>>
          /\ worker # "take"
          /\ stopper # "joined"
      BY <1>2 DEF TrySubmit, MutexFree, AfterPush
    <2>2. /\ tasks' \in Seq(Task)
          /\ Len(tasks) \in Nat
          /\ Len(tasks') = Len(tasks) + 1
          /\ \A i \in 1..Len(tasks) : tasks'[i] = tasks[i]
          /\ tasks'[Len(tasks) + 1] = t
      BY <2>1, AppendFacts DEF QueueTypeOK
    <2>3. /\ log' \in Seq(Task)
          /\ Len(log) \in Nat
          /\ Len(log') = Len(log) + 1
          /\ \A i \in 1..Len(log) : log'[i] = log[i]
          /\ log'[Len(log) + 1] = t
      BY <2>1, AppendFacts DEF QueueTypeOK
    <2>4. QueueTypeOK'
      BY <2>1, <2>2, <2>3 DEF QueueTypeOK, Woken, WorkerStates
    <2>5. QueueIsUntakenSuffix'
      <3>1. taken \in Nat /\ taken' = taken /\ Len(log) = taken + Len(tasks)
        BY <2>1 DEF QueueTypeOK, QueueIsUntakenSuffix
      <3>2. ASSUME NEW i \in 1..Len(tasks')
            PROVE  tasks'[i] = log'[taken + i]
        <4>1. CASE i = Len(tasks) + 1
          <5>1. taken + i = Len(log) + 1
            BY <4>1, <3>1, <2>2
          <5> QED
            BY <5>1, <4>1, <2>2, <2>3
        <4>2. CASE i \in 1..Len(tasks)
          <5>1. taken + i \in 1..Len(log)
            BY <4>2, <3>1, <2>2, <2>3
          <5>2. tasks[i] = log[taken + i]
            BY <4>2 DEF QueueIsUntakenSuffix
          <5> QED
            BY <5>1, <5>2, <4>2, <2>2, <2>3
        <4> QED
          BY <4>1, <4>2, <2>2
      <3>3. Len(log') = taken + Len(tasks')
        BY <3>1, <2>2, <2>3
      <3> QED
        BY <3>1, <3>2, <3>3 DEF QueueIsUntakenSuffix
    <2>6. StopOrder'
      BY <2>1 DEF StopOrder, Woken
    <2>7. LogIsInjective'
      BY <2>3 DEF LogIsInjective, Accepted
    <2>8. WithinCapacity'
      BY <2>1, <2>2, CapacityAssumption DEF WithinCapacity, Accepts
    <2> QED
      BY <2>4, <2>5, <2>6, <2>7, <2>8
  <1> QED
    BY <1>1, <1>2

\* The worker's pop keeps the invariant: the front of the queue is the
\* oldest accepted task not yet taken.
LEMMA WorkerTakeKeepsInv ==
    ASSUME QueueInv, WorkerTake
    PROVE  QueueInv'
  <1> USE DEF QueueInv
  <1>1. /\ tasks' = Tail(tasks)
        /\ taken' = taken + 1
        /\ worker' = "run"
        /\ tasks # << >>
        /\ UNCHANGED <<accepting, stopRequested, stopper, log>>
        /\ worker = "take"
    BY DEF WorkerTake, Popped, StopOrder
  <1>2. /\ tasks' \in Seq(Task)
        /\ Len(tasks) \in Nat \ {0}
        /\ Len(tasks') = Len(tasks) - 1
        /\ \A i \in 1..Len(tasks') : tasks'[i] = tasks[i + 1]
    BY <1>1, TailFacts DEF QueueTypeOK
  <1>3. QueueTypeOK'
    BY <1>1, <1>2 DEF QueueTypeOK, WorkerStates
  <1>4. QueueIsUntakenSuffix'
    <2>1. taken \in Nat /\ Len(log) = taken + Len(tasks)
      BY DEF QueueTypeOK, QueueIsUntakenSuffix
    <2>2. ASSUME NEW i \in 1..Len(tasks')
          PROVE  tasks'[i] = log'[taken' + i]
      <3>1. i + 1 \in 1..Len(tasks) /\ taken + (i + 1) = taken' + i
        BY <1>1, <1>2, <2>1
      <3>2. tasks[i + 1] = log[taken + (i + 1)]
        BY <3>1 DEF QueueIsUntakenSuffix
      <3> QED
        BY <1>1, <1>2, <3>1, <3>2
    <2>3. Len(log') = taken' + Len(tasks')
      BY <1>1, <1>2, <2>1
    <2> QED
      BY <2>2, <2>3 DEF QueueIsUntakenSuffix
  <1>5. StopOrder'
    BY <1>1 DEF StopOrder
  <1>6. LogIsInjective'
    BY <1>1 DEF LogIsInjective
  <1>7. WithinCapacity'
    BY <1>1, <1>2, CapacityAssumption DEF WithinCapacity
  <1> QED
    BY <1>3, <1>4, <1>5, <1>6, <1>7

\* Every other step leaves the queue, the log and the count alone.
LEMMA OtherStepsKeepInv ==
    ASSUME QueueInv,
           \/ StopClose \/ StopStep \/ WorkerTop \/ WorkerWait
           \/ FinishTask \/ SpuriousWake \/ UNCHANGED queueVars
    PROVE  QueueInv'
  <1> USE DEF QueueInv
  <1>1. UNCHANGED <<tasks, log, taken>>
    BY DEF StopClose, StopStep, StopRequest, StopNotify, Join, WorkerTop,
           WorkerWait, FinishTask, SpuriousWake, queueVars
  <1>2. QueueIsUntakenSuffix' /\ LogIsInjective' /\ WithinCapacity'
    BY <1>1 DEF QueueIsUntakenSuffix, LogIsInjective, WithinCapacity
  <1>3. QueueTypeOK' /\ StopOrder'
    <2>1. CASE StopClose
      BY <2>1, <1>1 DEF StopClose, QueueTypeOK, StopOrder, StopperStates, MutexFree
    <2>2. CASE StopStep
      <3> USE <1>1 DEF QueueTypeOK, StopOrder, StopperStates, WorkerStates
      <3>1. CASE StopRequest
        BY <3>1 DEF StopRequest, Woken
      <3>2. CASE StopNotify
        BY <3>2 DEF StopNotify, Woken
      <3>3. CASE Join
        BY <3>3 DEF Join, Joinable
      <3> QED
        BY <2>2, <3>1, <3>2, <3>3 DEF StopStep
    <2>3. CASE WorkerTop
      BY <2>3, <1>1 DEF WorkerTop, TopGoesTo, QueueTypeOK, StopOrder, WorkerStates
    <2>4. CASE WorkerWait
      BY <2>4, <1>1 DEF WorkerWait, WaitGoesTo, QueueTypeOK, StopOrder, WorkerStates
    <2>5. CASE FinishTask
      BY <2>5, <1>1 DEF FinishTask, QueueTypeOK, StopOrder, WorkerStates
    <2>6. CASE SpuriousWake
      BY <2>6, <1>1 DEF SpuriousWake, QueueTypeOK, StopOrder, WorkerStates
    <2>7. CASE UNCHANGED queueVars
      BY <2>7 DEF queueVars, QueueTypeOK, StopOrder
    <2> QED
      BY <2>1, <2>2, <2>3, <2>4, <2>5, <2>6, <2>7
  <1> QED
    BY <1>2, <1>3

\* Every step of the queue keeps the invariant.
LEMMA NextKeepsInv == QueueInv /\ [QueueNext]_queueVars => QueueInv'
  <1> SUFFICES ASSUME QueueInv, [QueueNext]_queueVars
               PROVE  QueueInv'
    OBVIOUS
  <1>1. CASE \E t \in Task \ Accepted, ok \in BOOLEAN : TrySubmit(t, ok)
    BY <1>1, TrySubmitKeepsInv
  <1>2. CASE WorkerTake
    BY <1>2, WorkerTakeKeepsInv
  <1>3. CASE \/ StopClose \/ StopStep \/ WorkerTop \/ WorkerWait
             \/ FinishTask \/ SpuriousWake \/ UNCHANGED queueVars
    BY <1>3, OtherStepsKeepInv
  <1> QED
    BY <1>1, <1>2, <1>3 DEF QueueNext, WorkerStep, Destroyed

\* GenerationQueue never loses, doubles or reorders an accepted task and
\* never holds more than its capacity, whatever its callers, its worker and
\* stop() interleave to.
THEOREM QueueInvariant == QueueSafety => []QueueInv
  BY InitEstablishesInv, NextKeepsInv, PTL DEF QueueSafety

-----------------------------------------------------------------------------
\* An accepted try_submit is an Accept of the executor, a refused one a
\* stuttering step.
LEMMA TrySubmitRefines ==
    ASSUME QueueInv, NEW t \in Task \ Accepted, NEW ok \in BOOLEAN,
           TrySubmit(t, ok)
    PROVE  Executor!Next \/ UNCHANGED Executor!vars
  <1>1. CASE ~ok
    BY <1>1 DEF TrySubmit, Executor!vars
  <1>2. CASE ok
    <2>1. stopper = "none" /\ stopper' = stopper /\ Len(tasks) < Capacity
      BY <1>2 DEF TrySubmit, Accepts, QueueInv, StopOrder
    <2>2. \A i \in 1..Len(log) : log[i] # t
      BY DEF Accepted
    <2>3. Len(log) - taken < Capacity
      <3>1. Len(tasks) \in Nat /\ taken \in Nat
        BY DEF QueueInv, QueueTypeOK
      <3> QED
        BY <2>1, <3>1, CapacityAssumption DEF QueueInv, QueueIsUntakenSuffix
    <2>4. log' = Append(log, t) /\ taken' = taken
      BY <1>2 DEF TrySubmit
    <2>5. (worker' = "run") = (worker = "run")
      BY <1>2 DEF TrySubmit, AfterPush, Woken
    <2>6. Executor!Accept(t)
      BY <2>1, <2>2, <2>3, <2>4, <2>5 DEF Executor!Accept
    <2> QED
      BY <2>6 DEF Executor!Next
  <1> QED
    BY <1>1, <1>2

\* Every step of the queue is a step of the executor or a stuttering step.
LEMMA StepRefines ==
    QueueInv /\ [QueueNext]_queueVars => [Executor!Next]_(Executor!vars)
  <1> SUFFICES ASSUME QueueInv, [QueueNext]_queueVars
               PROVE  Executor!Next \/ UNCHANGED Executor!vars
    OBVIOUS
  <1>1. CASE \E t \in Task \ Accepted, ok \in BOOLEAN : TrySubmit(t, ok)
    BY <1>1, TrySubmitRefines
  <1>2. CASE StopClose
    <2>1. stopper = "none" /\ stopper' = "closed" /\ UNCHANGED <<log, taken, worker>>
      BY <1>2 DEF StopClose
    <2>2. Executor!Close
      BY <2>1 DEF Executor!Close
    <2> QED
      BY <2>2 DEF Executor!Next
  <1>3. CASE StopRequest \/ StopNotify
    <2>1. /\ stopper \notin {"none", "joined"}
          /\ stopper' \notin {"none", "joined"}
          /\ UNCHANGED <<log, taken>>
          /\ (worker' = "run") = (worker = "run")
      BY <1>3 DEF StopRequest, StopNotify, Woken
    <2> QED
      BY <2>1 DEF Executor!vars
  <1>4. CASE Join
    <2>1. /\ stopper = "notified" /\ stopper' = "joined"
          /\ worker = "exited" /\ UNCHANGED <<log, taken, worker>>
      BY <1>4 DEF Join, Joinable
    <2>2. Executor!Vanish
      BY <2>1 DEF Executor!Vanish
    <2> QED
      BY <2>2 DEF Executor!Next
  <1>5. CASE WorkerTake
    <2>1. /\ worker = "take" /\ worker' = "run" /\ taken' = taken + 1
          /\ UNCHANGED <<log, stopper>>
      BY <1>5 DEF WorkerTake
    <2>2. stopper # "joined" /\ tasks # << >>
      BY <2>1 DEF QueueInv, StopOrder
    <2>3. taken < Len(log)
      <3>1. Len(tasks) \in Nat \ {0} /\ taken \in Nat
        BY <2>2, TailFacts DEF QueueInv, QueueTypeOK
      <3> QED
        BY <3>1 DEF QueueInv, QueueIsUntakenSuffix
    <2>4. Executor!Begin
      BY <2>1, <2>2, <2>3 DEF Executor!Begin
    <2> QED
      BY <2>4 DEF Executor!Next
  <1>6. CASE FinishTask
    <2>1. worker = "run" /\ worker' = "top" /\ UNCHANGED <<log, taken, stopper>>
      BY <1>6 DEF FinishTask
    <2>2. Executor!Finish
      BY <2>1 DEF Executor!Finish
    <2> QED
      BY <2>2 DEF Executor!Next
  <1>7. CASE WorkerTop \/ WorkerWait \/ SpuriousWake \/ UNCHANGED queueVars
    <2>1. UNCHANGED <<log, taken, stopper>> /\ (worker' = "run") = (worker = "run")
      BY <1>7 DEF WorkerTop, TopGoesTo, WorkerWait, WaitGoesTo, SpuriousWake, queueVars
    <2> QED
      BY <2>1 DEF Executor!vars
  <1> QED
    BY <1>1, <1>2, <1>3, <1>4, <1>5, <1>6, <1>7
    DEF QueueNext, StopStep, WorkerStep, Destroyed

\* The initial queue is an open executor with no task.
LEMMA InitRefines == QueueInit => Executor!Init
  BY DEF QueueInit, Executor!Init

\* The threaded queue implements the serial executor: accepted tasks are
\* begun in order, at most once, one at a time, and never after the join.
THEOREM QueueImplementsExecutor == QueueSafety => ImplementsSerialExecutor
  BY QueueInvariant, InitRefines, StepRefines, PTL
  DEF QueueSafety, ImplementsSerialExecutor, Executor!Spec

-----------------------------------------------------------------------------
(***************************************************************************)
(* The server on top of it.                                                *)
(***************************************************************************)

HandlerStates == {"idle", "submit", "waiting", "closed"} \cup DOMAIN Epilogue
AskStates == {"none", "retrieve", "rerank", "prefill", "decode", "emit", "write",
              "flush", "cite", "settled"}

ChatTypeOK ==
    /\ server \in {"listening", "stopping", "returned"}
    /\ handler \in [Task -> HandlerStates]
    /\ connected \in [Task -> BOOLEAN]
    /\ promise \in [Task -> {"empty", "value", "exception"}]
    /\ clientStop \in [Task -> BOOLEAN]
    /\ sent \in [Task -> Seq(Event)]
    /\ ask \in AskStates
    /\ generated \in Nat
    /\ cut \in [Task -> BOOLEAN]
    /\ withheld \in [Task -> BOOLEAN]

\* A request whose handler has not called try_submit was never accepted.
SubmittedOnce ==
    \A r \in Task : handler[r] \in {"idle", "submit"} => r \notin Accepted

\* The entries of the table of epilogues.
LEMMA EpilogueFacts ==
    /\ DOMAIN Epilogue = {"citations", "metrics", "done", "json", "error",
                          "queue_full", "rejected"}
    /\ \A h \in DOMAIN Epilogue : Epilogue[h] \in {"metrics", "done", "closed"}
  BY DEF Epilogue

\* A write appends to the stream of a client that is there and to no other.
LEMMA WriteFacts ==
    ASSUME ChatTypeOK, NEW r \in Task, NEW e \in Event, Write(r, e)
    PROVE  /\ sent' \in [Task -> Seq(Event)]
           /\ \A q \in Task : q # r => sent'[q] = sent[q]
           /\ sent'[r] = IF connected[r] THEN Append(sent[r], e) ELSE sent[r]
  <1>1. sent[r] \in Seq(Event) /\ connected[r] \in BOOLEAN
    BY DEF ChatTypeOK
  <1>2. CASE ~connected[r]
    BY <1>2 DEF Write, ChatTypeOK
  <1>3. CASE connected[r]
    <2>1. sent' = [sent EXCEPT ![r] = Append(sent[r], e)]
      BY <1>3 DEF Write
    <2>2. Append(sent[r], e) \in Seq(Event)
      BY <1>1, AppendFacts
    <2> QED
      BY <1>3, <2>1, <2>2 DEF ChatTypeOK
  <1> QED
    BY <1>1, <1>2, <1>3

(***************************************************************************)
(* Streams of events.                                                      *)
(***************************************************************************)
OnlyTokens(events) == \A i \in 1..Len(events) : events[i] = "token"

OnlyAnswer(events) == \A i \in 1..Len(events) : events[i] \in {"token", "rest"}

\* The ending, if it has begun, goes on with h.
GoesOnWith(events, h) ==
    Len(events) > 0 =>
        LET e == events[Len(events)]
        IN  e \in DOMAIN Epilogue => Epilogue[e] = h

\* Nothing has been sent.
LEMMA EmptyStream ==
    /\ WellFormed(<< >>) /\ OnlyTokens(<< >>) /\ OnlyAnswer(<< >>)
    /\ \A h : GoesOnWith(<< >>, h)
  BY DEF WellFormed, OnlyTokens, OnlyAnswer, GoesOnWith

\* Tokens are an answer, and an answer may be followed by any ending.
LEMMA AnswerFacts ==
    ASSUME NEW s \in Seq(Event)
    PROVE  /\ OnlyTokens(s) => OnlyAnswer(s)
           /\ OnlyAnswer(s) => \A h : GoesOnWith(s, h)
  <1>1. Len(s) \in Nat
    OBVIOUS
  <1> QED
    BY <1>1, EpilogueFacts DEF OnlyTokens, OnlyAnswer, GoesOnWith

\* A token, or the rest of the last character, follows tokens.
LEMMA AppendToAnswer ==
    ASSUME NEW s \in Seq(Event), OnlyTokens(s), NEW e \in {"token", "rest"}
    PROVE  /\ WellFormed(Append(s, e)) /\ OnlyAnswer(Append(s, e))
           /\ e = "token" => OnlyTokens(Append(s, e))
  <1> DEFINE t == Append(s, e)
  <1>1. /\ Len(s) \in Nat
        /\ Len(t) = Len(s) + 1
        /\ \A i \in 1..Len(s) : t[i] = s[i]
        /\ t[Len(s) + 1] = e
    BY AppendFacts DEF Event
  <1>2. \A i \in 1..Len(s) : t[i] = "token"
    BY <1>1 DEF OnlyTokens
  <1> HIDE DEF t
  <1>3. OnlyAnswer(t) /\ (e = "token" => OnlyTokens(t))
    BY <1>1, <1>2 DEF OnlyAnswer, OnlyTokens
  <1>4. WellFormed(t)
    BY <1>1, <1>2, EpilogueFacts DEF WellFormed, Event
  <1> QED
    BY <1>3, <1>4 DEF t

\* The ending is continued in its order.
LEMMA AppendToEnding ==
    ASSUME NEW s \in Seq(Event), WellFormed(s), NEW h \in DOMAIN Epilogue, GoesOnWith(s, h)
    PROVE  WellFormed(Append(s, h)) /\ GoesOnWith(Append(s, h), Epilogue[h])
  <1> DEFINE t == Append(s, h)
  <1>1. /\ Len(s) \in Nat
        /\ Len(t) = Len(s) + 1
        /\ \A i \in 1..Len(s) : t[i] = s[i]
        /\ t[Len(s) + 1] = h
    BY AppendFacts DEF Event
  <1>2. h \in Event /\ h \notin {"token", "rest"}
    BY EpilogueFacts DEF Event
  <1> HIDE DEF t
  <1>3. GoesOnWith(t, Epilogue[h])
    BY <1>1 DEF GoesOnWith
  <1>4. ASSUME NEW i \in 1..Len(t), NEW j \in 1..Len(t)
        PROVE  /\ t[i] \in Event
               /\ (i < j /\ t[j] \in {"token", "rest"}) => t[i] = "token"
               /\ (i < j /\ t[i] \in DOMAIN Epilogue) => Epilogue[t[i]] = t[i + 1]
    <2>1. CASE j \in 1..Len(s) /\ i \in 1..Len(s)
      <3>1. i < j => i + 1 \in 1..Len(s)
        BY <1>1, <2>1
      <3> QED
        BY <1>1, <2>1, <3>1 DEF WellFormed
    <2>2. CASE j = Len(s) + 1 /\ i \in 1..(Len(s) - 1)
      <3>1. i \in 1..Len(s) /\ i + 1 \in 1..Len(s) /\ Len(s) \in 1..Len(s) /\ i < Len(s)
        BY <1>1, <2>2
      <3>2. s[i] \in Event /\ (s[i] \in DOMAIN Epilogue => Epilogue[s[i]] = s[i + 1])
        BY <3>1 DEF WellFormed
      <3> QED
        BY <1>1, <1>2, <2>2, <3>1, <3>2
    <2>3. CASE j = Len(s) + 1 /\ i = Len(s)
      <3>1. i \in 1..Len(s) /\ t[i] = s[i] /\ s[i] \in Event
        BY <1>1, <2>3 DEF WellFormed
      <3>2. s[i] \in DOMAIN Epilogue => Epilogue[s[i]] = h
        BY <2>3, <3>1 DEF GoesOnWith
      <3> QED
        BY <1>1, <1>2, <2>3, <3>1, <3>2
    <2>4. CASE i = Len(s) + 1
      BY <1>1, <1>2, <2>4
    <2> QED
      BY <1>1, <2>1, <2>2, <2>3, <2>4
  <1>5. WellFormed(t)
    BY <1>4 DEF WellFormed
  <1> QED
    BY <1>3, <1>5 DEF t

-----------------------------------------------------------------------------
(***************************************************************************)
(* The server uses the queue only through its operations.                  *)
(***************************************************************************)
SubmitInv ==
    /\ log \in Seq(Task)
    /\ handler \in [Task -> HandlerStates]
    /\ SubmittedOnce

\* The steps of the worker, of the shutdown and of the clients: they move no
\* handler and submit nothing.
OtherStep ==
    \/ \E r \in Task : Disconnect(r)
    \/ WorkerThread
    \/ SpuriousWake /\ UNCHANGED chatVars
    \/ StopServer \/ ListenReturns \/ DestroyQueue
    \/ UNCHANGED vars

\* Next by cases.
LEMMA NextCases ==
    ASSUME [Next]_vars
    PROVE  \/ \E r \in Task : Arrive(r) \/ Submit(r) \/ GetResult(r) \/ Respond(r)
           \/ OtherStep
  BY DEF Next, HandlerStep, OtherStep, Ended

\* Those steps leave the handlers and the log of the queue alone.
LEMMA OtherStepsKeepHandlers ==
    ASSUME OtherStep
    PROVE  UNCHANGED <<handler, log>>
  <1>1. CASE \E r \in Task : Disconnect(r)
    BY <1>1 DEF Disconnect, queueVars
  <1>2. CASE WorkerThread
    <2>1. CASE Take \/ ((WorkerTop \/ WorkerWait) /\ UNCHANGED chatVars)
      BY <2>1 DEF Take, WorkerTake, WorkerTop, WorkerWait, chatVars
    <2>2. CASE AskStep
      BY <2>2 DEF AskStep, Throw, Retrieve, Rerank, Prefill, DecodeEnds, Decode, Emit,
                  WriteToken, Flush, Cite, Return, Settle, AskGoesTo, EndGeneration,
                  FinishTask, queueVars
    <2> QED
      BY <1>2, <2>1, <2>2 DEF WorkerThread
  <1>3. CASE \/ SpuriousWake /\ UNCHANGED chatVars
             \/ StopServer \/ ListenReturns \/ DestroyQueue
             \/ UNCHANGED vars
    BY <1>3 DEF SpuriousWake, StopServer, ListenReturns, DestroyQueue, StopClose, StopStep,
                StopRequest, StopNotify, Join, chatVars, queueVars, vars
  <1> QED
    BY <1>1, <1>2, <1>3 DEF OtherStep

\* Initially nothing was submitted.
LEMMA InitSubmits == Init => SubmitInv
  BY EmptySeq DEF Init, QueueInit, SubmitInv, SubmittedOnce, HandlerStates, Accepted

\* A handler calls try_submit once, on its way out of "submit".
LEMMA NextSubmits == SubmitInv /\ [Next]_vars => SubmitInv'
  <1> SUFFICES ASSUME SubmitInv, [Next]_vars PROVE SubmitInv'
    OBVIOUS
  <1>1. ASSUME NEW r \in Task, Arrive(r) PROVE SubmitInv'
    BY <1>1, EpilogueFacts DEF Arrive, SubmitInv, SubmittedOnce, HandlerStates, queueVars,
                               Accepted
  <1>2. ASSUME NEW r \in Task, Submit(r) PROVE SubmitInv'
    <2>1. PICK ok \in BOOLEAN :
              /\ log' = IF ok THEN Append(log, r) ELSE log
              /\ handler' = [handler EXCEPT ![r] = IF ok THEN "waiting" ELSE "queue_full"]
      BY <1>2 DEF Submit, TrySubmit
    <2>2. log' \in Seq(Task) /\ Accepted' \subseteq Accepted \cup {r}
      <3>1. CASE ok
        <4>1. /\ log' \in Seq(Task)
              /\ Len(log) \in Nat
              /\ Len(log') = Len(log) + 1
              /\ \A i \in 1..Len(log) : log'[i] = log[i]
              /\ log'[Len(log) + 1] = r
          BY <2>1, <3>1, AppendFacts DEF SubmitInv
        <4>2. ASSUME NEW i \in 1..Len(log') PROVE log'[i] \in Accepted \cup {r}
          BY <4>1 DEF Accepted
        <4> QED
          BY <4>1, <4>2 DEF Accepted
      <3>2. CASE ~ok
        BY <2>1, <3>2 DEF SubmitInv, Accepted
      <3> QED
        BY <3>1, <3>2
    <2>3. handler' \in [Task -> HandlerStates]
      BY <2>1, EpilogueFacts DEF SubmitInv, HandlerStates
    <2>4. SubmittedOnce'
      BY <2>1, <2>2 DEF SubmitInv, SubmittedOnce
    <2> QED
      BY <2>2, <2>3, <2>4 DEF SubmitInv
  <1>3. ASSUME NEW r \in Task, GetResult(r) \/ Respond(r) PROVE SubmitInv'
    <2>1. PICK h \in HandlerStates \ {"idle", "submit"} : handler' = [handler EXCEPT ![r] = h]
      BY <1>3, EpilogueFacts DEF GetResult, Respond, HandlerStates
    <2>2. log' = log
      BY <1>3 DEF GetResult, Respond, queueVars
    <2> QED
      BY <2>1, <2>2 DEF SubmitInv, SubmittedOnce, Accepted
  <1>4. CASE OtherStep
    BY <1>4, OtherStepsKeepHandlers DEF SubmitInv, SubmittedOnce, Accepted
  <1> QED
    BY <1>1, <1>2, <1>3, <1>4, NextCases

\* Each step of the server is a step of the queue or leaves the queue alone.
LEMMA StepOfTheQueue ==
    SubmitInv /\ [Next]_vars => [QueueNext]_queueVars
  <1> SUFFICES ASSUME SubmitInv, [Next]_vars PROVE QueueNext \/ UNCHANGED queueVars
    OBVIOUS
  <1>1. ASSUME NEW r \in Task, Submit(r) PROVE QueueNext
    <2>1. r \notin Accepted
      BY <1>1 DEF Submit, SubmitInv, SubmittedOnce
    <2> QED
      BY <1>1, <2>1 DEF Submit, QueueNext
  <1>2. ASSUME NEW r \in Task, Arrive(r) \/ GetResult(r) \/ Respond(r)
        PROVE  UNCHANGED queueVars
    BY <1>2 DEF Arrive, GetResult, Respond
  <1>3. CASE OtherStep
    <2>1. CASE WorkerThread
      <3>1. CASE Take \/ ((WorkerTop \/ WorkerWait) /\ UNCHANGED chatVars)
        BY <3>1 DEF Take, QueueNext, WorkerStep
      <3>2. CASE AskStep
        BY <3>2 DEF AskStep, Throw, Retrieve, Rerank, Prefill, DecodeEnds, Decode, Emit,
                    WriteToken, Flush, Cite, Return, Settle, AskGoesTo, EndGeneration,
                    QueueNext
      <3> QED
        BY <2>1, <3>1, <3>2 DEF WorkerThread
    <2>2. CASE \/ \E r \in Task : Disconnect(r)
               \/ StopServer \/ ListenReturns \/ UNCHANGED vars
      BY <2>2 DEF Disconnect, StopServer, ListenReturns, vars
    <2>3. CASE SpuriousWake \/ DestroyQueue
      BY <2>3 DEF DestroyQueue, QueueNext
    <2> QED
      BY <1>3, <2>1, <2>2, <2>3 DEF OtherStep
  <1> QED
    BY <1>1, <1>2, <1>3, NextCases

\* No handler submits its task twice, so the server uses the queue as
\* GenerationQueue allows it, and its invariant holds in the server.
LEMMA ServerUsesTheQueue == Safety => QueueSafety
  <1>1. Init => QueueInit
    BY DEF Init
  <1> QED
    BY <1>1, InitSubmits, NextSubmits, StepOfTheQueue, PTL
    DEF Safety, QueueSafety

-----------------------------------------------------------------------------
(***************************************************************************)
(* The inductive invariant of the server, above that of the queue.         *)
(***************************************************************************)
InQueue(r) == \E i \in 1..Len(tasks) : tasks[i] = r
Runs(r) == worker = "run" /\ Running = r

\* The worker is inside ask() exactly while it runs a task, and the task is
\* the one it popped last.
AskFollowsWorker ==
    /\ worker = "run" <=> ask # "none"
    /\ worker = "run" => taken > 0

\* The handler of a task that waits or runs is blocked in result.get(), and
\* nothing has been stored for it to get.
AliveWaits ==
    \A r \in Task : TaskAlive(r) => handler[r] = "waiting" /\ promise[r] = "empty"

\* Before try_submit nothing was stored or sent.
FreshRequests ==
    \A r \in Task : handler[r] \in {"idle", "submit"} => promise[r] = "empty" /\ sent[r] = << >>

\* The queue is stopped after listen() returned, which it does when no
\* handler is left.
ShutdownInOrder ==
    /\ stopper # "none" => server = "returned"
    /\ server = "returned" => \A r \in Task : handler[r] \in {"idle", "closed"}

\* A stop source is used exactly when a token is withheld, and nothing else
\* cuts an answer.
OnlyWithheldIsCut ==
    \A r \in Task :
        /\ clientStop[r] <=> withheld[r]
        /\ withheld[r] => r \in Streaming
        /\ cut[r] => withheld[r]

\* A token that is about to be written follows no withheld one.
TokenIsWanted == \A r \in Task : (Runs(r) /\ ask \in {"emit", "write"}) => ~withheld[r]

\* The last byte of the answer has not been handed to the callback.
Streams(r) == InQueue(r) \/ (Runs(r) /\ ask \notin {"cite", "settled"})

\* The stream of a request as far as its handler and the worker have got.
StreamSoFar ==
    \A r \in Task :
        /\ handler[r] = "waiting" => OnlyAnswer(sent[r])
        /\ Streams(r) => OnlyTokens(sent[r])
        /\ (handler[r] \in DOMAIN Epilogue /\ connected[r]) => GoesOnWith(sent[r], handler[r])

ChatInv ==
    /\ ChatTypeOK
    /\ AskFollowsWorker
    /\ AliveWaits
    /\ FreshRequests
    /\ ShutdownInOrder
    /\ OnlyWithheldIsCut
    /\ TokenIsWanted
    /\ StreamSoFar
    /\ StreamShape

\* The task that runs is a request, and does not wait in the queue as well.
LEMMA RunningFacts ==
    ASSUME QueueInv, AskFollowsWorker, worker = "run"
    PROVE  /\ taken \in 1..Len(log)
           /\ Running \in Task
           /\ Runs(Running)
           /\ ~InQueue(Running)
  <1>1. /\ log \in Seq(Task) /\ tasks \in Seq(Task)
        /\ taken \in Nat /\ taken > 0
        /\ Len(log) \in Nat /\ Len(tasks) \in Nat
        /\ Len(log) = taken + Len(tasks)
        /\ \A i \in 1..Len(tasks) : tasks[i] = log[taken + i]
    BY DEF QueueInv, QueueTypeOK, QueueIsUntakenSuffix, AskFollowsWorker
  <1>2. taken \in 1..Len(log) /\ Running \in Task
    BY <1>1 DEF Running
  <1>3. ~InQueue(Running)
    <2>1. ASSUME NEW i \in 1..Len(tasks), tasks[i] = log[taken] PROVE FALSE
      <3>1. taken + i \in 1..Len(log) /\ log[taken + i] = log[taken] /\ taken + i # taken
        BY <1>1, <2>1
      <3> QED
        BY <1>2, <3>1 DEF QueueInv, LogIsInjective
    <2> QED
      BY <2>1 DEF InQueue, Running
  <1> QED
    BY <1>2, <1>3 DEF Runs

\* try_submit adds at most the submitted request to the queue.
LEMMA SubmitMoves ==
    ASSUME QueueInv, AskFollowsWorker, NEW r \in Task, NEW ok \in BOOLEAN, TrySubmit(r, ok)
    PROVE  /\ worker' = "run" <=> worker = "run"
           /\ taken' = taken /\ stopper' = stopper
           /\ ok => accepting
           /\ \A q \in Task :
                 /\ InQueue(q)' => InQueue(q) \/ (q = r /\ ok)
                 /\ Runs(q)' => Runs(q)
  <1>1. /\ taken' = taken /\ stopper' = stopper
        /\ ok => accepting
        /\ worker' = "run" <=> worker = "run"
    BY DEF TrySubmit, Accepts, AfterPush, Woken
  <1>2. CASE ~ok
    BY <1>1, <1>2 DEF TrySubmit, InQueue, Runs, Running
  <1>3. CASE ok
    <2>1. tasks' = Append(tasks, r) /\ log' = Append(log, r)
      BY <1>3 DEF TrySubmit
    <2>2. /\ Len(tasks) \in Nat
          /\ Len(tasks') = Len(tasks) + 1
          /\ \A i \in 1..Len(tasks) : tasks'[i] = tasks[i]
          /\ tasks'[Len(tasks) + 1] = r
      BY <2>1, AppendFacts DEF QueueInv, QueueTypeOK
    <2>3. \A i \in 1..Len(log) : log'[i] = log[i]
      BY <2>1, AppendFacts DEF QueueInv, QueueTypeOK
    <2>4. ASSUME NEW q \in Task, InQueue(q)' PROVE InQueue(q) \/ q = r
      BY <2>2, <2>4 DEF InQueue
    <2>5. ASSUME NEW q \in Task, Runs(q)' PROVE Runs(q)
      <3>1. worker = "run"
        BY <1>1, <2>5 DEF Runs
      <3>2. taken \in 1..Len(log)
        BY <3>1, RunningFacts
      <3> QED
        BY <1>1, <2>3, <2>5, <3>1, <3>2 DEF Runs, Running
    <2> QED
      BY <1>1, <1>3, <2>4, <2>5
  <1> QED
    BY <1>2, <1>3

\* The pop moves a request from the queue to the worker.
LEMMA TakeMoves ==
    ASSUME QueueInv, WorkerTake
    PROVE  /\ taken' > 0
           /\ \A q \in Task : (InQueue(q)' => InQueue(q)) /\ (Runs(q)' => InQueue(q))
  <1>1. /\ tasks' = Tail(tasks) /\ taken' = taken + 1 /\ log' = log
        /\ tasks # << >>
    BY DEF WorkerTake, Popped, QueueInv, StopOrder
  <1>2. /\ Len(tasks) \in Nat \ {0}
        /\ Len(tasks') = Len(tasks) - 1
        /\ \A i \in 1..Len(tasks') : tasks'[i] = tasks[i + 1]
    BY <1>1, TailFacts DEF QueueInv, QueueTypeOK
  <1>3. taken \in Nat /\ tasks[1] = log[taken + 1]
    BY <1>2 DEF QueueInv, QueueTypeOK, QueueIsUntakenSuffix
  <1>4. ASSUME NEW q \in Task, InQueue(q)' PROVE InQueue(q)
    <2>1. PICK i \in 1..Len(tasks') : tasks'[i] = q
      BY <1>4 DEF InQueue
    <2>2. i + 1 \in 1..Len(tasks) /\ tasks[i + 1] = q
      BY <1>2, <2>1
    <2> QED
      BY <2>2 DEF InQueue
  <1>5. ASSUME NEW q \in Task, Runs(q)' PROVE InQueue(q)
    <2>1. 1 \in 1..Len(tasks) /\ tasks[1] = q
      BY <1>1, <1>2, <1>3, <1>5 DEF Runs, Running
    <2> QED
      BY <2>1 DEF InQueue
  <1> QED
    BY <1>1, <1>3, <1>4, <1>5

\* Nothing else moves a request.
LEMMA OthersMoveNothing ==
    ASSUME UNCHANGED <<tasks, log, taken>>
    PROVE  \A q \in Task : /\ InQueue(q)' <=> InQueue(q)
                           /\ (Runs(q)' /\ worker = "run") => Runs(q)
  BY DEF InQueue, Runs, Running

\* A task is alive as long as it waits or runs, before and after a step.
LEMMA AliveFacts ==
    \A r \in Task :
        /\ TaskAlive(r) <=> InQueue(r) \/ (Runs(r) /\ ask # "settled")
        /\ TaskAlive(r)' <=> InQueue(r)' \/ (Runs(r)' /\ ask' # "settled")
  BY DEF TaskAlive, InQueue, Runs

-----------------------------------------------------------------------------
(***************************************************************************)
(* The steps of the HTTP threads.                                          *)
(***************************************************************************)
\* A request arrives.
LEMMA ArriveKeepsInv ==
    ASSUME QueueInv, ChatInv, NEW r \in Task, Arrive(r)
    PROVE  ChatInv'
  <1>1. PICK h \in {"submit", "rejected"} : handler' = [handler EXCEPT ![r] = h]
    BY DEF Arrive
  <1>2. /\ handler[r] = "idle" /\ server # "returned"
        /\ UNCHANGED <<queueVars, server, connected, promise, clientStop, sent, ask,
                       generated, cut, withheld>>
    BY DEF Arrive
  <1>3. UNCHANGED <<tasks, worker, log, taken, stopper>>
    BY <1>2 DEF queueVars
  <1>4. ChatTypeOK'
    BY <1>1, <1>2, EpilogueFacts DEF ChatInv, ChatTypeOK, HandlerStates
  <1>5. AskFollowsWorker' /\ OnlyWithheldIsCut' /\ StreamShape'
    BY <1>2, <1>3 DEF ChatInv, AskFollowsWorker, OnlyWithheldIsCut, StreamShape
  <1>6. TokenIsWanted'
    BY <1>2, <1>3 DEF ChatInv, TokenIsWanted, Runs, Running
  <1>7. ~TaskAlive(r)
    BY <1>2 DEF ChatInv, AliveWaits
  <1>8. AliveWaits' /\ FreshRequests' /\ ShutdownInOrder'
    BY <1>1, <1>2, <1>3, <1>7
    DEF ChatInv, ChatTypeOK, AliveWaits, FreshRequests, ShutdownInOrder, TaskAlive, Running
  <1>9. StreamSoFar'
    <2>1. sent[r] = << >>
      BY <1>2 DEF ChatInv, FreshRequests
    <2> QED
      BY <1>1, <1>2, <1>3, <2>1, EmptyStream
      DEF ChatInv, ChatTypeOK, StreamSoFar, Streams, InQueue, Runs, Running
  <1> QED
    BY <1>4, <1>5, <1>6, <1>8, <1>9 DEF ChatInv

\* The handler's try_submit.
LEMMA SubmitKeepsInv ==
    ASSUME QueueInv, ChatInv, NEW r \in Task, Submit(r)
    PROVE  ChatInv'
  <1>1. PICK ok \in BOOLEAN :
            /\ TrySubmit(r, ok)
            /\ handler' = [handler EXCEPT ![r] = IF ok THEN "waiting" ELSE "queue_full"]
    BY DEF Submit
  <1>2. /\ handler[r] = "submit"
        /\ UNCHANGED <<server, connected, promise, clientStop, sent, ask, generated, cut,
                       withheld>>
    BY DEF Submit
  <1>3. /\ worker' = "run" <=> worker = "run"
        /\ taken' = taken /\ stopper' = stopper
        /\ ok => accepting
        /\ \A q \in Task : /\ InQueue(q)' => InQueue(q) \/ (q = r /\ ok)
                           /\ Runs(q)' => Runs(q)
    BY <1>1, SubmitMoves DEF ChatInv
  <1>4. promise[r] = "empty" /\ sent[r] = << >>
    BY <1>2 DEF ChatInv, FreshRequests
  <1>5. ChatTypeOK'
    BY <1>1, <1>2, EpilogueFacts DEF ChatInv, ChatTypeOK, HandlerStates
  <1>6. AskFollowsWorker' /\ OnlyWithheldIsCut' /\ StreamShape' /\ TokenIsWanted'
    BY <1>2, <1>3
    DEF ChatInv, AskFollowsWorker, OnlyWithheldIsCut, StreamShape, TokenIsWanted
  <1>7. ~TaskAlive(r)
    BY <1>2 DEF ChatInv, AliveWaits
  <1>8. AliveWaits'
    <2>1. ASSUME NEW q \in Task, TaskAlive(q)'
          PROVE  handler'[q] = "waiting" /\ promise'[q] = "empty"
      <3>1. TaskAlive(q) \/ (q = r /\ ok)
        BY <1>2, <1>3, <2>1, AliveFacts
      <3> QED
        BY <1>1, <1>2, <1>4, <1>7, <3>1 DEF ChatInv, ChatTypeOK, AliveWaits
    <2> QED
      BY <2>1 DEF AliveWaits
  <1>9. FreshRequests' /\ ShutdownInOrder'
    BY <1>1, <1>2, <1>3 DEF ChatInv, ChatTypeOK, FreshRequests, ShutdownInOrder
  <1>10. StreamSoFar'
    BY <1>1, <1>2, <1>3, <1>4, EmptyStream DEF ChatInv, ChatTypeOK, StreamSoFar, Streams
  <1> QED
    BY <1>5, <1>6, <1>8, <1>9, <1>10 DEF ChatInv

\* result.get() returns: the task is no longer alive.
LEMMA GetResultKeepsInv ==
    ASSUME QueueInv, ChatInv, NEW r \in Task, GetResult(r)
    PROVE  ChatInv'
  <1>1. PICK h \in {"error", "citations", "json"} : handler' = [handler EXCEPT ![r] = h]
    BY DEF GetResult
  <1>2. /\ handler[r] = "waiting" /\ promise[r] # "empty"
        /\ UNCHANGED <<queueVars, server, connected, promise, clientStop, sent, ask,
                       generated, cut, withheld>>
    BY DEF GetResult, ResultReady
  <1>3. UNCHANGED <<tasks, worker, log, taken, stopper>>
    BY <1>2 DEF queueVars
  <1>4. ChatTypeOK'
    BY <1>1, <1>2, EpilogueFacts DEF ChatInv, ChatTypeOK, HandlerStates
  <1>5. AskFollowsWorker' /\ OnlyWithheldIsCut' /\ StreamShape'
    BY <1>2, <1>3 DEF ChatInv, AskFollowsWorker, OnlyWithheldIsCut, StreamShape
  <1>6. TokenIsWanted'
    BY <1>2, <1>3 DEF ChatInv, TokenIsWanted, Runs, Running
  <1>7. ~TaskAlive(r)
    BY <1>2 DEF ChatInv, AliveWaits
  <1>8. AliveWaits' /\ FreshRequests' /\ ShutdownInOrder'
    BY <1>1, <1>2, <1>3, <1>7
    DEF ChatInv, ChatTypeOK, AliveWaits, FreshRequests, ShutdownInOrder, TaskAlive, Running
  <1>9. StreamSoFar'
    <2>1. \A e : GoesOnWith(sent[r], e)
      BY <1>2, AnswerFacts DEF ChatInv, ChatTypeOK, StreamSoFar
    <2> QED
      BY <1>1, <1>2, <1>3, <2>1
      DEF ChatInv, ChatTypeOK, StreamSoFar, Streams, InQueue, Runs, Running
  <1> QED
    BY <1>4, <1>5, <1>6, <1>8, <1>9 DEF ChatInv

\* The handler writes one of its last events.
LEMMA RespondKeepsInv ==
    ASSUME QueueInv, ChatInv, NEW r \in Task, Respond(r)
    PROVE  ChatInv'
  <1> DEFINE h == handler[r]
  <1>1. /\ h \in DOMAIN Epilogue
        /\ Write(r, h)
        /\ handler' = [handler EXCEPT ![r] = Epilogue[h]]
        /\ UNCHANGED <<queueVars, server, connected, promise, clientStop, ask, generated,
                       cut, withheld>>
    BY DEF Respond
  <1>2. UNCHANGED <<tasks, worker, log, taken, stopper>>
    BY <1>1 DEF queueVars
  <1>3. /\ sent' \in [Task -> Seq(Event)]
        /\ \A q \in Task : q # r => sent'[q] = sent[q]
        /\ sent'[r] = IF connected[r] THEN Append(sent[r], h) ELSE sent[r]
    BY <1>1, WriteFacts DEF ChatInv, Event
  <1>4. handler'[r] = Epilogue[h] /\ Epilogue[h] \in {"metrics", "done", "closed"}
    BY <1>1, EpilogueFacts DEF ChatInv, ChatTypeOK
  <1>5. ChatTypeOK'
    BY <1>1, <1>3, <1>4, EpilogueFacts DEF ChatInv, ChatTypeOK, HandlerStates
  <1>6. AskFollowsWorker' /\ OnlyWithheldIsCut' /\ TokenIsWanted'
    BY <1>1, <1>2
    DEF ChatInv, AskFollowsWorker, OnlyWithheldIsCut, TokenIsWanted, Runs, Running
  <1>7. h \notin {"waiting", "idle", "submit", "closed"}
    BY <1>1, EpilogueFacts
  <1>8. ~TaskAlive(r)
    BY <1>7 DEF ChatInv, AliveWaits
  <1>9. AliveWaits' /\ FreshRequests' /\ ShutdownInOrder'
    BY <1>1, <1>2, <1>3, <1>4, <1>7, <1>8
    DEF ChatInv, ChatTypeOK, AliveWaits, FreshRequests, ShutdownInOrder, TaskAlive, Running
  <1>10. StreamSoFar'
    <2>1. ~Streams(r) /\ ~Streams(r)'
      BY <1>1, <1>2, <1>8 DEF Streams, InQueue, Runs, Running, TaskAlive
    <2>2. \A q \in Task : Streams(q)' <=> Streams(q)
      BY <1>1, <1>2 DEF Streams, InQueue, Runs, Running
    <2>3. connected[r] => GoesOnWith(sent'[r], Epilogue[h])
      BY <1>1, <1>3, AppendToEnding DEF ChatInv, ChatTypeOK, StreamShape, StreamSoFar
    <2> QED
      BY <1>1, <1>3, <1>4, <2>1, <2>2, <2>3 DEF ChatInv, ChatTypeOK, StreamSoFar
  <1>11. StreamShape'
    <2>1. WellFormed(sent'[r])
      BY <1>1, <1>3, AppendToEnding DEF ChatInv, ChatTypeOK, StreamShape, StreamSoFar
    <2> QED
      BY <1>3, <2>1 DEF ChatInv, StreamShape
  <1> QED
    BY <1>5, <1>6, <1>9, <1>10, <1>11 DEF ChatInv

\* A client goes away.
LEMMA DisconnectKeepsInv ==
    ASSUME QueueInv, ChatInv, NEW r \in Task, Disconnect(r)
    PROVE  ChatInv'
  <1>1. /\ connected' = [connected EXCEPT ![r] = FALSE]
        /\ UNCHANGED <<queueVars, server, handler, promise, clientStop, sent, ask, generated,
                       cut, withheld>>
    BY DEF Disconnect
  <1>2. UNCHANGED <<tasks, worker, log, taken, stopper>>
    BY <1>1 DEF queueVars
  <1>3. ChatTypeOK'
    BY <1>1 DEF ChatInv, ChatTypeOK
  <1>4. \A q \in Task : connected'[q] => connected[q]
    BY <1>1 DEF ChatInv, ChatTypeOK
  <1>5. StreamSoFar'
    BY <1>1, <1>2, <1>4 DEF ChatInv, StreamSoFar, Streams, InQueue, Runs, Running
  <1>6. /\ AskFollowsWorker' /\ AliveWaits' /\ FreshRequests' /\ ShutdownInOrder'
        /\ OnlyWithheldIsCut' /\ TokenIsWanted' /\ StreamShape'
    BY <1>1, <1>2
    DEF ChatInv, AskFollowsWorker, AliveWaits, FreshRequests, ShutdownInOrder,
        OnlyWithheldIsCut, TokenIsWanted, StreamShape, TaskAlive, Runs, Running
  <1> QED
    BY <1>3, <1>5, <1>6 DEF ChatInv

-----------------------------------------------------------------------------
(***************************************************************************)
(* The steps of the worker.                                                *)
(***************************************************************************)
\* The worker pops the next task and enters ask().
LEMMA TakeKeepsInv ==
    ASSUME QueueInv, ChatInv, Take
    PROVE  ChatInv'
  <1>1. /\ WorkerTake /\ ask' = "retrieve"
        /\ UNCHANGED <<server, handler, connected, promise, clientStop, sent, generated,
                       cut, withheld>>
    BY DEF Take
  <1>2. worker = "take" /\ worker' = "run" /\ stopper' = stopper
    BY <1>1 DEF WorkerTake
  <1>3. /\ taken' > 0
        /\ \A q \in Task : (InQueue(q)' => InQueue(q)) /\ (Runs(q)' => InQueue(q))
    BY <1>1, TakeMoves
  <1>4. ChatTypeOK'
    BY <1>1 DEF ChatInv, ChatTypeOK, AskStates
  <1>5. /\ AskFollowsWorker' /\ FreshRequests' /\ ShutdownInOrder' /\ OnlyWithheldIsCut'
        /\ TokenIsWanted' /\ StreamShape'
    BY <1>1, <1>2, <1>3
    DEF ChatInv, AskFollowsWorker, FreshRequests, ShutdownInOrder, OnlyWithheldIsCut,
        TokenIsWanted, StreamShape
  <1>6. AliveWaits'
    <2>1. \A q \in Task : TaskAlive(q)' => TaskAlive(q)
      BY <1>3, AliveFacts
    <2> QED
      BY <1>1, <2>1 DEF ChatInv, AliveWaits
  <1>7. StreamSoFar'
    <2>1. \A q \in Task : Streams(q)' => Streams(q)
      BY <1>3 DEF Streams
    <2> QED
      BY <1>1, <2>1 DEF ChatInv, StreamSoFar
  <1> QED
    BY <1>4, <1>5, <1>6, <1>7 DEF ChatInv

\* While no task runs, the worker and stop() change nothing of the server's.
LEMMA IdleWorkerKeepsInv ==
    ASSUME ChatInv, UNCHANGED chatVars, UNCHANGED <<tasks, log, taken>>,
           worker' = "run" <=> worker = "run",
           stopper' # "none" => stopper # "none" \/ server = "returned"
    PROVE  ChatInv'
  <1>1. UNCHANGED <<server, handler, connected, promise, clientStop, sent, ask, generated,
                    cut, withheld>>
    BY DEF chatVars
  <1>2. \A q \in Task : (InQueue(q)' <=> InQueue(q)) /\ (Runs(q)' <=> Runs(q))
    BY DEF InQueue, Runs, Running
  <1>3. \A q \in Task : TaskAlive(q)' => TaskAlive(q)
    BY <1>1, <1>2, AliveFacts
  <1>4. \A q \in Task : Streams(q)' => Streams(q)
    BY <1>1, <1>2 DEF Streams
  <1>5. ChatTypeOK' /\ AskFollowsWorker' /\ ShutdownInOrder' /\ StreamShape'
    BY <1>1 DEF ChatInv, ChatTypeOK, AskFollowsWorker, ShutdownInOrder, StreamShape
  <1>6. AliveWaits' /\ FreshRequests'
    BY <1>1, <1>3 DEF ChatInv, AliveWaits, FreshRequests
  <1>7. OnlyWithheldIsCut' /\ TokenIsWanted'
    BY <1>1, <1>2 DEF ChatInv, OnlyWithheldIsCut, TokenIsWanted
  <1>8. StreamSoFar'
    BY <1>1, <1>4 DEF ChatInv, StreamSoFar
  <1> QED
    BY <1>5, <1>6, <1>7, <1>8 DEF ChatInv

\* A step of ask() runs the task of a request whose handler waits, in a queue
\* that nobody stops, and moves no request.
LEMMA InsideAsk ==
    ASSUME QueueInv, ChatInv, worker = "run", ask # "settled",
           UNCHANGED <<queueVars, server, handler, connected>>,
           ask' \in AskStates \ {"none"}
    PROVE  /\ Running \in Task /\ Running' = Running
           /\ handler[Running] = "waiting" /\ promise[Running] = "empty"
           /\ ~stopRequested
           /\ \A q \in Task : /\ InQueue(q)' <=> InQueue(q)
                              /\ Runs(q) <=> q = Running
                              /\ Runs(q)' <=> q = Running
           /\ ~InQueue(Running)
           /\ AskFollowsWorker' /\ ShutdownInOrder'
  <1>1. UNCHANGED <<tasks, stopRequested, worker, stopper, log, taken>>
    BY DEF queueVars
  <1>2. Running \in Task /\ Runs(Running) /\ ~InQueue(Running)
    BY RunningFacts DEF ChatInv
  <1>3. handler[Running] = "waiting" /\ promise[Running] = "empty"
    <2>1. TaskAlive(Running)
      BY <1>2, AliveFacts
    <2> QED
      BY <1>2, <2>1 DEF ChatInv, AliveWaits
  <1>4. ~stopRequested
    BY <1>2, <1>3 DEF ChatInv, ShutdownInOrder, QueueInv, StopOrder
  <1>5. \A q \in Task : /\ InQueue(q)' <=> InQueue(q)
                        /\ Runs(q) <=> q = Running
                        /\ Runs(q)' <=> q = Running
    BY <1>1 DEF InQueue, Runs, Running
  <1>6. AskFollowsWorker' /\ ShutdownInOrder'
    BY <1>1 DEF ChatInv, AskFollowsWorker, ShutdownInOrder
  <1> QED
    BY <1>1, <1>2, <1>3, <1>4, <1>5, <1>6 DEF Running

\* The promise is fulfilled: from here the worker leaves the sink alone.
LEMMA SettleKeepsInv ==
    ASSUME QueueInv, ChatInv, worker = "run", ask # "settled",
           NEW result \in {"value", "exception"}, Settle(result)
    PROVE  ChatInv'
  <1>1. /\ promise' = [promise EXCEPT ![Running] = result]
        /\ ask' = "settled"
        /\ UNCHANGED <<queueVars, server, handler, connected, clientStop, sent, generated,
                       cut, withheld>>
    BY DEF Settle
  <1>2. /\ Running \in Task /\ handler[Running] = "waiting" /\ ~InQueue(Running)
        /\ \A q \in Task : /\ InQueue(q)' <=> InQueue(q)
                           /\ Runs(q) <=> q = Running
                           /\ Runs(q)' <=> q = Running
        /\ AskFollowsWorker' /\ ShutdownInOrder'
    BY <1>1, InsideAsk DEF AskStates
  <1>3. ChatTypeOK'
    BY <1>1, <1>2 DEF ChatInv, ChatTypeOK, AskStates
  <1>4. \A q \in Task : q # Running => promise'[q] = promise[q]
    BY <1>1 DEF ChatInv, ChatTypeOK
  <1>5. AliveWaits'
    <2>1. ASSUME NEW q \in Task, TaskAlive(q)' PROVE TaskAlive(q) /\ q # Running
      BY <1>1, <1>2, <2>1, AliveFacts
    <2> QED
      BY <1>1, <1>4, <2>1 DEF ChatInv, AliveWaits
  <1>6. FreshRequests' /\ OnlyWithheldIsCut' /\ TokenIsWanted' /\ StreamShape'
    BY <1>1, <1>2, <1>4
    DEF ChatInv, FreshRequests, OnlyWithheldIsCut, TokenIsWanted, StreamShape
  <1>7. StreamSoFar'
    BY <1>1, <1>2 DEF ChatInv, StreamSoFar, Streams
  <1> QED
    BY <1>2, <1>3, <1>5, <1>6, <1>7 DEF ChatInv

\* What every other step of ask() keeps.
LEMMA AskStepFrame ==
    ASSUME QueueInv, ChatInv, worker = "run", ask \notin {"cite", "settled"},
           UNCHANGED <<queueVars, server, handler, connected, promise>>,
           ask' \in AskStates \ {"none", "settled"},
           \A q \in Task : q # Running => sent'[q] = sent[q]
    PROVE  /\ Running \in Task /\ handler[Running] = "waiting" /\ ~stopRequested
           /\ OnlyTokens(sent[Running])
           /\ AskFollowsWorker' /\ AliveWaits' /\ FreshRequests' /\ ShutdownInOrder'
           /\ \A q \in Task : /\ Runs(q)' <=> q = Running
                              /\ Runs(q) <=> q = Running
                              /\ q # Running => (Streams(q)' <=> Streams(q))
  <1>1. /\ Running \in Task
        /\ handler[Running] = "waiting" /\ ~stopRequested
        /\ \A q \in Task : /\ InQueue(q)' <=> InQueue(q)
                           /\ Runs(q) <=> q = Running
                           /\ Runs(q)' <=> q = Running
        /\ ~InQueue(Running)
        /\ AskFollowsWorker' /\ ShutdownInOrder'
    BY InsideAsk
  <1>2. OnlyTokens(sent[Running])
    BY <1>1 DEF ChatInv, StreamSoFar, Streams
  <1>3. AliveWaits'
    <2>1. \A q \in Task : TaskAlive(q)' => TaskAlive(q)
      BY <1>1, AliveFacts
    <2> QED
      BY <2>1 DEF ChatInv, AliveWaits
  <1>4. FreshRequests'
    BY <1>1 DEF ChatInv, FreshRequests
  <1> QED
    BY <1>1, <1>2, <1>3, <1>4 DEF Streams

\* The phases before the answer.
LEMMA PhaseKeepsInv ==
    ASSUME QueueInv, ChatInv, worker = "run", ask \in {"retrieve", "rerank", "prefill"},
           NEW next \in {"rerank", "prefill", "decode"}, AskGoesTo(next)
    PROVE  ChatInv'
  <1>1. /\ ask' = next
        /\ UNCHANGED <<queueVars, server, handler, connected, promise, clientStop, sent,
                       generated, cut, withheld>>
    BY DEF AskGoesTo
  <1>2. /\ OnlyTokens(sent[Running])
        /\ AskFollowsWorker' /\ AliveWaits' /\ FreshRequests' /\ ShutdownInOrder'
        /\ \A q \in Task : /\ q # Running => (Streams(q)' <=> Streams(q))
    BY <1>1, AskStepFrame DEF AskStates
  <1>3. ChatTypeOK'
    BY <1>1 DEF ChatInv, ChatTypeOK, AskStates
  <1>4. OnlyWithheldIsCut' /\ TokenIsWanted' /\ StreamShape'
    BY <1>1 DEF ChatInv, OnlyWithheldIsCut, TokenIsWanted, StreamShape
  <1>5. StreamSoFar'
    BY <1>1, <1>2 DEF ChatInv, StreamSoFar
  <1> QED
    BY <1>2, <1>3, <1>4, <1>5 DEF ChatInv

\* The generation ends, early only when the request's own source was used:
\* nobody stops the queue while a handler waits.
LEMMA EndGenerationKeepsInv ==
    ASSUME QueueInv, ChatInv, worker = "run", ask \in {"prefill", "decode"},
           NEW next \in {"cite", "flush"}, NEW early \in BOOLEAN,
           early => StopSeen(Running), EndGeneration(next, early)
    PROVE  ChatInv'
  <1>1. /\ cut' = [cut EXCEPT ![Running] = early] /\ ask' = next
        /\ UNCHANGED <<queueVars, server, handler, connected, promise, clientStop, sent,
                       generated, withheld>>
    BY DEF EndGeneration
  <1>2. /\ Running \in Task /\ ~stopRequested
        /\ OnlyTokens(sent[Running])
        /\ AskFollowsWorker' /\ AliveWaits' /\ FreshRequests' /\ ShutdownInOrder'
        /\ \A q \in Task : /\ q # Running => (Streams(q)' <=> Streams(q))
    BY <1>1, AskStepFrame DEF AskStates
  <1>3. ChatTypeOK'
    BY <1>1 DEF ChatInv, ChatTypeOK, AskStates
  <1>4. OnlyWithheldIsCut'
    <2>1. early => withheld[Running]
      BY <1>2 DEF StopSeen, ChatInv, OnlyWithheldIsCut
    <2> QED
      BY <1>1, <1>2, <2>1 DEF ChatInv, ChatTypeOK, OnlyWithheldIsCut
  <1>5. TokenIsWanted' /\ StreamShape'
    BY <1>1 DEF ChatInv, TokenIsWanted, StreamShape
  <1>6. StreamSoFar'
    BY <1>1, <1>2 DEF ChatInv, StreamSoFar
  <1> QED
    BY <1>2, <1>3, <1>4, <1>5, <1>6 DEF ChatInv

\* A token is sampled: no stop was seen, so none was withheld before.
LEMMA DecodeKeepsInv ==
    ASSUME QueueInv, ChatInv, Decode
    PROVE  ChatInv'
  <1>1. /\ worker = "run" /\ ask = "decode" /\ ~StopSeen(Running)
        /\ generated' = generated + 1 /\ ask' = "emit"
        /\ UNCHANGED <<queueVars, server, handler, connected, promise, clientStop, sent,
                       cut, withheld>>
    BY DEF Decode
  <1>2. /\ Running \in Task
        /\ OnlyTokens(sent[Running])
        /\ AskFollowsWorker' /\ AliveWaits' /\ FreshRequests' /\ ShutdownInOrder'
        /\ \A q \in Task : /\ Runs(q)' <=> q = Running
                           /\ q # Running => (Streams(q)' <=> Streams(q))
    BY <1>1, AskStepFrame DEF AskStates
  <1>3. ChatTypeOK'
    BY <1>1 DEF ChatInv, ChatTypeOK, AskStates
  <1>4. TokenIsWanted'
    <2>1. ~withheld[Running]
      BY <1>1, <1>2 DEF StopSeen, ChatInv, OnlyWithheldIsCut
    <2> QED
      BY <1>1, <1>2, <2>1 DEF TokenIsWanted
  <1>5. OnlyWithheldIsCut' /\ StreamShape'
    BY <1>1 DEF ChatInv, OnlyWithheldIsCut, StreamShape
  <1>6. StreamSoFar'
    BY <1>1, <1>2 DEF ChatInv, StreamSoFar
  <1> QED
    BY <1>2, <1>3, <1>4, <1>5, <1>6 DEF ChatInv

\* What the callback does for a token it cannot write.
WithholdIfNot(writable) ==
    /\ StopIfNot(writable)
    /\ withheld' = [withheld EXCEPT ![Running] = @ \/ ~writable]

\* The stop source is used and the token withheld together.
LEMMA WithholdFacts ==
    ASSUME ChatTypeOK, OnlyWithheldIsCut, Running \in Streaming, NEW writable \in BOOLEAN,
           WithholdIfNot(writable), cut' = cut
    PROVE  /\ clientStop' \in [Task -> BOOLEAN] /\ withheld' \in [Task -> BOOLEAN]
           /\ OnlyWithheldIsCut'
           /\ writable => withheld' = withheld
  <1>1. Running \in Task
    BY ChatAssumption
  <1>2. /\ clientStop' = [clientStop EXCEPT ![Running] = clientStop[Running] \/ ~writable]
        /\ withheld' = [withheld EXCEPT ![Running] = withheld[Running] \/ ~writable]
    BY DEF WithholdIfNot, StopIfNot
  <1>3. clientStop[Running] \in BOOLEAN /\ withheld[Running] \in BOOLEAN
    BY <1>1 DEF ChatTypeOK
  <1>4. /\ clientStop' \in [Task -> BOOLEAN] /\ withheld' \in [Task -> BOOLEAN]
    BY <1>1, <1>2, <1>3 DEF ChatTypeOK
  <1>5. writable => withheld' = withheld
    BY <1>1, <1>2, <1>3 DEF ChatTypeOK
  <1>6. ASSUME NEW q \in Task
        PROVE  /\ clientStop'[q] <=> withheld'[q]
               /\ withheld'[q] => q \in Streaming
               /\ cut'[q] => withheld'[q]
    <2>1. CASE q = Running
      BY <1>1, <1>2, <1>3, <2>1 DEF ChatTypeOK, OnlyWithheldIsCut
    <2>2. CASE q # Running
      BY <1>1, <1>2, <2>2 DEF ChatTypeOK, OnlyWithheldIsCut
    <2> QED
      BY <2>1, <2>2
  <1> QED
    BY <1>4, <1>5, <1>6 DEF OnlyWithheldIsCut

\* The callback decides whether the token is written.
LEMMA EmitKeepsInv ==
    ASSUME QueueInv, ChatInv, Emit
    PROVE  ChatInv'
  <1>1. /\ worker = "run" /\ ask = "emit"
        /\ ask' \in {"write", "decode"}
        /\ UNCHANGED <<queueVars, server, handler, connected, promise, sent, generated, cut>>
    BY DEF Emit
  <1>2. /\ Running \in Task
        /\ OnlyTokens(sent[Running])
        /\ AskFollowsWorker' /\ AliveWaits' /\ FreshRequests' /\ ShutdownInOrder'
        /\ \A q \in Task : /\ Runs(q)' <=> q = Running
                           /\ Runs(q) <=> q = Running
                           /\ q # Running => (Streams(q)' <=> Streams(q))
    BY <1>1, AskStepFrame DEF AskStates
  <1>3. StreamSoFar'
    BY <1>1, <1>2 DEF ChatInv, StreamSoFar
  <1>4. ~withheld[Running]
    BY <1>1, <1>2 DEF ChatInv, TokenIsWanted
  <1>5. /\ clientStop' \in [Task -> BOOLEAN] /\ withheld' \in [Task -> BOOLEAN]
        /\ OnlyWithheldIsCut' /\ TokenIsWanted'
    <2>1. CASE Running \notin Streaming
      <3>1. ask' = "decode" /\ UNCHANGED <<clientStop, withheld>>
        BY <2>1 DEF Emit
      <3> QED
        BY <1>1, <3>1 DEF ChatInv, ChatTypeOK, OnlyWithheldIsCut, TokenIsWanted
    <2>2. CASE Running \in Streaming
      <3>1. PICK writable \in BOOLEAN :
                /\ ask' = IF writable THEN "write" ELSE "decode"
                /\ WithholdIfNot(writable)
        BY <2>2 DEF Emit, WithholdIfNot
      <3>2. /\ clientStop' \in [Task -> BOOLEAN] /\ withheld' \in [Task -> BOOLEAN]
            /\ OnlyWithheldIsCut'
            /\ writable => withheld' = withheld
        BY <1>1, <2>2, <3>1, WithholdFacts DEF ChatInv
      <3>3. TokenIsWanted'
        BY <1>2, <1>4, <3>1, <3>2 DEF TokenIsWanted
      <3> QED
        BY <3>2, <3>3
    <2> QED
      BY <2>1, <2>2
  <1>6. ChatTypeOK' /\ StreamShape'
    BY <1>1, <1>5 DEF ChatInv, ChatTypeOK, StreamShape, AskStates
  <1> QED
    BY <1>2, <1>3, <1>5, <1>6 DEF ChatInv

\* The token is written.
LEMMA WriteTokenKeepsInv ==
    ASSUME QueueInv, ChatInv, WriteToken
    PROVE  ChatInv'
  <1>1. /\ worker = "run" /\ ask = "write" /\ ask' = "decode"
        /\ Write(Running, "token")
        /\ UNCHANGED <<queueVars, server, handler, connected, promise, clientStop, generated,
                       cut, withheld>>
    BY DEF WriteToken
  <1>2. Running \in Task
    BY <1>1, RunningFacts DEF ChatInv
  <1>3. /\ sent' \in [Task -> Seq(Event)]
        /\ \A q \in Task : q # Running => sent'[q] = sent[q]
        /\ sent'[Running] = IF connected[Running] THEN Append(sent[Running], "token")
                                                  ELSE sent[Running]
    BY <1>1, <1>2, WriteFacts DEF ChatInv, Event
  <1>4. /\ handler[Running] = "waiting"
        /\ OnlyTokens(sent[Running])
        /\ AskFollowsWorker' /\ AliveWaits' /\ FreshRequests' /\ ShutdownInOrder'
        /\ \A q \in Task : /\ q # Running => (Streams(q)' <=> Streams(q))
    BY <1>1, <1>3, AskStepFrame DEF AskStates
  <1>5. WellFormed(sent'[Running]) /\ OnlyTokens(sent'[Running]) /\ OnlyAnswer(sent'[Running])
    BY <1>2, <1>3, <1>4, AppendToAnswer, AnswerFacts
    DEF ChatInv, ChatTypeOK, StreamShape
  <1>6. StreamSoFar'
    BY <1>1, <1>3, <1>4, <1>5, EpilogueFacts DEF ChatInv, StreamSoFar
  <1>7. StreamShape' /\ OnlyWithheldIsCut' /\ TokenIsWanted' /\ ChatTypeOK'
    BY <1>1, <1>3, <1>5
    DEF ChatInv, ChatTypeOK, StreamShape, OnlyWithheldIsCut, TokenIsWanted, AskStates
  <1> QED
    BY <1>4, <1>6, <1>7 DEF ChatInv

\* The rest of the last character, if there is one, goes the same way.
LEMMA FlushKeepsInv ==
    ASSUME QueueInv, ChatInv, Flush
    PROVE  ChatInv'
  <1>1. /\ worker = "run" /\ ask = "flush" /\ ask' = "cite"
        /\ UNCHANGED <<queueVars, server, handler, connected, promise, generated, cut>>
    BY DEF Flush
  <1>2. Running \in Task
    BY <1>1, RunningFacts DEF ChatInv
  <1>3. OnlyTokens(sent[Running])
    BY <1>1, <1>2, RunningFacts DEF ChatInv, StreamSoFar, Streams
  <1>4. /\ clientStop' \in [Task -> BOOLEAN] /\ withheld' \in [Task -> BOOLEAN]
        /\ OnlyWithheldIsCut'
    <2>1. CASE UNCHANGED <<clientStop, withheld>>
      BY <1>1, <2>1 DEF ChatInv, ChatTypeOK, OnlyWithheldIsCut
    <2>2. ASSUME Running \in Streaming, NEW writable \in BOOLEAN, WithholdIfNot(writable)
          PROVE  /\ clientStop' \in [Task -> BOOLEAN] /\ withheld' \in [Task -> BOOLEAN]
                 /\ OnlyWithheldIsCut'
      BY <1>1, <2>2, WithholdFacts DEF ChatInv
    <2> QED
      BY <2>1, <2>2 DEF Flush, WithholdIfNot
  <1>5. /\ sent' \in [Task -> Seq(Event)]
        /\ \A q \in Task : q # Running => sent'[q] = sent[q]
        /\ WellFormed(sent'[Running]) /\ OnlyAnswer(sent'[Running])
    <2>1. CASE UNCHANGED sent
      BY <1>2, <1>3, <2>1, AnswerFacts DEF ChatInv, ChatTypeOK, StreamShape
    <2>2. CASE Write(Running, "rest")
      <3>1. /\ sent' \in [Task -> Seq(Event)]
            /\ \A q \in Task : q # Running => sent'[q] = sent[q]
            /\ sent'[Running] = IF connected[Running] THEN Append(sent[Running], "rest")
                                                      ELSE sent[Running]
        BY <1>2, <2>2, WriteFacts DEF ChatInv, Event
      <3> QED
        BY <1>2, <1>3, <3>1, AppendToAnswer, AnswerFacts
        DEF ChatInv, ChatTypeOK, StreamShape
    <2> QED
      BY <2>1, <2>2 DEF Flush
  <1>6. /\ handler[Running] = "waiting"
        /\ AskFollowsWorker' /\ AliveWaits' /\ FreshRequests' /\ ShutdownInOrder'
        /\ \A q \in Task : /\ Runs(q)' <=> q = Running
                           /\ q # Running => (Streams(q)' <=> Streams(q))
    BY <1>1, <1>5, AskStepFrame DEF AskStates
  <1>7. \A q \in Task : q = Running => ~Streams(q)'
    BY <1>1, <1>2, RunningFacts, OthersMoveNothing DEF ChatInv, Streams, queueVars
  <1>8. StreamSoFar'
    BY <1>1, <1>5, <1>6, <1>7, EpilogueFacts DEF ChatInv, StreamSoFar
  <1>9. StreamShape' /\ TokenIsWanted' /\ ChatTypeOK'
    BY <1>1, <1>4, <1>5 DEF ChatInv, ChatTypeOK, StreamShape, TokenIsWanted, AskStates
  <1> QED
    BY <1>4, <1>6, <1>8, <1>9 DEF ChatInv

\* The task returns to the worker's loop.
LEMMA ReturnKeepsInv ==
    ASSUME QueueInv, ChatInv, Return
    PROVE  ChatInv'
  <1>1. /\ ask = "settled" /\ ask' = "none" /\ generated' = 0
        /\ worker = "run" /\ worker' = "top"
        /\ UNCHANGED <<tasks, log, taken, stopper>>
        /\ UNCHANGED <<server, handler, connected, promise, clientStop, sent, cut, withheld>>
    BY DEF Return, FinishTask
  <1>2. \A q \in Task : (InQueue(q)' <=> InQueue(q)) /\ ~Runs(q)'
    BY <1>1 DEF InQueue, Runs
  <1>3. \A q \in Task : (TaskAlive(q)' => TaskAlive(q)) /\ (Streams(q)' => Streams(q))
    BY <1>2, AliveFacts DEF Streams
  <1>4. ChatTypeOK' /\ AskFollowsWorker' /\ ShutdownInOrder' /\ StreamShape'
    BY <1>1
    DEF ChatInv, ChatTypeOK, AskFollowsWorker, ShutdownInOrder, StreamShape, AskStates
  <1>5. AliveWaits' /\ FreshRequests' /\ OnlyWithheldIsCut' /\ TokenIsWanted'
    BY <1>1, <1>2, <1>3
    DEF ChatInv, AliveWaits, FreshRequests, OnlyWithheldIsCut, TokenIsWanted
  <1>6. StreamSoFar'
    BY <1>1, <1>3 DEF ChatInv, StreamSoFar
  <1> QED
    BY <1>4, <1>5, <1>6 DEF ChatInv

\* Every step inside ask().
LEMMA AskKeepsInv ==
    ASSUME QueueInv, ChatInv, AskStep
    PROVE  ChatInv'
  <1>1. CASE Throw \/ Cite
    BY <1>1, SettleKeepsInv DEF Throw, Cite
  <1>2. CASE Retrieve \/ Rerank
    BY <1>2, PhaseKeepsInv DEF Retrieve, Rerank
  <1>3. CASE Prefill
    BY <1>3, PhaseKeepsInv, EndGenerationKeepsInv DEF Prefill
  <1>4. CASE DecodeEnds
    BY <1>4, EndGenerationKeepsInv DEF DecodeEnds
  <1>5. CASE Decode \/ Emit \/ WriteToken \/ Flush \/ Return
    BY <1>5, DecodeKeepsInv, EmitKeepsInv, WriteTokenKeepsInv, FlushKeepsInv, ReturnKeepsInv
  <1> QED
    BY <1>1, <1>2, <1>3, <1>4, <1>5 DEF AskStep

\* The shutdown: listen() returns when no handler is left, and only then is
\* the queue stopped.
LEMMA ShutdownKeepsInv ==
    ASSUME QueueInv, ChatInv, StopServer \/ ListenReturns \/ DestroyQueue
    PROVE  ChatInv'
  <1>1. CASE StopServer \/ ListenReturns
    <2>1. /\ server' \in {"stopping", "returned"}
          /\ server' = "returned" => \A r \in Task : handler[r] \in {"idle", "closed"}
          /\ server # "returned"
          /\ UNCHANGED <<queueVars, handler, connected, promise, clientStop, sent, ask,
                         generated, cut, withheld>>
      BY <1>1 DEF StopServer, ListenReturns
    <2>2. UNCHANGED <<tasks, worker, log, taken, stopper>>
      BY <2>1 DEF queueVars
    <2>3. ChatTypeOK' /\ ShutdownInOrder'
      BY <2>1, <2>2 DEF ChatInv, ChatTypeOK, ShutdownInOrder
    <2>4. /\ AskFollowsWorker' /\ AliveWaits' /\ FreshRequests' /\ OnlyWithheldIsCut'
          /\ TokenIsWanted' /\ StreamSoFar' /\ StreamShape'
      BY <2>1, <2>2
      DEF ChatInv, AskFollowsWorker, AliveWaits, FreshRequests, OnlyWithheldIsCut,
          TokenIsWanted, StreamSoFar, StreamShape, Streams, InQueue, TaskAlive, Runs, Running
    <2> QED
      BY <2>3, <2>4 DEF ChatInv
  <1>2. CASE DestroyQueue
    <2>1. /\ server = "returned" /\ UNCHANGED chatVars
          /\ UNCHANGED <<tasks, log, taken>>
          /\ worker' = "run" <=> worker = "run"
      BY <1>2 DEF DestroyQueue, QueueMayBeDestroyed, StopClose, StopStep, StopRequest,
                  StopNotify, Join, Woken
    <2> QED
      BY <2>1, IdleWorkerKeepsInv
  <1> QED
    BY <1>1, <1>2

\* The start of the process.
LEMMA InitEstablishesChatInv == Init => ChatInv
  <1> SUFFICES ASSUME Init PROVE ChatInv
    OBVIOUS
  <1>1. Len(tasks) = 0 /\ worker = "top" /\ stopper = "none"
    BY DEF Init, QueueInit
  <1>2. ChatTypeOK
    BY EmptySeq DEF Init, ChatTypeOK, HandlerStates, AskStates
  <1>3. AskFollowsWorker /\ FreshRequests /\ ShutdownInOrder /\ OnlyWithheldIsCut
    BY <1>1 DEF Init, AskFollowsWorker, FreshRequests, ShutdownInOrder, OnlyWithheldIsCut
  <1>4. \A r \in Task : ~InQueue(r) /\ ~Runs(r)
    BY <1>1 DEF InQueue, Runs
  <1>5. AliveWaits /\ TokenIsWanted
    BY <1>4, AliveFacts DEF AliveWaits, TokenIsWanted
  <1>6. StreamSoFar /\ StreamShape
    BY <1>4, EmptyStream, EpilogueFacts DEF Init, StreamSoFar, StreamShape, Streams
  <1> QED
    BY <1>2, <1>3, <1>5, <1>6 DEF ChatInv

\* Every step of the server keeps the invariant.
LEMMA NextKeepsChatInv == QueueInv /\ ChatInv /\ [Next]_vars => ChatInv'
  <1> SUFFICES ASSUME QueueInv, ChatInv, [Next]_vars PROVE ChatInv'
    OBVIOUS
  <1>1. ASSUME NEW r \in Task, Arrive(r) \/ Submit(r) \/ GetResult(r) \/ Respond(r)
        PROVE  ChatInv'
    BY <1>1, ArriveKeepsInv, SubmitKeepsInv, GetResultKeepsInv, RespondKeepsInv
  <1>2. CASE OtherStep
    <2>1. ASSUME NEW r \in Task, Disconnect(r) PROVE ChatInv'
      BY <2>1, DisconnectKeepsInv
    <2>2. CASE WorkerThread
      <3>1. CASE (WorkerTop \/ WorkerWait) /\ UNCHANGED chatVars
        BY <3>1, IdleWorkerKeepsInv DEF WorkerTop, WorkerWait, TopGoesTo, WaitGoesTo
      <3> QED
        BY <2>2, <3>1, TakeKeepsInv, AskKeepsInv DEF WorkerThread
    <2>3. CASE SpuriousWake /\ UNCHANGED chatVars
      BY <2>3, IdleWorkerKeepsInv DEF SpuriousWake
    <2>4. CASE StopServer \/ ListenReturns \/ DestroyQueue
      BY <2>4, ShutdownKeepsInv
    <2>5. CASE UNCHANGED vars
      BY <2>5, IdleWorkerKeepsInv DEF vars, queueVars
    <2> QED
      BY <1>2, <2>1, <2>2, <2>3, <2>4, <2>5 DEF OtherStep
  <1> QED
    BY <1>1, <1>2, NextCases

\* The inductive invariant of the whole server.  It needs that of the queue:
\* the request that runs is the one popped last, and is in the queue no more.
THEOREM ChatInvariant == Safety => [](QueueInv /\ ChatInv)
  <1>1. Safety => []QueueInv
    BY ServerUsesTheQueue, QueueInvariant, PTL
  <1>2. Init => ChatInv
    BY InitEstablishesChatInv
  <1> QED
    BY <1>1, <1>2, NextKeepsChatInv, PTL DEF Safety

-----------------------------------------------------------------------------
(***************************************************************************)
(* What follows for the clients.                                           *)
(***************************************************************************)
\* A task that waits or runs refers to the sink of a handler that is blocked
\* in result.get(): the worker never writes to a destroyed sink, nor at the
\* same time as the handler.
THEOREM SinksOutliveTasks == Safety => []SinkOutlivesTask
  <1>1. ChatInv => SinkOutlivesTask
    BY DEF ChatInv, AliveWaits, SinkOutlivesTask
  <1> QED
    BY <1>1, ChatInvariant, PTL

\* The stream of every client is tokens, at most one rest, and one ending.
THEOREM StreamsAreWellFormed == Safety => []StreamShape
  <1>1. ChatInv => StreamShape
    BY DEF ChatInv
  <1> QED
    BY <1>1, ChatInvariant, PTL

\* "done" is only told after a whole answer, unless a token was withheld from
\* a client that was too slow: no stop of the server or of another request
\* cuts an answer short.
THEOREM DoneIsComplete == Safety => []DoneMeansComplete
  <1>1. ChatInv => DoneMeansComplete
    BY DEF ChatInv, OnlyWithheldIsCut, DoneMeansComplete
  <1> QED
    BY <1>1, ChatInvariant, PTL

\* Only the worker's write adds a token to a stream.
LEMMA OnlyWriteTokenAddsTokens ==
    ASSUME ChatInv, QueueInv, [Next]_vars, NEW r \in Task
    PROVE  \/ TokensSent(r)' = TokensSent(r)
           \/ Runs(r) /\ ask = "write"
  <1>1. CASE sent' = sent
    BY <1>1 DEF TokensSent
  <1>2. ASSUME NEW q \in Task, NEW e \in Event \ {"token"}, Write(q, e)
        PROVE  TokensSent(r)' = TokensSent(r)
    <2>1. /\ \A p \in Task : p # q => sent'[p] = sent[p]
          /\ sent'[q] = IF connected[q] THEN Append(sent[q], e) ELSE sent[q]
      BY <1>2, WriteFacts DEF ChatInv
    <2>2. CASE sent'[r] = sent[r]
      BY <2>2 DEF TokensSent
    <2>3. CASE r = q /\ connected[q]
      <3>1. sent[r] \in Seq(Event)
        BY DEF ChatInv, ChatTypeOK
      <3>2. /\ Len(sent[r]) \in Nat
            /\ Len(sent'[r]) = Len(sent[r]) + 1
            /\ \A i \in 1..Len(sent[r]) : sent'[r][i] = sent[r][i]
            /\ sent'[r][Len(sent[r]) + 1] = e
        BY <2>1, <2>3, <3>1, AppendFacts
      <3> QED
        BY <3>2 DEF TokensSent
    <2> QED
      BY <2>1, <2>2, <2>3
  <1>3. CASE WriteToken
    <2>1. Running \in Task /\ Runs(Running)
      BY <1>3, RunningFacts DEF ChatInv, WriteToken
    <2>2. r # Running => sent'[r] = sent[r]
      BY <1>3, <2>1, WriteFacts DEF ChatInv, WriteToken, Event
    <2> QED
      BY <1>3, <2>1, <2>2 DEF WriteToken, TokensSent
  <1>4. CASE Flush
    <2>1. Running \in Task
      BY <1>4, RunningFacts DEF ChatInv, Flush
    <2>2. sent' = sent \/ Write(Running, "rest")
      BY <1>4 DEF Flush
    <2> QED
      BY <1>1, <1>2, <2>1, <2>2 DEF Event
  <1>5. ASSUME NEW q \in Task, Respond(q) PROVE TokensSent(r)' = TokensSent(r)
    BY <1>2, <1>5, EpilogueFacts DEF Respond, Event
  <1>6. ASSUME NEW q \in Task, Arrive(q) \/ Submit(q) \/ GetResult(q) PROVE sent' = sent
    BY <1>6 DEF Arrive, Submit, GetResult
  <1>7. CASE OtherStep /\ ~WriteToken /\ ~Flush
    BY <1>1, <1>7
    DEF OtherStep, Disconnect, WorkerThread, Take, AskStep, Throw, Retrieve, Rerank, Prefill,
        DecodeEnds, Decode, Emit, Cite, Return, Settle, AskGoesTo, EndGeneration, StopServer,
        ListenReturns, DestroyQueue, chatVars, vars
  <1> QED
    BY <1>1, <1>3, <1>4, <1>5, <1>6, <1>7, NextCases

\* Once a token was withheld from a client, none follows: what it has is the
\* beginning of the answer without a gap.
THEOREM NoGapInAStream == Safety => NoTokenAfterAWithheldOne
  <1>1. QueueInv /\ ChatInv /\ [Next]_vars
            => \A r \in Streaming : withheld[r] => TokensSent(r)' = TokensSent(r)
    BY OnlyWriteTokenAddsTokens, ChatAssumption DEF ChatInv, TokenIsWanted
  <1>2. QueueInv /\ ChatInv /\ [Next]_vars
            => [\A r \in Streaming : withheld[r] => TokensSent(r)' = TokensSent(r)]_vars
    BY <1>1
  <1> QED
    BY <1>2, ChatInvariant, PTL DEF Safety, NoTokenAfterAWithheldOne
=============================================================================
