----------------------------- MODULE ChatServer -----------------------------
(***************************************************************************)
(* POST /v1/chat/completions end to end: the HTTP handler threads, the     *)
(* GenerationQueue between them and the single worker that runs ask(), the *)
(* promise and the DataSink they share, clients that go away, and the      *)
(* shutdown of the process (HttpServer first, then the queue).             *)
(*                                                                         *)
(* A request is a task of the queue.  The task of a streaming request      *)
(* holds a reference to the handler's sink and writes token events to it   *)
(* while the handler blocks in result.get().                               *)
(***************************************************************************)
EXTENDS GenerationQueue

CONSTANTS
    Streaming,  \* the requests with "stream": true
    MaxTokens   \* the token limit of one answer

ASSUME ChatAssumption == Streaming \subseteq Task /\ MaxTokens \in Nat

VARIABLES
    server,     \* "listening", "stopping" (HttpServer::stop) or "returned"
    handler,    \* request -> where its HTTP thread is: "idle", "submit",
                \* "waiting", a state of Epilogue or "closed"
    connected,  \* request -> the client still reads
    promise,    \* request -> "empty", "value" or "exception"
    clientStop, \* request -> its stop_source has been used
    sent,       \* request -> what has reached the client
    ask,        \* where the worker is inside ask(): "none", "retrieve", "rerank",
                \* "prefill", "decode", "emit", "write", "flush", "cite", "settled"
    generated,  \* tokens sampled by the running ask()
    cut,        \* request -> a stop token ended its generation early
    withheld    \* request -> is_writable() was false at one of its tokens

chatVars == <<server, handler, connected, promise, clientStop, sent, ask,
              generated, cut, withheld>>

vars == <<queueVars, chatVars>>

(***************************************************************************)
(* After its last decision a handler only writes: a state of this function *)
(* is named after what it writes and mapped to the state that follows.     *)
(***************************************************************************)
Epilogue == [citations  |-> "metrics",
             metrics    |-> "done",
             done       |-> "closed",
             json       |-> "closed",
             error      |-> "closed",
             queue_full |-> "closed",
             rejected   |-> "closed"]

\* A "rest" is a token event too: what is left of the answer's last bytes.
Event == {"token", "rest"} \cup DOMAIN Epilogue

Init ==
    /\ QueueInit
    /\ server = "listening"
    /\ handler = [r \in Task |-> "idle"]
    /\ connected = [r \in Task |-> TRUE]
    /\ promise = [r \in Task |-> "empty"]
    /\ clientStop = [r \in Task |-> FALSE]
    /\ sent = [r \in Task |-> << >>]
    /\ ask = "none"
    /\ generated = 0
    /\ cut = [r \in Task |-> FALSE]
    /\ withheld = [r \in Task |-> FALSE]

\* A write to a sink whose client is gone is lost; its result is ignored.
\* A client is also gone when a write to it times out: httplib drops what
\* follows.
Write(r, event) ==
    sent' = IF connected[r] THEN [sent EXCEPT ![r] = Append(@, event)] ELSE sent

-----------------------------------------------------------------------------
(***************************************************************************)
(* The HTTP threads.                                                       *)
(***************************************************************************)

\* A request arrives and passes the readiness test and the parsing of its
\* body, or is answered 503 or 400 at once.
Arrive(r) ==
    /\ server # "returned"
    /\ handler[r] = "idle"
    /\ \E next \in {"submit", "rejected"} : handler' = [handler EXCEPT ![r] = next]
    /\ UNCHANGED <<queueVars, server, connected, promise, clientStop, sent, ask,
                   generated, cut, withheld>>

Submit(r) ==
    /\ handler[r] = "submit"
    /\ \E ok \in BOOLEAN :
          /\ TrySubmit(r, ok)
          /\ handler' = [handler EXCEPT ![r] = IF ok THEN "waiting" ELSE "queue_full"]
    /\ UNCHANGED <<server, connected, promise, clientStop, sent, ask, generated,
                   cut, withheld>>

\* Mutant: the handler gives up waiting (wait_for instead of get).
ResultReadyOrTimeout(r) == TRUE

ResultReady(r) == promise[r] # "empty"

\* result.get() returns the value or rethrows the exception.
GetResult(r) ==
    /\ handler[r] = "waiting"
    /\ ResultReady(r)
    /\ handler' = [handler EXCEPT ![r] =
                      IF promise[r] = "exception" THEN "error"
                      ELSE IF r \in Streaming THEN "citations" ELSE "json"]
    /\ UNCHANGED <<queueVars, server, connected, promise, clientStop, sent, ask,
                   generated, cut, withheld>>

Respond(r) ==
    /\ handler[r] \in DOMAIN Epilogue
    /\ Write(r, handler[r])
    /\ handler' = [handler EXCEPT ![r] = Epilogue[handler[r]]]
    /\ UNCHANGED <<queueVars, server, connected, promise, clientStop, ask,
                   generated, cut, withheld>>

Disconnect(r) ==
    /\ handler[r] \notin {"idle", "closed"}
    /\ connected[r]
    /\ connected' = [connected EXCEPT ![r] = FALSE]
    /\ UNCHANGED <<queueVars, server, handler, promise, clientStop, sent, ask,
                   generated, cut, withheld>>

-----------------------------------------------------------------------------
(***************************************************************************)
(* The worker thread inside the task of the request it took last.          *)
(***************************************************************************)
Running == log[taken]

\* A streaming task bridges the worker's token to the request's own source.
StopSeen(r) == stopRequested \/ (r \in Streaming /\ clientStop[r])

Take ==
    /\ WorkerTake
    /\ ask' = "retrieve"
    /\ UNCHANGED <<server, handler, connected, promise, clientStop, sent,
                   generated, cut, withheld>>

AskGoesTo(next) ==
    /\ ask' = next
    /\ UNCHANGED <<queueVars, server, handler, connected, promise, clientStop,
                   sent, generated, cut, withheld>>

Settle(result) ==
    /\ promise' = [promise EXCEPT ![Running] = result]
    /\ ask' = "settled"
    /\ UNCHANGED <<queueVars, server, handler, connected, clientStop, sent, generated,
                   cut, withheld>>

\* Any phase of ask() may throw; the task stores the exception.
Throw ==
    /\ worker = "run"
    /\ ask \in {"retrieve", "rerank", "prefill", "decode", "cite"}
    /\ Settle("exception")

\* Retrieval and reranking never look at the stop token.
Retrieve ==
    /\ worker = "run" /\ ask = "retrieve"
    /\ AskGoesTo("rerank")

Rerank ==
    /\ worker = "run" /\ ask = "rerank"
    /\ AskGoesTo("prefill")

EndGeneration(next, early) ==
    /\ cut' = [cut EXCEPT ![Running] = early]
    /\ ask' = next
    /\ UNCHANGED <<queueVars, server, handler, connected, promise, clientStop, sent,
                   generated, withheld>>

Prefill ==
    /\ worker = "run" /\ ask = "prefill"
    /\ IF StopSeen(Running) THEN EndGeneration("cite", TRUE) ELSE AskGoesTo("decode")

\* The head of the decoding loop: the token limit, the stop token, the end
\* of generation.
DecodeEnds ==
    /\ worker = "run" /\ ask = "decode"
    /\ \/ generated = MaxTokens /\ EndGeneration("flush", FALSE)
       \/ generated < MaxTokens /\ StopSeen(Running) /\ EndGeneration("flush", TRUE)
       \/ generated < MaxTokens /\ ~StopSeen(Running) /\ EndGeneration("flush", FALSE)

Decode ==
    /\ worker = "run" /\ ask = "decode"
    /\ generated < MaxTokens
    /\ ~StopSeen(Running)
    /\ generated' = generated + 1
    /\ ask' = "emit"
    /\ UNCHANGED <<queueVars, server, handler, connected, promise, clientStop,
                   sent, cut, withheld>>

\* Mutant: a token that cannot be written does not stop the generation.
GenerationGoesOn(writable) == UNCHANGED clientStop

StopIfNot(writable) == clientStop' = [clientStop EXCEPT ![Running] = @ \/ ~writable]

\* The token callback: the non-streaming one does nothing.  is_writable() is
\* false of a client that reads too slowly, and may be true for a while of
\* one that has left.
Emit ==
    /\ worker = "run" /\ ask = "emit"
    /\ IF Running \in Streaming
       THEN \E writable \in BOOLEAN :
               /\ ask' = IF writable THEN "write" ELSE "decode"
               /\ StopIfNot(writable)
               /\ withheld' = [withheld EXCEPT ![Running] = @ \/ ~writable]
       ELSE ask' = "decode" /\ UNCHANGED <<clientStop, withheld>>
    /\ UNCHANGED <<queueVars, server, handler, connected, promise, sent,
                   generated, cut>>

WriteToken ==
    /\ worker = "run" /\ ask = "write"
    /\ Write(Running, "token")
    /\ ask' = "decode"
    /\ UNCHANGED <<queueVars, server, handler, connected, promise, clientStop,
                   generated, cut, withheld>>

\* The end of generate() hands an incomplete last character to the callback,
\* also after a stop.
Flush ==
    /\ worker = "run" /\ ask = "flush"
    /\ \/ UNCHANGED <<clientStop, sent, withheld>>
       \/ /\ generated > 0 /\ Running \in Streaming
          /\ \E writable \in BOOLEAN :
                /\ StopIfNot(writable)
                /\ withheld' = [withheld EXCEPT ![Running] = @ \/ ~writable]
                /\ IF writable THEN Write(Running, "rest") ELSE UNCHANGED sent
    /\ ask' = "cite"
    /\ UNCHANGED <<queueVars, server, handler, connected, promise, generated, cut>>

\* The citations are put together and the promise is fulfilled.
Cite ==
    /\ worker = "run" /\ ask = "cite"
    /\ Settle("value")

Return ==
    /\ ask = "settled"
    /\ FinishTask
    /\ ask' = "none"
    /\ generated' = 0
    /\ UNCHANGED <<server, handler, connected, promise, clientStop, sent, cut, withheld>>

AskStep == Throw \/ Retrieve \/ Rerank \/ Prefill \/ DecodeEnds \/ Decode
              \/ Emit \/ WriteToken \/ Flush \/ Cite \/ Return

WorkerThread ==
    \/ Take
    \/ (WorkerTop \/ WorkerWait) /\ UNCHANGED chatVars
    \/ AskStep

-----------------------------------------------------------------------------
(***************************************************************************)
(* Shutdown.  listen() returns when its thread pool has been joined, and   *)
(* the scope of main then destroys the server before the queue.            *)
(***************************************************************************)
StopServer ==
    /\ server = "listening"
    /\ server' = "stopping"
    /\ UNCHANGED <<queueVars, handler, connected, promise, clientStop, sent, ask,
                   generated, cut, withheld>>

ListenReturns ==
    /\ server = "stopping"
    /\ \A r \in Task : handler[r] \in {"idle", "closed"}
    /\ server' = "returned"
    /\ UNCHANGED <<queueVars, handler, connected, promise, clientStop, sent, ask,
                   generated, cut, withheld>>

\* Mutant: the queue is declared after the server and destroyed before it.
QueueDestroyedFirst == server # "listening"

QueueMayBeDestroyed == server = "returned"

DestroyQueue ==
    /\ QueueMayBeDestroyed
    /\ StopClose \/ StopStep
    /\ UNCHANGED chatVars

-----------------------------------------------------------------------------
HandlerStep(r) == Submit(r) \/ GetResult(r) \/ Respond(r)

\* The process has ended.
Ended ==
    /\ stopper = "joined"
    /\ UNCHANGED vars

Next ==
    \/ \E r \in Task : Arrive(r) \/ HandlerStep(r) \/ Disconnect(r)
    \/ WorkerThread
    \/ SpuriousWake /\ UNCHANGED chatVars
    \/ StopServer
    \/ ListenReturns
    \/ DestroyQueue
    \/ Ended

Safety == Init /\ [][Next]_vars

(***************************************************************************)
(* The threads that exist are scheduled.  Clients need not send, read or   *)
(* leave, nobody has to stop the server, and no wake-up is spurious.       *)
(***************************************************************************)
Spec ==
    /\ Safety
    /\ \A r \in Task : WF_vars(HandlerStep(r))
    /\ WF_vars(WorkerThread)
    /\ WF_vars(ListenReturns)
    /\ WF_vars(DestroyQueue)

-----------------------------------------------------------------------------
\* The worker can still reach the task of r and, through it, r's sink.
TaskAlive(r) ==
    \/ \E i \in 1..Len(tasks) : tasks[i] = r
    \/ worker = "run" /\ ask # "settled" /\ Running = r

\* The sink a streaming task refers to lives in the frame of its handler:
\* as long as the task waits or runs, the handler is blocked in result.get(),
\* so the sink exists and the handler itself is not writing to it.
SinkOutlivesTask == \A r \in Task : TaskAlive(r) => handler[r] = "waiting"

\* Token events, the rest of the last character at most once, then one ending
\* in the order of the epilogue, and nothing after it.
WellFormed(events) ==
    \A i, j \in 1..Len(events) :
        /\ events[i] \in Event
        /\ (i < j /\ events[j] \in {"token", "rest"}) => events[i] = "token"
        /\ (i < j /\ events[i] \in DOMAIN Epilogue) => Epilogue[events[i]] = events[i + 1]

\* What a client receives is well formed, although two threads write the
\* stream.
StreamShape == \A r \in Task : WellFormed(sent[r])

\* A client that stayed to the end, was never too slow, and was told "done"
\* (or got its JSON answer) has the whole answer: no stop cut it short.
DoneMeansComplete ==
    \A r \in Task :
        (connected[r] /\ ~withheld[r] /\ handler[r] \in {"citations", "metrics", "done", "json"})
            => ~cut[r]

\* The places of the token events in the stream, which only grows at its end.
TokensSent(r) == {i \in 1..Len(sent[r]) : sent[r][i] = "token"}

\* Once a token was withheld from a slow or vanished client, its generation
\* is being stopped and no later token reaches it: apart from the rest of the
\* last character, what it has is the beginning of the answer without a gap.
NoTokenAfterAWithheldOne ==
    [][\A r \in Streaming : withheld[r] => TokensSent(r)' = TokensSent(r)]_vars

\* Every request that reaches the queue is answered and its thread freed:
\* no handler is left in result.get() by a dropped task or a shutdown.
EveryRequestEnds == \A r \in Task : handler[r] = "submit" ~> handler[r] = "closed"

\* Stopping the server ends the process.
ShutdownCompletes == server = "stopping" ~> stopper = "joined"
=============================================================================
