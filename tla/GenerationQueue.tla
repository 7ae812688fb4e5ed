--------------------------- MODULE GenerationQueue ---------------------------
(***************************************************************************)
(* llcl::GenerationQueue: a mutex, a condition variable, a bounded queue   *)
(* of tasks and one std::jthread that runs them.  A critical section of    *)
(* the mutex is one step, except that the worker's pop is separated from   *)
(* the test that precedes it (request_stop takes no lock and may fall      *)
(* between them); while the worker is there it holds the mutex.            *)
(***************************************************************************)
EXTENDS Integers, Sequences

CONSTANTS
    Task,       \* the tasks callers may submit, each a distinct object
    Capacity    \* capacity_

\* The constructor throws when the capacity is zero.
ASSUME CapacityAssumption == Capacity \in Nat \ {0}

VARIABLES
    tasks,          \* tasks_
    accepting,      \* accepting_
    stopRequested,  \* the stop state of worker_
    worker,         \* where the worker thread is in run()
    stopper,        \* how far stop() and the destructor have got
    log,            \* history: the accepted tasks, in order
    taken           \* history: how many of them the worker has popped

queueVars == <<tasks, accepting, stopRequested, worker, stopper, log, taken>>

\* top: at the while; wait: evaluating wait's predicate; asleep: blocked in
\* wait; take: past the test, holding the mutex; run: inside task(stop_token).
WorkerStates == {"top", "wait", "asleep", "take", "run", "exited"}
StopperStates == {"none", "closed", "requested", "notified", "joined"}

QueueInit ==
    /\ tasks = << >>
    /\ accepting = TRUE
    /\ stopRequested = FALSE
    /\ worker = "top"
    /\ stopper = "none"
    /\ log = << >>
    /\ taken = 0

-----------------------------------------------------------------------------
MutexFree == worker # "take"

\* A notification moves a blocked worker back to the predicate of wait.
Woken == IF worker = "asleep" THEN "wait" ELSE worker

\* Mutant: try_submit forgets to notify.
NotWoken == worker

\* Where the worker is once try_submit has notified it.
AfterPush == Woken

Accepts == accepting /\ Len(tasks) < Capacity

\* try_submit returns ok: the task is pushed and the worker notified, or
\* nothing changes.
TrySubmit(t, ok) ==
    /\ stopper # "joined"
    /\ MutexFree
    /\ ok = Accepts
    /\ tasks' = IF ok THEN Append(tasks, t) ELSE tasks
    /\ log' = IF ok THEN Append(log, t) ELSE log
    /\ worker' = IF ok THEN AfterPush ELSE worker
    /\ UNCHANGED <<accepting, stopRequested, stopper, taken>>

-----------------------------------------------------------------------------
\* The three statements of stop(); the destructor then joins the thread.
StopClose ==
    /\ stopper = "none"
    /\ MutexFree
    /\ accepting' = FALSE
    /\ stopper' = "closed"
    /\ UNCHANGED <<tasks, stopRequested, worker, log, taken>>

\* request_stop also runs the callback wait registered, a notification.
StopRequest ==
    /\ stopper = "closed"
    /\ stopRequested' = TRUE
    /\ worker' = Woken
    /\ stopper' = "requested"
    /\ UNCHANGED <<tasks, accepting, log, taken>>

StopNotify ==
    /\ stopper = "requested"
    /\ worker' = Woken
    /\ stopper' = "notified"
    /\ UNCHANGED <<tasks, accepting, stopRequested, log, taken>>

\* Mutant: the thread is detached instead of joined.
JoinableWithoutWaiting == TRUE

Joinable == worker = "exited"

\* The jthread member is destroyed: its destructor waits for the thread.
Join ==
    /\ stopper = "notified"
    /\ Joinable
    /\ stopper' = "joined"
    /\ UNCHANGED <<tasks, accepting, stopRequested, worker, log, taken>>

-----------------------------------------------------------------------------
\* Mutant: the loop does not look at the stop token.
TopNeverStops == "wait"

TopGoesTo == IF stopRequested THEN "exited" ELSE "wait"

WorkerTop ==
    /\ worker = "top"
    /\ worker' = TopGoesTo
    /\ UNCHANGED <<tasks, accepting, stopRequested, stopper, log, taken>>

\* wait(lock, stop_token, predicate) and the test that follows it.
WaitGoesTo ==
    IF stopRequested THEN "top"
    ELSE IF tasks # << >> THEN "take"
    ELSE IF ~accepting THEN "top"
    ELSE "asleep"

WorkerWait ==
    /\ worker = "wait"
    /\ worker' = WaitGoesTo
    /\ UNCHANGED <<tasks, accepting, stopRequested, stopper, log, taken>>

\* Mutant: the queue is used as a stack.
PoppedFromTheBack == SubSeq(tasks, 1, Len(tasks) - 1)

Popped == Tail(tasks)

WorkerTake ==
    /\ worker = "take"
    /\ tasks' = Popped
    /\ taken' = taken + 1
    /\ worker' = "run"
    /\ UNCHANGED <<accepting, stopRequested, stopper, log>>

\* task(stop_token) returns.
FinishTask ==
    /\ worker = "run"
    /\ worker' = "top"
    /\ UNCHANGED <<tasks, accepting, stopRequested, stopper, log, taken>>

\* A condition variable may wake without a notification.
SpuriousWake ==
    /\ worker = "asleep"
    /\ worker' = "wait"
    /\ UNCHANGED <<tasks, accepting, stopRequested, stopper, log, taken>>

Accepted == {log[i] : i \in 1..Len(log)}

Begun == {log[i] : i \in 1..taken}

StopStep == StopRequest \/ StopNotify \/ Join

WorkerStep == WorkerTop \/ WorkerWait \/ WorkerTake

\* The object is gone: nothing happens to it any more.
Destroyed ==
    /\ stopper = "joined"
    /\ UNCHANGED queueVars

QueueNext ==
    \/ \E t \in Task \ Accepted, ok \in BOOLEAN : TrySubmit(t, ok)
    \/ StopClose
    \/ StopStep
    \/ WorkerStep
    \/ FinishTask
    \/ SpuriousWake
    \/ Destroyed

QueueSafety == QueueInit /\ [][QueueNext]_queueVars

(***************************************************************************)
(* The operating system schedules the worker and a thread inside stop(),   *)
(* and a task returns (it ends by its token limit).  Nobody has to submit  *)
(* or to call stop, and a spurious wake-up may never come.                 *)
(***************************************************************************)
QueueSpec ==
    /\ QueueSafety
    /\ WF_queueVars(WorkerStep)
    /\ WF_queueVars(FinishTask)
    /\ WF_queueVars(StopStep)

-----------------------------------------------------------------------------
QueueTypeOK ==
    /\ tasks \in Seq(Task)
    /\ accepting \in BOOLEAN
    /\ stopRequested \in BOOLEAN
    /\ worker \in WorkerStates
    /\ stopper \in StopperStates
    /\ log \in Seq(Task)
    /\ taken \in Nat

\* The waiting tasks are exactly the accepted ones the worker has not popped,
\* in the order try_submit accepted them: none is lost, doubled or reordered.
QueueIsUntakenSuffix ==
    /\ Len(log) = taken + Len(tasks)
    /\ \A i \in 1..Len(tasks) : tasks[i] = log[taken + i]

\* stop() proceeds in its order, and the worker only leaves run() after
\* request_stop, holds the mutex only with a task to pop, and is gone when
\* the destructor has joined it.
StopOrder ==
    /\ accepting <=> stopper = "none"
    /\ stopRequested <=> stopper \in {"requested", "notified", "joined"}
    /\ worker = "exited" => stopRequested
    /\ worker = "take" => tasks # << >>
    /\ stopper = "joined" => worker = "exited"

\* No try_submit is accepted twice for one task.
LogIsInjective == \A i, j \in 1..Len(log) : log[i] = log[j] => i = j

WithinCapacity == Len(tasks) <= Capacity

\* The inductive invariant of the queue.
QueueInv ==
    /\ QueueTypeOK
    /\ QueueIsUntakenSuffix
    /\ StopOrder
    /\ LogIsInjective
    /\ WithinCapacity

Executor == INSTANCE SerialExecutor WITH
    accepted <- log,
    begun <- taken,
    busy <- worker = "run",
    phase <- IF stopper = "joined" THEN "gone"
             ELSE IF stopper = "none" THEN "open" ELSE "closed"

\* The threaded queue keeps the promises of the serial executor: FIFO, at
\* most once, one at a time, bounded, closed by stop(), and nothing runs
\* after the destructor.
ImplementsSerialExecutor == Executor!Spec

\* Without a stop, every accepted task is begun: no wake-up is lost between
\* the worker's test of the predicate and try_submit's notification.
EveryAcceptedTaskBegins ==
    \A t \in Task : t \in Accepted ~> (t \in Begun \/ stopper # "none")

\* A thread that enters stop() gets through it and through the join,
\* whatever the worker was doing.
StopTerminates == stopper = "closed" ~> stopper = "joined"
=============================================================================
