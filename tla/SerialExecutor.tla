--------------------------- MODULE SerialExecutor ---------------------------
(***************************************************************************)
(* What a bounded single-worker task queue promises to its callers,        *)
(* without threads, locks or condition variables: the accepted tasks form  *)
(* one sequence, they are begun in that order, each at most once and one   *)
(* at a time, no more than Capacity of them wait, none is accepted after   *)
(* the executor closes and none runs once it is gone.                      *)
(***************************************************************************)
EXTENDS Integers, Sequences

CONSTANTS
    Task,       \* the tasks callers may submit
    Capacity    \* how many accepted tasks may wait

VARIABLES
    accepted,   \* the accepted tasks, in the order of acceptance
    begun,      \* how many of them have been begun
    busy,       \* a task is being executed
    phase       \* "open", "closed" (accepts nothing) or "gone" (destroyed)

vars == <<accepted, begun, busy, phase>>

Init ==
    /\ accepted = << >>
    /\ begun = 0
    /\ busy = FALSE
    /\ phase = "open"

Accept(t) ==
    /\ phase = "open"
    /\ \A i \in 1..Len(accepted) : accepted[i] # t
    /\ Len(accepted) - begun < Capacity
    /\ accepted' = Append(accepted, t)
    /\ UNCHANGED <<begun, busy, phase>>

Begin ==
    /\ phase # "gone"
    /\ ~busy
    /\ begun < Len(accepted)
    /\ begun' = begun + 1
    /\ busy' = TRUE
    /\ UNCHANGED <<accepted, phase>>

Finish ==
    /\ busy
    /\ busy' = FALSE
    /\ UNCHANGED <<accepted, begun, phase>>

Close ==
    /\ phase = "open"
    /\ phase' = "closed"
    /\ UNCHANGED <<accepted, begun, busy>>

Vanish ==
    /\ phase = "closed"
    /\ ~busy
    /\ phase' = "gone"
    /\ UNCHANGED <<accepted, begun, busy>>

Next ==
    \/ \E t \in Task : Accept(t)
    \/ Begin
    \/ Finish
    \/ Close
    \/ Vanish

Spec == Init /\ [][Next]_vars
=============================================================================
