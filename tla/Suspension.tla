----------------------------- MODULE Suspension -----------------------------
(***************************************************************************)
(* What every blocking call of bthread promises to the scheduler: a thread *)
(* that suspends itself is put into a run queue once, and only while it is *)
(* suspended.  A tid that is queued twice, or queued while the bthread     *)
(* runs, would let two workers run on one stack.                           *)
(***************************************************************************)
EXTENDS Naturals

CONSTANT Threads

VARIABLES
    running,  \* the thread runs on a worker
    queued    \* how many times its tid is in a run queue

vars == <<running, queued>>

Init ==
    /\ running = [t \in Threads |-> TRUE]
    /\ queued = [t \in Threads |-> 0]

Suspend(t) ==
    /\ running[t]
    /\ running' = [running EXCEPT ![t] = FALSE]
    /\ UNCHANGED queued

MakeReady(t) ==
    /\ ~running[t] /\ queued[t] = 0
    /\ queued' = [queued EXCEPT ![t] = 1]
    /\ UNCHANGED running

Run(t) ==
    /\ queued[t] = 1
    /\ running' = [running EXCEPT ![t] = TRUE]
    /\ queued' = [queued EXCEPT ![t] = 0]

Next == \E t \in Threads : Suspend(t) \/ MakeReady(t) \/ Run(t)

Spec == Init /\ [][Next]_vars

=============================================================================
