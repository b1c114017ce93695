------------------------------ MODULE MCSched ------------------------------
(* Model checking of Sched with interchangeable workers and tasks.         *)
EXTENDS Sched, TLC

\* Without liveness: workers are interchangeable when all are created at once,
\* tasks of one kind too.
Symmetry == Permutations(Workers) \cup Permutations(Tasks \ PthreadTasks)

\* With liveness, where no symmetry may be declared: tasks of one kind are still
\* interchangeable, so the idle one with the smallest number is started.
InOrder ==
    \A t, u \in Tasks :
        u < t /\ (u \in PthreadTasks <=> t \in PthreadTasks)
              /\ Idle(u) /\ Idle(t) => Idle(t)'

\* Bound: the non-workers and the first workers share lot 0, a worker that is
\* added later has any lot.
FirstLot == \A a \in NonWorkers \cup InitialWorkers : lot[a] = 0

\* Bound: calls in a behaviour with a stop.
StopCalls == 1
FewCallsAndStop == stop' => calls' <= StopCalls

\* InOrder and FewCallsAndStop are action constraints of the run: they leave out
\* calls and stops only, of which Fairness promises nothing.
MCInit == Init /\ FirstLot
MCFairSpec == MCInit /\ [][Next]_vars /\ Fairness

=============================================================================
