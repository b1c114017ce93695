------------------------------- MODULE Sched -------------------------------
(***************************************************************************)
(* The scheduler: TaskGroups with their two run queues, work stealing, the *)
(* ParkingLots in which idle workers sleep, signal_task that wakes or adds *)
(* workers, and the start and the stop of the TaskControl.                 *)
(*                                                                         *)
(* A member of Workers is a worker pthread and its TaskGroup.  Tasks are   *)
(* bthreads; one that blocks leaves its worker as one that ends does, and  *)
(* is woken the way it was started, so both are modelled by FinishTask and *)
(* by the start actions.                                                   *)
(*                                                                         *)
(* A ParkingLot counts signals in _pending_signal and a group remembers    *)
(* the count it saw in _last_pl_state.  Only the comparison matters:       *)
(* fresh[w] says that the two are still equal.  (The count is 31 bits wide *)
(* and never decreases; it does not come round between save and wait.)     *)
(***************************************************************************)
EXTENDS Integers, Sequences, SequencesExt, FiniteSets

CONSTANTS
    Workers,         \* worker pthreads, at most FLAGS_bthread_concurrency
    InitialWorkers,  \* those that TaskControl::init creates
    NonWorkers,      \* pthreads without a TaskGroup
    Tasks,           \* bthreads
    PthreadTasks,    \* those with BTHREAD_ATTR_PTHREAD
    Flags,           \* the values of BTHREAD_NOSIGNAL the starts use
    NLots,           \* PARKING_LOT_NUM
    RqCapacity,      \* capacity of _rq
    RemoteCapacity,  \* capacity of _remote_rq
    AllowStop,       \* bthread_stop_world may be called
    NULL,
    MaxCalls         \* bound: starts, yields and flushes

ASSUME SchedAssumption ==
    /\ InitialWorkers \subseteq Workers /\ InitialWorkers # {}
    /\ Workers \cap NonWorkers = {} /\ NonWorkers # {}
    /\ PthreadTasks \subseteq Tasks
    /\ Flags \subseteq BOOLEAN
    /\ NULL \notin Workers \cup Tasks \cup [task : Tasks, nosignal : BOOLEAN]
    /\ NLots \in Nat \ {0} /\ RqCapacity \in Nat \ {0}
    /\ RemoteCapacity \in Nat \ {0}
    /\ AllowStop \in BOOLEAN /\ MaxCalls \in Nat

Threads == Workers \cup NonWorkers
Lots == 0..(NLots - 1)

VARIABLES
    control,     \* g_task_control # NULL
    groups,      \* _groups[0.._ngroup-1], by their workers
    stop,        \* TaskControl::_stop
    stopped,     \* lots that stop_and_join has stopped so far
    lot,         \* the ParkingLot a pthread id hashes to
    rq,          \* TaskGroup::_rq: pushed and popped at the end, stolen in front
    remote_rq,   \* TaskGroup::_remote_rq
    num_nosignal, remote_num_nosignal,
    fresh,       \* _last_pl_state equals the state of the group's lot
    saw_stop,    \* _last_pl_state.stopped()
    pc,          \* where the thread is
    cur,         \* the bthread a worker runs, NULL for its main task
    args,        \* ReadyToRunArgs of the push that is to be made
    scan,        \* groups that steal_task has not visited yet
    at,          \* the group it visits, or the group of a remote push
    tls_nosignal,\* tls_task_group_nosignal of a non-worker
    sig,         \* where the thread is in signal_task
    num_task,    \* its num_task
    nlots,       \* lots it has signalled
    calls

queueVars == <<rq, remote_rq, num_nosignal, remote_num_nosignal>>
controlVars == <<control, groups, stop, stopped, lot>>
parkVars == <<fresh, saw_stop>>
threadVars == <<pc, cur, args, scan, at, tls_nosignal>>
sigVars == <<sig, num_task, nlots>>
vars == <<queueVars, controlVars, parkVars, threadVars, sigVars, calls>>

WorkerPCs == {"none", "created", "wait", "parked", "steal", "save", "scan",
              "scan_remote", "pop", "push", "run", "exited"}
NonWorkerPCs == {"idle", "init", "push"}
SigPCs == {"none", "add", "wake", "grow"}

Init ==
    /\ control = FALSE /\ groups = {} /\ stop = FALSE /\ stopped = 0
    /\ lot \in [Threads -> Lots]
    /\ rq = [w \in Workers |-> <<>>]
    /\ remote_rq = [w \in Workers |-> <<>>]
    /\ num_nosignal = [w \in Workers |-> 0]
    /\ remote_num_nosignal = [w \in Workers |-> 0]
    /\ fresh = [w \in Workers |-> TRUE]
    /\ saw_stop = [w \in Workers |-> FALSE]
    /\ pc = [a \in Threads |-> IF a \in Workers THEN "none" ELSE "idle"]
    /\ cur = [w \in Workers |-> NULL]
    /\ args = [a \in Threads |-> NULL]
    /\ scan = [w \in Workers |-> {}]
    /\ at = [a \in Threads |-> NULL]
    /\ tls_nosignal = [c \in NonWorkers |-> NULL]
    /\ sig = [a \in Threads |-> "none"]
    /\ num_task = [a \in Threads |-> 0]
    /\ nlots = [a \in Threads |-> 0]
    /\ calls = 0

-----------------------------------------------------------------------------
(* Helpers                                                                 *)

Args(t, nosignal) == [task |-> t, nosignal |-> nosignal]

\* The thread is not inside signal_task.
Free(a) == sig[a] = "none"

\* Task t is in no queue, on no worker and in nobody's hands.
Idle(t) ==
    /\ \A w \in Workers : /\ t \notin Range(rq[w]) \cup Range(remote_rq[w])
                          /\ cur[w] # t
    /\ \A a \in Threads : args[a] # NULL => args[a].task # t

Goto(a, next) == pc' = [pc EXCEPT ![a] = next]

Called == calls < MaxCalls /\ calls' = calls + 1

\* Workers that were created: TaskControl::_concurrency.
Created == {w \in Workers : pc[w] # "none"}

\* Entry of signal_task(num_task), which is capped at 2.
signal_task(a, n) ==
    /\ sig' = [sig EXCEPT ![a] = "add"]
    /\ num_task' = [num_task EXCEPT ![a] = IF n > 2 THEN 2 ELSE n]
    /\ nlots' = [nlots EXCEPT ![a] = 0]

\* Where a worker goes when it has switched to a bthread or to its main task:
\* to the remained function that pushes args, else to the task itself.
AfterSwitch(w) ==
    IF args[w] # NULL THEN "push" ELSE IF cur'[w] = NULL THEN "wait" ELSE "run"

-----------------------------------------------------------------------------
(* signal_task                                                             *)

\* The lot thread a signals next: it starts at the lot of its own pthread id.
SignalledLot(a) == (lot[a] + nlots[a]) % NLots

\* Mutant: the state of the lot is left as it was.
SignalNoCount(a) ==
    /\ sig[a] = "add"
    /\ sig' = [sig EXCEPT ![a] = "wake"]
    /\ UNCHANGED <<queueVars, controlVars, parkVars, threadVars, num_task, nlots,
                   calls>>

\* ParkingLot::signal(1): _pending_signal changes ...
SignalAdd(a) ==
    /\ sig[a] = "add"
    /\ fresh' = [w \in Workers |-> fresh[w] /\ lot[w] # SignalledLot(a)]
    /\ sig' = [sig EXCEPT ![a] = "wake"]
    /\ UNCHANGED <<queueVars, controlVars, saw_stop, threadVars, num_task, nlots,
                   calls>>

Parked(l) == {w \in Workers : pc[w] = "parked" /\ lot[w] = l}

\* After a lot, with n tasks left: done, the next lot, or the end of the loop.
SignalNext(a, n) ==
    LET more == n > 0 /\ nlots[a] + 1 < NLots IN
    /\ sig' = [sig EXCEPT ![a] = IF n = 0 THEN "none"
                                 ELSE IF more THEN "add" ELSE "grow"]
    /\ num_task' = [num_task EXCEPT ![a] = IF more THEN n ELSE 0]
    /\ nlots' = [nlots EXCEPT ![a] = IF more THEN @ + 1 ELSE 0]

\* ... and one worker that is parked there, if any, wakes up.  The signaller goes
\* on to the next lot while there are lots and tasks left.
SignalWake(a) ==
    /\ sig[a] = "wake"
    /\ \/ /\ Parked(SignalledLot(a)) = {}
          /\ SignalNext(a, num_task[a])
          /\ UNCHANGED pc
       \/ \E w \in Parked(SignalledLot(a)) :
             /\ Goto(w, "steal")
             /\ SignalNext(a, num_task[a] - 1)
    /\ UNCHANGED <<queueVars, controlVars, parkVars, cur, args, scan, at,
                   tls_nosignal, calls>>

\* g_task_control_mutex is held by the thread that is in TaskControl::init.
ControlLocked == \E c \in NonWorkers : pc[c] = "init"

\* The end of signal_task: nobody was parked for some task.  With fewer workers
\* than FLAGS_bthread_concurrency, add_workers(1) creates one under
\* g_task_control_mutex, if pthread_create succeeds.
SignalGrow(a) ==
    /\ sig[a] = "grow"
    /\ sig' = [sig EXCEPT ![a] = "none"]
    /\ \/ UNCHANGED pc
       \/ \E w \in Workers : pc[w] = "none" /\ Goto(w, "created")
    /\ Created # Workers => ~ControlLocked
    /\ UNCHANGED <<queueVars, controlVars, parkVars, cur, args, scan, at,
                   tls_nosignal, num_task, nlots, calls>>

SignalStep(a) == SignalAdd(a) \/ SignalWake(a) \/ SignalGrow(a)

-----------------------------------------------------------------------------
(* TaskControl: start and stop                                             *)

\* get_or_new_task_control by the first caller, under g_task_control_mutex: init
\* creates the workers ...
get_or_new_task_control(c) ==
    /\ pc[c] = "idle" /\ ~control /\ ~ControlLocked
    /\ pc' = [a \in Threads |-> IF a \in InitialWorkers THEN "created"
                                ELSE IF a = c THEN "init" ELSE pc[a]]
    /\ UNCHANGED <<queueVars, controlVars, parkVars, cur, args, scan, at,
                   tls_nosignal, sigVars, calls>>

\* ... and waits until one of them has added its group.
InitReturns(c) ==
    /\ pc[c] = "init" /\ groups # {}
    /\ control' = TRUE
    /\ Goto(c, "idle")
    /\ UNCHANGED <<queueVars, groups, stop, stopped, lot, parkVars, cur, args,
                   scan, at, tls_nosignal, sigVars, calls>>

\* worker_thread: _add_group publishes the group and signals, unless the control
\* was stopped, in which case the worker quits.
_add_group(w) ==
    /\ pc[w] = "created"
    /\ \/ /\ ~stop
          /\ groups' = groups \cup {w}
          /\ signal_task(w, 65536)
          /\ Goto(w, "wait")
       \/ /\ stop
          /\ Goto(w, "exited")
          /\ UNCHANGED <<groups, sigVars>>
    /\ UNCHANGED <<queueVars, control, stop, stopped, lot, parkVars, cur, args,
                   scan, at, tls_nosignal, calls>>

\* stop_and_join: _stop is set and _ngroup becomes 0 ...
stop_and_join ==
    /\ AllowStop /\ control /\ ~stop
    /\ stop' = TRUE
    /\ groups' = {}
    /\ UNCHANGED <<queueVars, control, stopped, lot, parkVars, threadVars,
                   sigVars, calls>>

\* Mutant: the workers of a lot are woken but its state is not marked.
StopLotUnmarked ==
    /\ stop /\ stopped < NLots
    /\ stopped' = stopped + 1
    /\ pc' = [a \in Threads |->
                 IF a \in Workers /\ pc[a] = "parked" /\ lot[a] = stopped
                 THEN "steal" ELSE pc[a]]
    /\ UNCHANGED <<queueVars, control, groups, stop, lot, parkVars, cur, args,
                   scan, at, tls_nosignal, sigVars, calls>>

\* ... then each lot is stopped, which wakes all that are parked there.
StopLot ==
    /\ stop /\ stopped < NLots
    /\ stopped' = stopped + 1
    /\ fresh' = [w \in Workers |-> fresh[w] /\ lot[w] # stopped]
    /\ pc' = [a \in Threads |->
                 IF a \in Workers /\ pc[a] = "parked" /\ lot[a] = stopped
                 THEN "steal" ELSE pc[a]]
    /\ UNCHANGED <<queueVars, control, groups, stop, lot, saw_stop, cur, args,
                   scan, at, tls_nosignal, sigVars, calls>>

-----------------------------------------------------------------------------
(* A worker looks for a task                                               *)

\* Worker w has got task t: it switches to it.
Take(w, t) ==
    /\ cur' = [cur EXCEPT ![w] = t]
    /\ Goto(w, AfterSwitch(w))

\* Mutant: a worker parks whatever happened to its lot since it looked.
ParkAnyway(w) ==
    /\ pc[w] = "wait" /\ Free(w)
    /\ Goto(w, IF saw_stop[w] THEN "exited" ELSE "parked")
    /\ UNCHANGED <<queueVars, controlVars, parkVars, cur, args, scan, at,
                   tls_nosignal, sigVars, calls>>

\* wait_task: quit when the saved state says stopped, else park unless the state
\* of the lot has changed since it was saved.
wait_task(w) ==
    /\ pc[w] = "wait" /\ Free(w)
    /\ \/ /\ saw_stop[w]
          /\ Goto(w, "exited")
       \/ /\ ~saw_stop[w]
          /\ Goto(w, IF fresh[w] THEN "parked" ELSE "steal")
    /\ UNCHANGED <<queueVars, controlVars, parkVars, cur, args, scan, at,
                   tls_nosignal, sigVars, calls>>

\* sched and ending_sched: the newest task of the worker's own queue.
Pop(w) ==
    /\ pc[w] = "pop" /\ Free(w)
    /\ \/ /\ rq[w] # <<>>
          /\ rq' = [rq EXCEPT ![w] = Front(@)]
          /\ Take(w, Last(rq[w]))
       \/ /\ rq[w] = <<>>
          /\ Goto(w, "steal")
          /\ UNCHANGED <<rq, cur>>
    /\ UNCHANGED <<remote_rq, num_nosignal, remote_num_nosignal, controlVars,
                   parkVars, args, scan, at, tls_nosignal, sigVars, calls>>

\* TaskGroup::steal_task: first the worker's own remote queue ...
StealRemote(w) ==
    /\ pc[w] = "steal"
    /\ \/ /\ remote_rq[w] # <<>>
          /\ remote_rq' = [remote_rq EXCEPT ![w] = Tail(@)]
          /\ Take(w, Head(remote_rq[w]))
       \/ /\ remote_rq[w] = <<>>
          /\ Goto(w, "save")
          /\ UNCHANGED <<remote_rq, cur>>
    /\ UNCHANGED <<rq, num_nosignal, remote_num_nosignal, controlVars, parkVars,
                   args, scan, at, tls_nosignal, sigVars, calls>>

\* ... then it saves the state of its lot and goes through the groups there are.
\* The order is that of a pseudo-random walk, any order here.
SaveState(w) ==
    /\ pc[w] = "save"
    /\ fresh' = [fresh EXCEPT ![w] = TRUE]
    /\ saw_stop' = [saw_stop EXCEPT ![w] = lot[w] < stopped]
    /\ scan' = [scan EXCEPT ![w] = groups]
    /\ Goto(w, "scan")
    /\ UNCHANGED <<queueVars, controlVars, cur, args, at, tls_nosignal, sigVars,
                   calls>>

\* Mutant: sched goes to the main task although steal_task returned TRUE.
StolenDropped(w, t) ==
    /\ Goto(w, "wait")
    /\ scan' = [scan EXCEPT ![w] = {}]
    /\ at' = [at EXCEPT ![w] = NULL]
    /\ UNCHANGED cur

\* steal_task returns TRUE: its locals are gone.
Stolen(w, t) ==
    /\ Take(w, t)
    /\ scan' = [scan EXCEPT ![w] = {}]
    /\ at' = [at EXCEPT ![w] = NULL]

\* TaskControl::steal_task: steal the oldest task of group g.
Scan(w) ==
    /\ pc[w] = "scan"
    /\ \E g \in scan[w] :
          \/ /\ rq[g] # <<>>
             /\ rq' = [rq EXCEPT ![g] = Tail(@)]
             /\ Stolen(w, Head(rq[g]))
          \/ /\ rq[g] = <<>>
             /\ at' = [at EXCEPT ![w] = g]
             /\ scan' = [scan EXCEPT ![w] = @ \ {g}]
             /\ Goto(w, "scan_remote")
             /\ UNCHANGED <<rq, cur>>
    /\ UNCHANGED <<remote_rq, num_nosignal, remote_num_nosignal, controlVars,
                   parkVars, args, tls_nosignal, sigVars, calls>>

\* The same for the remote queue of the group it visits.
ScanRemote(w) ==
    /\ pc[w] = "scan_remote"
    /\ \/ /\ remote_rq[at[w]] # <<>>
          /\ remote_rq' = [remote_rq EXCEPT ![at[w]] = Tail(@)]
          /\ Stolen(w, Head(remote_rq[at[w]]))
       \/ /\ remote_rq[at[w]] = <<>>
          /\ at' = [at EXCEPT ![w] = NULL]
          /\ Goto(w, "scan")
          /\ UNCHANGED <<remote_rq, cur, scan>>
    /\ UNCHANGED <<rq, num_nosignal, remote_num_nosignal, controlVars, parkVars,
                   args, tls_nosignal, sigVars, calls>>

\* Nothing to steal: switch to the main task, which goes on in wait_task.
ScanFails(w) ==
    /\ pc[w] = "scan" /\ scan[w] = {}
    /\ Take(w, NULL)
    /\ UNCHANGED <<queueVars, controlVars, parkVars, args, scan, at,
                   tls_nosignal, sigVars, calls>>

LookStep(w) ==
    \/ wait_task(w) \/ Pop(w) \/ StealRemote(w) \/ SaveState(w)
    \/ Scan(w) \/ ScanRemote(w) \/ ScanFails(w)

-----------------------------------------------------------------------------
(* A worker runs a task                                                    *)

Running(w) == pc[w] = "run" /\ Free(w)

\* start_background from a bthread: the new task goes to the worker's queue.
start_background(w, t, nosignal) ==
    /\ Running(w) /\ Idle(t) /\ Called
    /\ args' = [args EXCEPT ![w] = Args(t, nosignal)]
    /\ Goto(w, "push")
    /\ UNCHANGED <<queueVars, controlVars, parkVars, cur, scan, at, tls_nosignal,
                   sigVars>>

\* start_foreground: the worker switches to the new task at once and its remained
\* function queues the current one; a pthread task only queues the new one.
start_foreground(w, t, nosignal) ==
    /\ Running(w) /\ Idle(t) /\ Called
    /\ \/ /\ cur[w] \in PthreadTasks
          /\ args' = [args EXCEPT ![w] = Args(t, nosignal)]
          /\ UNCHANGED cur
       \/ /\ cur[w] \notin PthreadTasks
          /\ args' = [args EXCEPT ![w] = Args(cur[w], nosignal)]
          /\ cur' = [cur EXCEPT ![w] = t]
    /\ Goto(w, "push")
    /\ UNCHANGED <<queueVars, controlVars, parkVars, scan, at, tls_nosignal,
                   sigVars>>

\* Mutant: the bthread is queued before its worker has switched away from it.
yield_early(w) ==
    /\ Running(w) /\ Called
    /\ cur[w] \notin PthreadTasks
    /\ args' = [args EXCEPT ![w] = Args(cur[w], FALSE)]
    /\ Goto(w, "push")
    /\ UNCHANGED <<queueVars, controlVars, parkVars, cur, scan, at, tls_nosignal,
                   sigVars>>

\* yield: look for another task; the remained function queues this one.
yield(w) ==
    /\ Running(w) /\ Called
    /\ cur[w] \notin PthreadTasks
    /\ args' = [args EXCEPT ![w] = Args(cur[w], FALSE)]
    /\ cur' = [cur EXCEPT ![w] = NULL]
    /\ Goto(w, "pop")
    /\ UNCHANGED <<queueVars, controlVars, parkVars, scan, at, tls_nosignal,
                   sigVars>>

\* flush_nosignal_tasks.
flush_nosignal_tasks(w) ==
    /\ num_nosignal[w] > 0
    /\ num_nosignal' = [num_nosignal EXCEPT ![w] = 0]
    /\ signal_task(w, num_nosignal[w])

\* bthread_flush from a bthread.
FlushLocal(w) ==
    /\ Running(w) /\ Called
    /\ flush_nosignal_tasks(w)
    /\ UNCHANGED <<rq, remote_rq, remote_num_nosignal, controlVars, parkVars,
                   threadVars>>

\* The task ends or blocks.
FinishTask(w) ==
    /\ Running(w)
    /\ cur' = [cur EXCEPT ![w] = NULL]
    /\ Goto(w, "pop")
    /\ UNCHANGED <<queueVars, controlVars, parkVars, args, scan, at,
                   tls_nosignal, sigVars, calls>>

\* ready_to_run, called directly or as the remained function.
ready_to_run(w) ==
    /\ pc[w] = "push" /\ Free(w)
    /\ Len(rq[w]) < RqCapacity
    /\ rq' = [rq EXCEPT ![w] = Append(@, args[w].task)]
    /\ \/ /\ args[w].nosignal
          /\ num_nosignal' = [num_nosignal EXCEPT ![w] = @ + 1]
          /\ UNCHANGED sigVars
       \/ /\ ~args[w].nosignal
          /\ num_nosignal' = [num_nosignal EXCEPT ![w] = 0]
          /\ signal_task(w, 1 + num_nosignal[w])
    /\ args' = [args EXCEPT ![w] = NULL]
    /\ Goto(w, IF cur[w] = NULL THEN "wait" ELSE "run")
    /\ UNCHANGED <<remote_rq, remote_num_nosignal, controlVars, parkVars, cur,
                   scan, at, tls_nosignal, calls>>

\* push_rq when _rq is full: flush, sleep and try again.
RqFull(w) ==
    /\ pc[w] = "push" /\ Free(w)
    /\ Len(rq[w]) = RqCapacity
    /\ flush_nosignal_tasks(w)
    /\ UNCHANGED <<rq, remote_rq, remote_num_nosignal, controlVars, parkVars,
                   threadVars, calls>>

TaskCall(w) ==
    \/ \E t \in Tasks, nosignal \in Flags :
          start_background(w, t, nosignal) \/ start_foreground(w, t, nosignal)
    \/ yield(w) \/ FlushLocal(w)

WorkerStep(w) ==
    \/ _add_group(w) \/ LookStep(w) \/ ready_to_run(w) \/ RqFull(w)
    \/ FinishTask(w) \/ SignalStep(w)

-----------------------------------------------------------------------------
(* Threads that are not workers                                            *)

\* start_from_non_worker: the group is the one remembered for NOSIGNAL tasks, or
\* the result of choose_one_group, which is NULL when there are no groups.
start_from_non_worker(c, t, nosignal) ==
    /\ pc[c] = "idle" /\ Free(c) /\ control
    /\ Idle(t) /\ Called
    /\ \/ /\ nosignal /\ tls_nosignal[c] # NULL
          /\ at' = [at EXCEPT ![c] = tls_nosignal[c]]
          /\ args' = [args EXCEPT ![c] = Args(t, TRUE)]
          /\ Goto(c, "push")
          /\ UNCHANGED tls_nosignal
       \/ /\ ~(nosignal /\ tls_nosignal[c] # NULL)
          /\ \E g \in groups :
                /\ at' = [at EXCEPT ![c] = g]
                /\ tls_nosignal' = [tls_nosignal EXCEPT ![c] =
                                       IF nosignal THEN g ELSE @]
          /\ args' = [args EXCEPT ![c] = Args(t, nosignal)]
          /\ Goto(c, "push")
       \/ /\ ~(nosignal /\ tls_nosignal[c] # NULL)
          /\ groups = {}
          /\ Goto(c, "null_group")
          /\ UNCHANGED <<at, args, tls_nosignal>>
    /\ UNCHANGED <<queueVars, controlVars, parkVars, cur, scan, sigVars>>

\* ready_to_run_remote into the queue of group at[c], under its mutex.
ready_to_run_remote(c) ==
    /\ pc[c] = "push" /\ Free(c)
    /\ Len(remote_rq[at[c]]) < RemoteCapacity
    /\ remote_rq' = [remote_rq EXCEPT ![at[c]] = Append(@, args[c].task)]
    /\ \/ /\ args[c].nosignal
          /\ remote_num_nosignal' = [remote_num_nosignal EXCEPT ![at[c]] = @ + 1]
          /\ UNCHANGED sigVars
       \/ /\ ~args[c].nosignal
          /\ remote_num_nosignal' = [remote_num_nosignal EXCEPT ![at[c]] = 0]
          /\ signal_task(c, 1 + remote_num_nosignal[at[c]])
    /\ args' = [args EXCEPT ![c] = NULL]
    /\ at' = [at EXCEPT ![c] = NULL]
    /\ Goto(c, "idle")
    /\ UNCHANGED <<rq, num_nosignal, controlVars, parkVars, cur, scan,
                   tls_nosignal, calls>>

\* flush_nosignal_tasks_remote(_locked) of group g.
flush_nosignal_tasks_remote(c, g) ==
    /\ remote_num_nosignal[g] > 0
    /\ remote_num_nosignal' = [remote_num_nosignal EXCEPT ![g] = 0]
    /\ signal_task(c, remote_num_nosignal[g])

\* ready_to_run_remote when _remote_rq is full: flush, sleep and try again.
RemoteFull(c) ==
    /\ pc[c] = "push" /\ Free(c)
    /\ Len(remote_rq[at[c]]) = RemoteCapacity
    /\ flush_nosignal_tasks_remote(c, at[c])
    /\ UNCHANGED <<rq, remote_rq, num_nosignal, controlVars, parkVars,
                   threadVars, calls>>

\* bthread_flush from a non-worker: the remembered group is forgotten.
bthread_flush(c) ==
    /\ pc[c] = "idle" /\ Free(c) /\ tls_nosignal[c] # NULL
    /\ tls_nosignal' = [tls_nosignal EXCEPT ![c] = NULL]
    /\ \/ flush_nosignal_tasks_remote(c, tls_nosignal[c])
       \/ /\ remote_num_nosignal[tls_nosignal[c]] = 0
          /\ UNCHANGED <<remote_num_nosignal, sigVars>>
    /\ UNCHANGED <<rq, remote_rq, num_nosignal, controlVars, parkVars, pc, cur,
                   args, scan, at, calls>>

NonWorkerStep(c) ==
    InitReturns(c) \/ ready_to_run_remote(c) \/ RemoteFull(c) \/ SignalStep(c)

-----------------------------------------------------------------------------
Next ==
    \/ \E w \in Workers : WorkerStep(w) \/ TaskCall(w)
    \/ \E c \in NonWorkers :
          \/ NonWorkerStep(c) \/ bthread_flush(c)
          \/ get_or_new_task_control(c)
          \/ \E t \in Tasks, nosignal \in Flags :
                start_from_non_worker(c, t, nosignal)
    \/ stop_and_join \/ StopLot

Spec == Init /\ [][Next]_vars

\* Threads keep running, a task that does not run for ever ends or blocks, and a
\* stop that began is completed.
Fairness ==
    /\ \A w \in Workers : WF_vars(WorkerStep(w))
    /\ \A c \in NonWorkers : WF_vars(NonWorkerStep(c))
    /\ WF_vars(StopLot)

FairSpec == Spec /\ Fairness

-----------------------------------------------------------------------------
(* Properties                                                              *)

\* Types of the state.  No non-worker is at "null_group": whoever has got the
\* TaskControl gets a group from choose_one_group.
TypeOK ==
    /\ control \in BOOLEAN /\ stop \in BOOLEAN
    /\ groups \subseteq Workers
    /\ stopped \in 0..NLots
    /\ lot \in [Threads -> Lots]
    /\ rq \in [Workers -> Seq(Tasks)]
    /\ remote_rq \in [Workers -> Seq(Tasks)]
    /\ num_nosignal \in [Workers -> Nat]
    /\ remote_num_nosignal \in [Workers -> Nat]
    /\ fresh \in [Workers -> BOOLEAN]
    /\ saw_stop \in [Workers -> BOOLEAN]
    /\ pc \in [Threads -> WorkerPCs \cup NonWorkerPCs]
    /\ cur \in [Workers -> Tasks \cup {NULL}]
    /\ args \in [Threads -> [task : Tasks, nosignal : BOOLEAN] \cup {NULL}]
    /\ scan \in [Workers -> SUBSET Workers]
    /\ at \in [Threads -> Workers \cup {NULL}]
    /\ tls_nosignal \in [NonWorkers -> Workers \cup {NULL}]
    /\ sig \in [Threads -> SigPCs]
    /\ num_task \in [Threads -> 0..2]
    /\ nlots \in [Threads -> 0..NLots]
    /\ calls \in 0..MaxCalls

\* A tid is in at most one place of the scheduler: queued once, or about to be
\* pushed by one thread, or run by one worker.  Two workers on one tid would run
\* on the same stack.
OnePlace ==
    TypeOK /\ \A t \in Tasks :
        LET Queued(q) == UNION {{w} \X {i \in DOMAIN q[w] : q[w][i] = t} : w \in Workers}
            Run  == {w \in Workers : cur[w] = t}
            Push == {a \in Threads : args[a] # NULL /\ args[a].task = t}
        IN  Cardinality(Queued(rq)) + Cardinality(Queued(remote_rq))
              + Cardinality(Run) + Cardinality(Push) <= 1

\* Every worker sleeps in a lot and nobody is about to wake one.
AllParked ==
    /\ \A w \in Created : pc[w] \in {"parked", "exited"}
    /\ \A a \in Threads : Free(a)

\* Workers never all sleep while there is work: a task that was pushed and
\* signalled, at whatever point of another worker's search, is noticed.  Only a
\* batch of NOSIGNAL tasks that its creator has not flushed may wait.
NoIdleWithWork ==
    AllParked /\ control /\ ~stop =>
        \A g \in Workers :
            /\ rq[g] = <<>>
            /\ remote_rq[g] # <<>> => remote_num_nosignal[g] > 0

\* Every task that is queued, and flushed if it needs to be, is run by a worker.
QueuedRuns ==
    \A t \in Tasks :
        (\E g \in Workers : t \in Range(rq[g]) \cup Range(remote_rq[g])) ~>
            \/ \E w \in Workers : cur[w] = t
            \/ \E g \in Workers : t \in Range(remote_rq[g])
                                  /\ remote_num_nosignal[g] > 0
            \/ stop

\* bthread_stop_world returns: every worker that was or is being created leaves
\* its lot and its search and exits, so that stop_and_join can join it.
StopEnds == stop ~> \A w \in Created : pc[w] = "exited"

=============================================================================
