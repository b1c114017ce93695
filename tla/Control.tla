------------------------------ MODULE Control ------------------------------
(***************************************************************************)
(* How many workers there are: the two gflags with their validators,       *)
(* bthread_setconcurrency, the creation of the TaskControl and its failure,*)
(* add_workers on behalf of a setter or of signal_task, bthread_stop_world *)
(* and the TaskGroups that come and go with the workers.                   *)
(*                                                                         *)
(* Sched has the queues, the lots and the stealing for a TaskControl that  *)
(* starts and grows without errors.  Here tasks and lots are left out:     *)
(* whether signal_task finds parked workers is open, and what matters is   *)
(* what is read without g_task_control_mutex, what is changed under it and *)
(* what is left when one of several steps fails.                           *)
(*                                                                         *)
(* A worker stands for its pthread and for its TaskGroup.                  *)
(***************************************************************************)
EXTENDS Integers, Sequences, FiniteSets

CONSTANTS
    Callers,       \* pthreads that are not workers
    Pthreads,      \* bound: workers that pthread_create can make
    Nums,          \* arguments of the setters
    MinConc,       \* BTHREAD_MIN_CONCURRENCY
    MaxConc,       \* BTHREAD_MAX_CONCURRENCY
    DefaultConc,   \* default of FLAGS_bthread_concurrency
    Controls,      \* bound: TaskControls that can be allocated
    NULL,
    MaxCalls       \* bound: calls, and signals by running workers

ASSUME ControlAssumption ==
    /\ Pthreads \in Nat /\ Controls \in Nat /\ MaxCalls \in Nat
    /\ Nums \subseteq Int
    /\ MinConc \in Nat \ {0} /\ MaxConc \in Nat
    /\ DefaultConc \in MinConc..MaxConc
    /\ Callers \cap (1..Pthreads) = {}
    /\ NULL \notin Callers \cup (1..Pthreads)

Workers == 1..Pthreads
Agents == Callers \cup Workers

VARIABLES
    conc, minc,   \* FLAGS_bthread_concurrency, FLAGS_bthread_min_concurrency
    never_set,    \* never_set_bthread_concurrency
    mutex,        \* holder of g_task_control_mutex
    g,            \* g_task_control, 0 is NULL
    made,         \* TaskControls allocated so far
    tc,           \* the TaskControls
    th,           \* the threads
    calls

flagVars == <<conc, minc, never_set>>
controlVars == <<g, made, tc>>
vars == <<flagVars, mutex, controlVars, th, calls>>

\* TaskControl::TaskControl.  In workers, NULL is a slot without a pthread; lots
\* says that the ParkingLots are stopped.
NewControl ==
    [concurrency |-> 0, workers |-> <<>>, ngroup |-> 0, stop |-> FALSE, lots |-> FALSE,
     groups |-> [i \in 1..MaxConc |-> NULL]]

\* A thread: where it is, in which call and with which argument, the TaskControl it
\* uses, old_concurrency or the value it is about to store in the flag, how many
\* workers it still creates or which one is next in its loop, the _ngroup it loaded
\* and the TaskGroup that choose_one_group returned.
Thread(pc) ==
    [pc |-> pc, call |-> "none", num |-> 0, at |-> 0, old |-> 0, idx |-> 0, seen |-> 0,
     held |-> NULL]

\* The flags may have been given on the command line.
Init ==
    /\ conc \in MinConc..MaxConc
    /\ never_set \in BOOLEAN /\ (never_set => conc = DefaultConc)
    /\ minc \in {0} \cup {n \in Nums : MinConc <= n /\ n <= conc}
    /\ mutex = NULL /\ g = 0 /\ made = 0 /\ calls = 0
    /\ tc = [c \in 1..Controls |-> NewControl]
    /\ th = [a \in Agents |-> Thread(IF a \in Workers THEN "none" ELSE "idle")]

-----------------------------------------------------------------------------
(* Helpers                                                                 *)

At(a, pc) == th[a].pc = pc

Goto(a, next) == th' = [th EXCEPT ![a].pc = next]

\* The TaskControl the thread works with.
Tc(a) == tc[th[a].at]

\* What a thread is when its call is over: a worker goes on running, and gflags
\* stores the value when its validator has accepted it.
Done(a, ok) ==
    IF a \in Workers THEN [Thread("run") EXCEPT !.at = th[a].at]
    ELSE IF ok /\ th[a].call \in {"flag", "min"} THEN [th[a] EXCEPT !.pc = "assign"]
    ELSE Thread("idle")

Finish(a, ok) == th' = [th EXCEPT ![a] = Done(a, ok)]

Entry(kind) ==
    CASE kind \in {"set", "flag"} -> "set"
      [] kind = "min" -> "min"
      [] kind = "start" -> "get"
      [] kind = "stop" -> "stop"

\* A call begins.  gflags validates and stores one flag at a time.  Bound: the world
\* is stopped once.
Call(t, kind, n) ==
    /\ At(t, "idle") /\ calls < MaxCalls
    /\ kind \in {"flag", "min"} =>
          \A u \in Callers : th[u].call \notin {"flag", "min"}
    /\ kind = "stop" => \A c \in 1..Controls : ~tc[c].stop
    /\ calls' = calls + 1
    /\ th' = [th EXCEPT ![t] = [@ EXCEPT !.pc = Entry(kind), !.call = kind, !.num = n]]
    /\ UNCHANGED <<flagVars, mutex, controlVars>>

\* gflags stores the accepted value.
FlagAssign(t) ==
    /\ At(t, "assign")
    /\ IF th[t].call = "flag"
       THEN conc' = th[t].num /\ UNCHANGED minc
       ELSE minc' = th[t].num /\ UNCHANGED conc
    /\ th' = [th EXCEPT ![t] = Thread("idle")]
    /\ UNCHANGED <<never_set, mutex, controlVars, calls>>

-----------------------------------------------------------------------------
(* add_workers                                                             *)

\* pthread_create: the next worker, in slot i of _workers; the creator goes on as r.
pthread_create(a, i, r) ==
    \E w \in Workers :
        /\ At(w, "none") /\ \A v \in 1..(w - 1) : ~At(v, "none")
        /\ tc' = [tc EXCEPT ![th[a].at].workers[i] = w]
        /\ th' = [th EXCEPT ![w] = [Thread("created") EXCEPT !.at = th[a].at], ![a] = r]

\* The entry of add_workers(n) of TaskControl c: _workers is resized, which may
\* throw.
BeginAdd(a, c, n) ==
    LET k == tc[c].concurrency
        r == [th[a] EXCEPT !.at = c, !.old = k] IN
    /\ mutex' = a
    /\ \/ /\ tc' = [tc EXCEPT ![c].workers =
                       [i \in 1..(k + n) |-> IF i <= Len(@) THEN @[i] ELSE NULL]]
          /\ th' = [th EXCEPT ![a] = [r EXCEPT !.idx = n, !.pc = "add"]]
       \/ /\ th' = [th EXCEPT ![a] = [r EXCEPT !.pc = "added"]]
          /\ UNCHANGED tc

\* _concurrency.fetch_add(1), before the worker exists.
AddInc(a) ==
    /\ At(a, "add")
    /\ tc' = [tc EXCEPT ![th[a].at].concurrency = @ + 1]
    /\ Goto(a, "add_create")
    /\ UNCHANGED <<flagVars, mutex, g, made, calls>>

\* pthread_create; on failure _concurrency goes back and the loop ends.
AddCreate(a) ==
    /\ At(a, "add_create")
    /\ \/ pthread_create(a, Tc(a).concurrency,
                         [th[a] EXCEPT !.idx = @ - 1,
                                       !.pc = IF th[a].idx > 1 THEN "add" ELSE "added"])
       \/ /\ tc' = [tc EXCEPT ![th[a].at].concurrency = @ - 1]
          /\ Goto(a, "added")
    /\ UNCHANGED <<flagVars, mutex, g, made, calls>>

\* Mutant: _workers keeps the slot of the pthread that was not created.
EndAdd_no_resize(a) ==
    /\ At(a, "added")
    /\ UNCHANGED <<g, made, tc, calls>>

\* The end of add_workers: _workers is as long as _concurrency says.
EndAdd(a) ==
    /\ At(a, "added")
    /\ tc' = [tc EXCEPT ![th[a].at].workers = SubSeq(@, 1, Tc(a).concurrency)]
    /\ UNCHANGED <<g, made, calls>>

\* What add_workers returns.
Added(a) == Tc(a).concurrency - th[a].old

-----------------------------------------------------------------------------
(* bthread_setconcurrency, also as the validator of bthread_concurrency    *)

SetEnter(t) ==
    LET valid == th[t].num \in MinConc..MaxConc IN
    /\ At(t, "set")
    /\ \/ ~valid /\ Finish(t, FALSE)
       \/ valid /\ Goto(t, IF minc > 0 THEN "set_min" ELSE "set_peek")
    /\ UNCHANGED <<flagVars, mutex, controlVars, calls>>

\* With a minimum, which is read again, the flag alone is set: workers are added on
\* demand.
SetMin(t) ==
    /\ At(t, "set_min")
    /\ IF th[t].num < minc THEN Finish(t, FALSE) ELSE Goto(t, "set_flag")
    /\ UNCHANGED <<flagVars, mutex, controlVars, calls>>

SetFlag(t) ==
    /\ At(t, "set_flag")
    /\ never_set' = FALSE
    /\ conc' = th[t].num
    /\ Finish(t, TRUE)
    /\ UNCHANGED <<minc, mutex, controlVars, calls>>

\* Two reads of c->concurrency() without the mutex: fewer workers cannot be had ...
SetPeek(t) ==
    /\ At(t, "set_peek")
    /\ IF g # 0 /\ th[t].num < tc[g].concurrency THEN Finish(t, FALSE)
       ELSE Goto(t, IF g # 0 THEN "set_peek2" ELSE "set_lock")
    /\ UNCHANGED <<flagVars, mutex, controlVars, calls>>

\* ... and as many as there are is a success.
SetPeek2(t) ==
    /\ At(t, "set_peek2")
    /\ IF th[t].num = tc[g].concurrency THEN Finish(t, TRUE) ELSE Goto(t, "set_lock")
    /\ UNCHANGED <<flagVars, mutex, controlVars, calls>>

\* The setter goes on with the mutex, or returns and releases it.
Hold(t, next) == Goto(t, next) /\ mutex' = t
Leave(t, ok) == Finish(t, ok) /\ mutex' = NULL

\* The mutex is taken.  Without a TaskControl the flag is set the first time and may
\* only be raised later.  With one, it is compared with the number of workers.  From
\* here on SetFlag and FlagAssign, which take no mutex, may store another value
\* before each access to the flag.
SetLock(t) ==
    /\ At(t, "set_lock") /\ mutex = NULL
    /\ \/ /\ g = 0 /\ (never_set \/ th[t].num > conc)
          /\ Hold(t, "set_raise")
       \/ /\ g = 0 /\ ~never_set /\ th[t].num <= conc
          /\ Leave(t, TRUE)
       \/ /\ g # 0
          /\ Hold(t, IF conc # tc[g].concurrency THEN "set_repair" ELSE "set_more")
    /\ UNCHANGED <<flagVars, controlVars, calls>>

SetRaise(t) ==
    /\ At(t, "set_raise")
    /\ conc' = th[t].num
    /\ never_set' = FALSE
    /\ Leave(t, TRUE)
    /\ UNCHANGED <<minc, controlVars, calls>>

\* A flag that differs is repaired.
SetRepair(t) ==
    /\ At(t, "set_repair")
    /\ conc' = tc[g].concurrency
    /\ Hold(t, "set_more")
    /\ UNCHANGED <<minc, never_set, controlVars, calls>>

\* num > FLAGS_bthread_concurrency?
SetMore(t) ==
    /\ At(t, "set_more")
    /\ Hold(t, IF th[t].num > conc THEN "set_add" ELSE "set_equal")
    /\ UNCHANGED <<flagVars, controlVars, calls>>

\* add_workers(num - FLAGS_bthread_concurrency), which does nothing for 0 or less.
SetAdd(t) ==
    LET n == th[t].num - conc IN
    /\ At(t, "set_add")
    /\ \/ n > 0 /\ BeginAdd(t, g, n)
       \/ /\ n <= 0
          /\ th' = [th EXCEPT ![t].pc = "set_store", ![t].old = conc]
          /\ UNCHANGED <<mutex, tc>>
    /\ UNCHANGED <<flagVars, g, made, calls>>

\* The flag is read to add what add_workers returned ...
SetAdded(t) ==
    /\ th[t].call \in {"set", "flag"}
    /\ EndAdd(t)
    /\ th' = [th EXCEPT ![t].pc = "set_store", ![t].old = conc + Added(t)]
    /\ UNCHANGED <<flagVars, mutex>>

\* ... and stored.
SetStore(t) ==
    /\ At(t, "set_store")
    /\ conc' = th[t].old
    /\ Leave(t, TRUE)
    /\ UNCHANGED <<minc, never_set, controlVars, calls>>

\* num == FLAGS_bthread_concurrency?
SetEqual(t) ==
    /\ At(t, "set_equal")
    /\ Leave(t, th[t].num = conc)
    /\ UNCHANGED <<flagVars, controlVars, calls>>

bthread_setconcurrency(t) ==
    \/ SetEnter(t) \/ SetMin(t) \/ SetFlag(t) \/ SetPeek(t) \/ SetPeek2(t)
    \/ SetLock(t) \/ SetRaise(t) \/ SetRepair(t) \/ SetMore(t) \/ SetAdd(t)
    \/ SetAdded(t) \/ SetStore(t) \/ SetEqual(t)

-----------------------------------------------------------------------------
(* validate_bthread_min_concurrency                                        *)

MinEnter(t) ==
    LET n == th[t].num IN
    /\ At(t, "min")
    /\ IF n <= 0 THEN Finish(t, TRUE)
       ELSE IF n < MinConc \/ n > conc THEN Finish(t, FALSE)
       ELSE Goto(t, "min_peek")
    /\ UNCHANGED <<flagVars, mutex, controlVars, calls>>

MinPeek(t) ==
    /\ At(t, "min_peek")
    /\ IF g = 0 THEN Finish(t, TRUE) ELSE Goto(t, "min_lock")
    /\ UNCHANGED <<flagVars, mutex, controlVars, calls>>

MinLock(t) ==
    LET missing == th[t].num - tc[g].concurrency IN
    /\ At(t, "min_lock") /\ mutex = NULL
    /\ IF missing > 0 THEN BeginAdd(t, g, missing)
       ELSE Finish(t, TRUE) /\ UNCHANGED <<tc, mutex>>
    /\ UNCHANGED <<flagVars, g, made, calls>>

MinAdded(t) ==
    /\ th[t].call = "min"
    /\ EndAdd(t)
    /\ Leave(t, Added(t) = th[t].num - th[t].old)
    /\ UNCHANGED flagVars

validate_bthread_min_concurrency(t) ==
    MinEnter(t) \/ MinPeek(t) \/ MinLock(t) \/ MinAdded(t)

-----------------------------------------------------------------------------
(* get_or_new_task_control and TaskControl::init                           *)

Get(t) ==
    /\ At(t, "get")
    /\ th' = [th EXCEPT ![t].pc = IF g # 0 THEN "choose" ELSE "get_lock", ![t].at = g]
    /\ UNCHANGED <<flagVars, mutex, controlVars, calls>>

\* A new TaskControl is initialised, with the mutex held.  The TimerThread must be
\* there, or init fails before it creates workers.
NewTaskControl(t) ==
    LET c == made + 1
        n == IF minc > 0 THEN minc ELSE conc IN
    /\ made < Controls
    /\ mutex' = t
    /\ made' = c
    /\ \E ws \in {<<>>, [i \in 1..n |-> NULL]} :
          /\ tc' = [tc EXCEPT ![c].concurrency = n, ![c].workers = ws]
          /\ th' = [th EXCEPT ![t] =
                [@ EXCEPT !.at = c, !.idx = 1,
                          !.pc = IF ws = <<>> THEN "delete" ELSE "init"]]
    /\ UNCHANGED <<flagVars, g, calls>>

\* Mutant: g_task_control is not looked at again under the mutex.
GetLock_no_recheck(t) ==
    /\ At(t, "get_lock") /\ mutex = NULL
    /\ NewTaskControl(t)

\* Under the mutex: another thread has made it meanwhile, or it is made, for which
\* there must be memory.
GetLock(t) ==
    /\ At(t, "get_lock") /\ mutex = NULL
    /\ \/ /\ g # 0
          /\ th' = [th EXCEPT ![t].pc = "choose", ![t].at = g]
          /\ UNCHANGED <<flagVars, mutex, controlVars, calls>>
       \/ /\ g = 0 /\ made = Controls
          /\ Finish(t, FALSE)
          /\ UNCHANGED <<flagVars, mutex, controlVars, calls>>
       \/ /\ g = 0
          /\ NewTaskControl(t)

\* The workers are created; when one cannot be, init fails and the TaskControl is
\* deleted, with the mutex held.
InitCreate(t) ==
    LET i == th[t].idx
        next == IF i = Len(Tc(t).workers) THEN "wait" ELSE "init" IN
    /\ At(t, "init")
    /\ \/ pthread_create(t, i, [th[t] EXCEPT !.pc = next, !.idx = i + 1])
       \/ Goto(t, "delete") /\ UNCHANGED tc
    /\ UNCHANGED <<flagVars, mutex, g, made, calls>>

\* Mutant: init returns before a worker has added its group.
InitWait_no_group(t) ==
    /\ At(t, "wait")
    /\ g' = th[t].at
    /\ mutex' = NULL
    /\ Goto(t, "choose")
    /\ UNCHANGED <<flagVars, made, tc, calls>>

\* init waits until a group was added; then the TaskControl is published.
InitWait(t) ==
    /\ At(t, "wait") /\ Tc(t).ngroup # 0
    /\ g' = th[t].at
    /\ mutex' = NULL
    /\ Goto(t, "choose")
    /\ UNCHANGED <<flagVars, made, tc, calls>>

get_or_new_task_control(t) == Get(t) \/ GetLock(t) \/ InitCreate(t) \/ InitWait(t)

-----------------------------------------------------------------------------
(* choose_one_group by a non-worker, signal_task, growth on demand         *)

\* _ngroup is loaded; when it is 0, the CHECK fails and NULL is returned and used.
ChooseLoad(t) ==
    /\ At(t, "choose")
    /\ th' = [th EXCEPT ![t].seen = Tc(t).ngroup,
                        ![t].pc = IF Tc(t).ngroup = 0 THEN "null_group" ELSE "index"]
    /\ UNCHANGED <<flagVars, mutex, controlVars, calls>>

\* Any of the groups there were is taken, for start_background<true> to push to.
ChooseIndex(t) ==
    /\ At(t, "index")
    /\ \E i \in 1..th[t].seen :
          th' = [th EXCEPT ![t].pc = "push", ![t].seen = 0, ![t].held = Tc(t).groups[i]]
    /\ UNCHANGED <<flagVars, mutex, controlVars, calls>>

choose_one_group(t) == ChooseLoad(t) \/ ChooseIndex(t)

\* The task is pushed and signal_task wakes parked workers, if any.  When there
\* were too few, and fewer workers than the flag allows, one is to be added.
signal_task(a) ==
    /\ th[a].pc \in {"push", "signal"}
    /\ \/ Finish(a, TRUE)
       \/ /\ minc > 0 /\ Tc(a).concurrency < conc
          /\ th' = [th EXCEPT ![a].pc = "grow_lock", ![a].held = NULL]
    /\ UNCHANGED <<flagVars, mutex, controlVars, calls>>

\* The comparison again, under the mutex, then add_workers(1).
GrowLock(a) ==
    /\ At(a, "grow_lock") /\ mutex = NULL
    /\ IF Tc(a).concurrency < conc THEN BeginAdd(a, th[a].at, 1)
       ELSE Finish(a, TRUE) /\ UNCHANGED <<tc, mutex>>
    /\ UNCHANGED <<flagVars, g, made, calls>>

GrowAdded(a) ==
    /\ th[a].call \in {"none", "start"}
    /\ EndAdd(a)
    /\ Leave(a, TRUE)
    /\ UNCHANGED flagVars

-----------------------------------------------------------------------------
(* worker_thread                                                           *)

\* _add_group, under _modify_group_mutex: the group is published, if there is room.
_add_group(w) ==
    LET n == Tc(w).ngroup + 1 IN
    /\ ~Tc(w).stop
    /\ tc' = IF n > MaxConc THEN tc
             ELSE [tc EXCEPT ![th[w].at].groups[n] = w, ![th[w].at].ngroup = n]
    /\ Goto(w, "signal")

\* Mutant: the group is published under g_task_control_mutex.
create_group_locked(w) ==
    /\ At(w, "created") /\ mutex = NULL
    /\ _add_group(w)
    /\ UNCHANGED <<flagVars, mutex, g, made, calls>>

\* create_group fails, as it does when the TaskControl was stopped, or the worker
\* has added its group and signals.
create_group(w) ==
    /\ At(w, "created")
    /\ \/ _add_group(w)
       \/ Goto(w, "exited") /\ UNCHANGED tc
    /\ UNCHANGED <<flagVars, mutex, g, made, calls>>

\* A bthread that runs on the worker starts another one.
RunSignal(w) ==
    /\ At(w, "run") /\ calls < MaxCalls
    /\ calls' = calls + 1
    /\ Goto(w, "signal")
    /\ UNCHANGED <<flagVars, mutex, controlVars>>

\* The worker sees that its lot is stopped and quits.  _destroy_group takes the
\* group out if it finds it below _ngroup, which is 0 since the stop.
_destroy_group(w) ==
    LET n == Tc(w).ngroup
        places == {i \in 1..n : Tc(w).groups[i] = w} IN
    /\ At(w, "run") /\ Tc(w).lots
    /\ tc' = [tc EXCEPT ![th[w].at].ngroup = n - Cardinality(places),
                        ![th[w].at].groups =
                            [i \in DOMAIN @ |-> IF i \in places THEN @[n] ELSE @[i]]]
    /\ Goto(w, "exited")
    /\ UNCHANGED <<flagVars, mutex, g, made, calls>>

worker_thread(w) == create_group(w) \/ _destroy_group(w)

-----------------------------------------------------------------------------
(* stop_and_join, for bthread_stop_world and for ~TaskControl              *)

bthread_stop_world(t) ==
    /\ At(t, "stop")
    /\ IF g = 0 THEN Finish(t, TRUE)
       ELSE th' = [th EXCEPT ![t].pc = "delete", ![t].at = g]
    /\ UNCHANGED <<flagVars, mutex, controlVars, calls>>

\* _stop is set and _ngroup becomes 0, under _modify_group_mutex ...
StopGroups(t) ==
    /\ At(t, "delete")
    /\ tc' = [tc EXCEPT ![th[t].at].stop = TRUE, ![th[t].at].ngroup = 0]
    /\ Goto(t, "lots")
    /\ UNCHANGED <<flagVars, mutex, g, made, calls>>

\* ... then the lots are stopped ...
StopLots(t) ==
    /\ At(t, "lots")
    /\ tc' = [tc EXCEPT ![th[t].at].lots = TRUE]
    /\ th' = [th EXCEPT ![t].pc = "join", ![t].idx = 1]
    /\ UNCHANGED <<flagVars, mutex, g, made, calls>>

\* ... and the workers are interrupted and joined, one after the other.  A slot of
\* _workers for which no pthread was created is undefined behaviour.  After the
\* last one, a failed TaskControl is gone and the mutex is released.
Join(t) ==
    LET ws == Tc(t).workers
        i == th[t].idx IN
    /\ At(t, "join")
    /\ \/ /\ i > Len(ws)
          /\ Finish(t, FALSE)
          /\ mutex' = IF th[t].call = "start" THEN NULL ELSE mutex
       \/ /\ i <= Len(ws) /\ ws[i] = NULL
          /\ Goto(t, "crashed")
          /\ UNCHANGED mutex
       \/ /\ i <= Len(ws) /\ ws[i] # NULL /\ At(ws[i], "exited")
          /\ th' = [th EXCEPT ![t].idx = i + 1]
          /\ UNCHANGED mutex
    /\ UNCHANGED <<flagVars, controlVars, calls>>

stop_and_join(t) == StopGroups(t) \/ StopLots(t) \/ Join(t)

-----------------------------------------------------------------------------
Step(a) ==
    \/ AddInc(a) \/ AddCreate(a)
    \/ signal_task(a) \/ GrowLock(a) \/ GrowAdded(a)

CallerStep(t) ==
    \/ FlagAssign(t) \/ bthread_setconcurrency(t) \/ validate_bthread_min_concurrency(t)
    \/ get_or_new_task_control(t) \/ choose_one_group(t)
    \/ bthread_stop_world(t) \/ stop_and_join(t)

\* The process is gone, after a use of NULL.
Crashed == \E a \in Callers : th[a].pc \in {"crashed", "null_group"}

\* A thread goes on with what it has begun.
Progress ==
    /\ ~Crashed
    /\ \/ \E t \in Callers : CallerStep(t)
       \/ \E w \in Workers : worker_thread(w)
       \/ \E a \in Agents : Step(a)

Next ==
    \/ Progress
    \/ /\ ~Crashed
       /\ \/ \E t \in Callers, kind \in {"set", "flag", "min"}, n \in Nums :
                Call(t, kind, n)
          \/ \E t \in Callers, kind \in {"start", "stop"} : Call(t, kind, 0)
          \/ \E w \in Workers : RunSignal(w)

Spec == Init /\ [][Next]_vars

\* While some thread can go on, some thread does.  (The calls are bounded, so nobody
\* can be overtaken for ever.)
Fairness == WF_vars(Progress)

FairSpec == Spec /\ Fairness

-----------------------------------------------------------------------------
(* Properties                                                              *)

Places == {"none", "idle", "set", "set_min", "set_flag", "set_peek", "set_peek2",
           "set_lock", "set_raise", "set_repair", "set_more", "set_add", "set_store",
           "set_equal", "min", "min_peek", "min_lock", "assign", "get", "get_lock", "init",
           "wait", "choose", "index", "push", "signal", "grow_lock", "add", "add_create",
           "added", "stop", "delete", "lots", "join", "created", "run", "exited",
           "crashed", "null_group"}

\* The states of a TaskControl and of a thread.
ControlStates ==
    [concurrency : Nat, workers : Seq(Workers \cup {NULL}), ngroup : 0..MaxConc,
     stop : BOOLEAN, lots : BOOLEAN, groups : [1..MaxConc -> Workers \cup {NULL}]]

ThreadStates ==
    [pc : Places, call : {"none", "set", "flag", "min", "start", "stop"},
     num : Nums \cup {0}, at : 0..Controls, old : Nat, idx : Nat, seen : 0..MaxConc,
     held : Workers \cup {NULL}]

\* Types of the state.
TypeOK ==
    /\ conc \in Nat /\ minc \in Nums \cup {0} /\ never_set \in BOOLEAN
    /\ mutex \in Agents \cup {NULL}
    /\ g \in 0..Controls /\ made \in 0..Controls
    /\ tc \in [1..Controls -> ControlStates]
    /\ th \in [Agents -> ThreadStates]
    /\ calls \in 0..MaxCalls

\* Whenever g_task_control_mutex is free, _concurrency, the size of _workers and the
\* pthreads that were created agree, though pthread_create may fail half-way and
\* setters, a flag, and signal_task of any worker all add workers: stop_and_join then
\* joins every worker and nothing else.
WorkersMatch ==
    TypeOK /\ (mutex = NULL /\ g # 0 =>
        LET ws == tc[g].workers IN
        /\ tc[g].concurrency = Len(ws)
        /\ {ws[i] : i \in 1..Len(ws)} = {w \in Workers : th[w].at = g})

\* There is one TaskControl, however many threads start their first bthread at the
\* same time and however often init failed before: what get_or_new_task_control
\* returned is g_task_control, and workers of another one are those of a thread that
\* makes or deletes it, or have exited.
OneControl ==
    /\ \A t \in Callers :
          th[t].pc \in {"choose", "index", "push"} => th[t].at = g
    /\ \A w \in Workers :
          th[w].at \notin {0, g} /\ ~At(w, "exited") =>
              \E t \in Callers : mutex = t /\ th[t].at = th[w].at

\* "If this method is called after init(), it never returns NULL": choose_one_group
\* returns a group, from the first call after the TaskControl was published until the
\* world is stopped.
GroupFound ==
    \A t \in Callers :
        /\ At(t, "null_group") => Tc(t).stop
        /\ At(t, "push") => th[t].held # NULL

\* The calls that cannot return: the process has crashed; init waits for a group
\* although all its workers have quit; ~TaskControl joins a worker that waits for the
\* mutex the deleting thread holds.
Trapped ==
    \/ Crashed
    \/ \E t \in Callers, w \in Workers :
          /\ th[w].at = th[t].at /\ mutex = t
          /\ \/ /\ At(t, "wait")
                /\ \A v \in Workers : th[v].at = th[t].at => At(v, "exited")
             \/ At(t, "join") /\ At(w, "grow_lock")

\* Every other call returns, though init, setters, the validator and growing workers
\* wait for one mutex, init holds it while it waits for a worker, and stop_and_join
\* waits for all workers.
CallsReturn == \A t \in Callers : ~At(t, "idle") ~> (At(t, "idle") \/ Trapped)

=============================================================================
