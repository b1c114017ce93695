# A TLA+ model of the bthread runtime

`src/dbrpc` is an annotated transcription of bthread, the M:N threading library of
brpc: user threads (*bthreads*) run on a set of worker pthreads. `src/docs` and
`src/markdown` are notes about it and about brpc, and quote code that `src/dbrpc`
does not contain: most of `butex_wait` (`docs/butex.md:92-184`), the write path of a
Socket (`docs/io_write.md`) and the lock of an RPC (`docs/client_bthread_sync.md`). This
directory holds TLA+ models of the runtime and of these two users of it, the TLC runs
that check them and TLAPS proofs about all of them.

## 1. Inventory

| component | state | operations | what is hard |
|---|---|---|---|
| Butex (`butex.cpp`, `docs/butex.md`) | `value`, `waiters`, `waiter_lock`; a waiter record on the stack of each waiting thread (`container`, `waiter_state`, `sleep_id`, `sig`) | `butex_wait` (bthread, pthread), `butex_wake`, `_wake_all`, `_wake_except`, `_requeue`, `erase_from_butex` from the timer and from an interruption | wakers, timer and interrupters race for one waiter; the record is gone when the wait returns; the value changes before the waiter is queued |
| Interruption (`task_group.cpp:775-847`) | `TaskMeta::interrupted`, `current_waiter`, `current_sleep`, `version_lock` | `interrupt`, `interrupt_and_consume_waiters`, `set_butex_waiter` | the target moves on between the steps; the tid may be stale |
| usleep (`task_group.cpp:689-772`) | `SleepArgs` on the sleeper's stack, a timer, `current_sleep` | `usleep`, `_add_sleep_event`, `ready_to_run_from_timer_thread` | `_add_sleep_event` runs after the switch and may be overtaken by the sleeper |
| TaskGroup (`task_group.*`) | `_rq`, `_remote_rq`, `_num_nosignal`, `_remote_num_nosignal`, `_last_pl_state`, `_cur_meta`, remained function | `ready_to_run`, `ready_to_run_remote`, flushes, `sched`, `ending_sched`, `yield`, `start_*`, `steal_task`, `wait_task` | a worker decides to sleep while work is pushed; a bthread is queued while it still runs; full queues |
| TaskControl (`task_control.*`, `bthread.cpp:52-77`) | `_groups`, `_ngroup`, `_concurrency`, `_stop`, ParkingLots, `g_task_control_mutex` | `init`, `add_workers`, `_add_group`, `choose_one_group`, `steal_task`, `signal_task`, `stop_and_join` | init waits under a mutex; growth, search and stop overlap |
| TaskMeta life cycle (`task_group.cpp:226-515`) | slot, version, stack, `stop` | `start_*`, `task_runner`, `ending_sched`, `_release_last_context`, `join`, `set_stopped` | slots and stacks are reused while old tids are held; the stack is given up by the thread that runs on it |
| C API (`bthread.cpp`) | `tls_task_group_nosignal` | `bthread_start_*`, `_flush`, `_stop`, `_join`, `_interrupt`, `_usleep`, `_yield`, `_stop_world` | which thread the caller is (worker, pthread task, non-worker) |
| concurrency settings (`bthread.cpp:23-98, 245-295`) | two flags, `never_set_bthread_concurrency` | `bthread_setconcurrency`, the validators of both flags | the control and its concurrency are read before the lock; `add_workers` fails half-way |
| Socket write path (`docs/io_write.md`) | `_write_head`, a list of `WriteRequest`s | `StartWrite`, `KeepWrite`, `IsWriteComplete` | no lock; the list has holes while it is reversed; requests are released and reused; the connection fails |
| bthread_id (`docs/client_bthread_sync.md`) | `first_ver`, `locked_ver`, `butex`, `join_butex`, `pending_q` | `bthread_id_lock_and_reset_range`, `_unlock`, `_join` | the versions in the butex are lock state, contention and identity at once; the slot is reused |
| external: TimerThread, ParkingLot, WorkStealingQueue, RemoteTaskQueue, ResourcePool, stack allocator | not in the repository | used through the results the callers tell apart | |

The components meet in few places. Every blocking call switches away with `sched` and
leaves the rest of its work to a *remained* function that the worker runs after the
switch (`wait_for_butex`, `_add_sleep_event`, `ready_to_run_in_worker`,
`_release_last_context`). Whoever ends the wait calls one of the `ready_to_run`
functions. `TaskMeta` carries the two handles through which an interruption finds a
blocked bthread. `join` is a `butex_wait` on the version of the slot. Every start of a
bthread from outside goes through `get_or_new_task_control`, which shares
`g_task_control_mutex` with the concurrency settings and with growing workers. The write
path starts a `KeepWrite` bthread when a write would block; the lock of an RPC sleeps on
two butexes.

What makes each part correct: a suspended bthread is made runnable exactly once and
only after it was switched out; no record, `SleepArgs` or stack is used after its
owner has gone on; wakeups, interruptions and timeouts that race with the start of a
wait are not lost; workers do not sleep while there is work; everything that waits
for another thread ends (spin loops, `init`, `stop_and_join`, `join`); what is done
with a stale tid or id does not reach the next user of the slot; `_concurrency`,
`_workers` and the pthreads agree whatever failed; requests are sent in order, by one
thread at a time, and all are given back; the lock of an RPC is exclusive and forgets
neither sleepers nor errors. `PROJECT.json` lists the
hazards line by line with the properties that would catch them.

## 2. Modules

| module | models | extends / uses |
|---|---|---|
| `Butex` | butex waiting, waking, erasing, interruption of waiters | instance of `Suspension` |
| `ListLemmas`, `ButexProofs` | facts about sequences; the invariants of `Butex`; it implements `Suspension` | `Butex`, TLAPS |
| `Suspension` | abstract contract: suspend once, made ready once, run once | - |
| `Sleep` | usleep, its timer, its interruption, reuse of the TaskMeta | instance of `Suspension` |
| `SleepProofs` | invariant of `Sleep`; `Sleep` implements `Suspension` | `Sleep`, TLAPS |
| `Sched`, `MCSched` | TaskGroups, TaskControl, parking, start and stop | - |
| `SchedProofs` | invariant of `Sched` | `Sched`, `ListLemmas`, TLAPS |
| `Control` | flags, `bthread_setconcurrency`, life and failure of the TaskControl, its groups and workers | - |
| `ControlProofs` | invariant of `Control` | `Control`, TLAPS |
| `TaskLife` | slots, versions, stacks, end of a bthread, join, stop | - |
| `TaskLifeProofs` | invariant of `TaskLife` | `TaskLife`, TLAPS |
| `WriteQueue` | abstract contract of the write path: a FIFO queue of bytes | - |
| `SocketWrite` | `StartWrite`, `KeepWrite`, `IsWriteComplete` | instance of `WriteQueue` |
| `SocketWriteProofs` | invariants of `SocketWrite`; it implements `WriteQueue` | `SocketWrite`, `ListLemmas`, TLAPS |
| `BthreadId` | lock, unlock, join, reuse of an id | - |
| `BthreadIdProofs` | invariant of `BthreadId` | `BthreadId`, `ListLemmas`, TLAPS |

The modules share no variables; each abstracts the others by what it uses of them. `Butex`
and `Sleep` count how often a tid is in a run queue (`tokens`) where `Sched` has the
queues. `Control` has neither tasks nor lots: whether `signal_task` finds a parked worker
is open there, and it adds the errors that `Sched` leaves out. `Sched` lets a task end or
block in one step (`FinishTask`) where `Butex`, `Sleep` and `TaskLife` have the details.
`TaskLife` takes comparing and queueing in `butex_wait` to be one step, which `NoLostWake`
and `MismatchReturns` of `Butex` justify; `BthreadId` relies on the same.

Definitions have the names of the functions they model. An action is one step between
two points at which other threads can interfere: a section under a lock, an atomic
operation, a switch. Definitions that no specification uses, marked by `Mutant:` or by a
suffix and a remark on what is wrong (`Take_twice`), are defects put in on purpose, to
show that a property can fail.

### Butex
One identity stands for a waiting thread, its record and its TaskMeta, since the record
lives exactly as long as the wait. `pc` follows the waiter, `cpc` a waker or
interrupter (`Callers`), `er` whoever is inside `erase_from_butex` (a caller, the
TimerThread, a pthread whose futex timed out). `todo[c]` holds the waiters `c` took off
a list and has still to wake. `waiter_lock` is held across steps only where another
thread can see the state in between (the append). `StaleContainers` is what the
unassigned `pw.container` of a pthread may hold: an uninitialised read in the code, so
a nondeterministic choice. The run `butex` and the theorems take it to be NULL;
`butex_stale_container` lets it be the address of another butex and shows what goes wrong.

### Sleep
The n-th sleep on a TaskMeta has its own `_add_sleep_event` (`rem[s][n]`) and timer
(`timer[s][n]`), because the sleeper can be woken, sleep again, exit and have its slot
reused before the worker is through with the earlier one. `unschedule` has the three
results of the TimerThread. An interrupter may use any tid that exists or existed.

### Sched
A worker goes through *wait*, *parked*, *steal*, *save*, *scan*, *pop*, *push*, *run*;
`sig` follows any thread inside `signal_task`, which can be anywhere a push is.
`fresh[w]` says that the state a worker saved still equals that of its lot: the count
in the ParkingLot is only ever compared. The steal order is any order; that the offsets
of `OFFSET_TABLE` (not in the repository) visit every group is assumed. A worker's
signal in `ParkingLot::signal` is two steps, count and wake, as in the notes on the
ParkingLot (`src/markdown/Work Stealing以及任务的执行与切换.md`).

### Control
A worker stands for its pthread and for its TaskGroup. A thread's record has the program
point, the call it is in and the locals that outlive a step: `old` is `old_concurrency`,
or the flag value that is about to be stored, `seen` the `_ngroup` that
`choose_one_group` loaded, `held` the group it got. Reads without `g_task_control_mutex`
are steps of their own (`set_peek`, `set_peek2`, the comparison in `signal_task`), and so
is `_concurrency.fetch_add` against the creation of each pthread. The mutex does not protect
the flags: gflags stores what a validator accepted without it (`FlagAssign`), and so does a
setter while there is a minimum (`SetFlag`). So each of the accesses of `bthread.cpp:283`,
`287`, `289` and `291`, the last with a read for the argument, a read for the sum and the
store, is a step. Memory, `pthread_create`, `create_group` and the global
TimerThread may fail at each call. `gflags` runs one validator at a time and stores what
the validator accepted. Stealing is in `Sched`.

### TaskLife
The number of versions is a constant (`NVersions`, 2^32 in the code), so that versions
come round within the bounds. `lives`, which counts the bthreads of a slot, and `given`,
the version that the tid of each had, are auxiliary. The worker's main stack is
the worker itself. `get_stack` fails when the pool is empty, which turns the bthread
into a pthread task.

### SocketWrite and WriteQueue
`th[a]` is a thread in `StartWrite` or a `KeepWrite` bthread with its locals (`req`,
`cur_tail`, `new_head`, `p`, `tail`). A step is one access to `_write_head` or to a `next`
that another thread may be linking, one call into the socket, or the release of one
request. The doc does not quote the connection, `DoWrite`, `WaitEpollOut` and
`ReleaseAllFailedWriteRequests`: they are external and may do all the quoted code
provides for, such as taking any number of bytes, a fail at any time, or a connection
that is under way and resumes in `KeepWriteIfConnected`. `order` and `ready` are auxiliary:
the exchange order, and the requests `Setup` was called for. `order` with the bytes left
is the queue of `WriteQueue`.

### BthreadId
A section under `Id::mutex` is one step; `butex_wait` and `butex_wake` are outside it and
have the promise of `Butex`. One slot is enough, since slots share nothing. The creation of
an id, `bthread_id_error` and the destruction are not quoted and are external. `issued`
and `life` are auxiliary and tell which RPC an id was given out for. `uncounted` is
auxiliary too: the threads that last went to sleep while the butex showed `locked_ver`, so
that the holder does not know of them. It happens when a range of 2 makes a new `locked_ver`
of what was `contended_ver` (run `bthread_id_range2`).

### Reading the source
The transcription has misspelt identifiers and does not compile as it stands. A name that
can only mean one declared entity is read as that entity (`_rp` as `_rq`, `TaskGoup` as
`TaskGroup`, `*m->version_lock` in `get_attr` as the version). Where the text as written
is a different operation or drops an argument, it is modelled as written:
`ready_to_run_general` without its tid, the timer callback with the interruption's state,
the misplaced `else` in `sched_to`. `TaskGroup::_control` is not initialised by the
constructor and is taken to be the control that created the group. `bthread_about_to_quit`
has the body of another function and never sets `about_to_quit`, so the branches on it are
left out.

## 3. Runs

Passing runs:

| run | what it checks |
|---|---|
| `butex` | Two bthreads, one with a timeout, a pthread with a task and a timeout and one without a task wait; a worker and a non-worker wake, interrupt and store. The list and `container` agree (`ContainerIsList`), one thread wakes a waiter (`AtMostOneWaker`), no record is touched after its wait returned (`NoUseAfterReturn`), a waiter is not queued on a value that was changed and announced before (`NoLostWake`), a cancelled wait stays cancelled (`CancelIsFinal`), the bthread is suspended, queued and run once per wait (`WaitsAreSuspensions`, a refinement of `Suspension`), and it is always somewhere from where it will be woken or run, unless a thread that is not a worker drops its tid (`NeverForgotten`). A wait on a changed value returns, but for a dropped tid (`MismatchReturns`); a woken waiter gets through the spins on the timer and on `current_waiter` (`WokenReturns`). |
| `sleep_safety` | A bthread sleeps up to three times in two lives of its TaskMeta, two interrupters use any tid of it. The `SleepArgs` outlive the timer (`SleepArgsAlive`), nobody forgets it (`SleeperNotForgotten`), it is suspended, queued and run once per sleep (`SuspendsCorrectly`, a refinement of `Suspension`), a sleep ends if timers fire (`SleepReturns`), and an interrupted one ends without them if `current_sleep` has not been overwritten by an earlier sleep (`InterruptWakes`). |
| `sched_safety` | Two workers and a non-worker, two bthreads and a pthread task, queues of capacity 1. A tid is in one place and `choose_one_group` finds a group (`OnePlace` with `TypeOK`), workers do not all sleep while signalled work is queued (`NoIdleWithWork`). |
| `sched_liveness` | TaskControl is created by a non-worker and grows from one worker to two in any of two lots. Non-workers and running bthreads start two bthreads, urgent or in the background, with or without NOSIGNAL, yield and flush, over queues of capacity 1: a queued and flushed task is run (`QueuedRuns`). After one call at most the world is stopped at any point: `bthread_stop_world` ends all workers (`StopEnds`). |
| `control_safety` | Two non-workers set the concurrency and the flags, start bthreads and stop the world; two workers come, signal and go; everything that can be refused is. `_concurrency`, `_workers` and the pthreads agree whenever the mutex is free (`WorkersMatch`), there is one TaskControl (`OneControl`), `choose_one_group` finds a group from the publication of the control until the stop (`GroupFound`), and every call returns but for the dead ends of section 6 (`CallsReturn`). |
| `life_safety` | Three bthreads of both stack types on two slots, two workers, two stacks, versions of two bits, a joiner and a stopper. No stack is shared or lost (`StacksOwned`), a worker is never on a stack that was given away (`ExecutesOnOwnStack`), no tid is 0 and what `bthread_stopped` and `exists` answer for a tid is true of the bthread it was given to, late stops included (`TidsAnswerTruly`), join returns after the end of its bthread (`JoinIsSound`) and does return (`JoinReturns`). |
| `socket_write` | Two threads write without end to one connection. One thread has the right to write, exactly while `_write_head` is not NULL (`OneWriter`); no released request is used (`NoUseAfterRelease`); the CHECKs of the code hold (`ChecksHold`); `Setup` is called in the order of sending (`SetupInOrder`); the list is a queue (`WritesAreQueued`, a refinement of `WriteQueue`); every request is given back (`EveryRequestEnds`). |
| `bthread_id` | Three threads lock, unlock, join, fail and destroy ids of two RPCs on one slot, with interrupted sleeps and with a range that is extended to 2. The lock is exclusive (`OneHolder`), an id of a former RPC is refused (`IdsKeepTheirLife`), no sleeper is forgotten that slept on the `contended_ver` of the time (`CountedAreWoken`), errors are handled before the lock is free (`ErrorsAreHandled`), the calls return, but for a thread that sleeps uncounted (`CallsReturn`). |

Every module has one type invariant, `TypeOK`. It is part of every proved inductive
invariant (section 7); except in `Butex` and `Sleep` the first safety invariant of the run
includes it (`OnePlace`, `WorkersMatch`, `StacksOwned`, `OneWriter`, `OneHolder`).
`PROJECT.json` gives for every property a
mutant of the code that violates it.

Runs that show a disagreement of the code with what is said of it:

| run | the code | is said to |
|---|---|---|
| `butex_lost_timeout` | a timer that fires before the append finds `container == NULL` and is lost (`butex.cpp:459`) | cancel the queueing (`docs/butex.md:122`) |
| `butex_stale_container` | `pw.container` is read before it is assigned (`butex.cpp:546`): an interrupter finds a stale butex there and signals the pthread, which then queues its record, returns and leaves it in the list | signal only a record that is "already removed from the butex" (`butex.cpp:133`) |
| `sleep_stale_id` | a late `_add_sleep_event` overwrites the id of the next sleep (`task_group.cpp:725`), and the interruption unschedules the wrong timer | wake reliably (`bthread.h:56`) |
| `bthread_id_range2` | a thread that is about to sleep on the old `contended_ver` finds that value again when another one has locked with a range of 2, and sleeps though the holder does not know of it (`docs/client_bthread_sync.md:110, 148`) | be woken by who has the lock (`docs/client_bthread_sync.md:73-74`) |

## 4. Bounds

`MaxCalls`, `MaxSleeps`, `MaxInterrupts`, `MaxStarts` bound the calls of a behaviour;
they appear in guards of calls only, so an operation that began always can end.

- *Butex*: a race needs the waiter, a waker, the timer and an interrupter on one
  record: three calls and a timer, with every kind of waiter in one run. A wait that
  follows a wait, while a caller still holds the first record, takes a call more: it is
  left to the theorems, which hold for any number of calls. One butex
  suffices, because `erase_from_butex` compares the container; a second is in
  `butex_stale_container` and in the theorems.
- *Sleep*: three sleeps with two per life cover a late `_add_sleep_event` that meets a
  later sleep of the same bthread, and one that meets the next bthread on the slot.
- *Sched*: capacity 1 makes both queues full with three tasks. Only the state of the
  lots decides whether a worker is overlooked, so one lot (safety) and two (liveness)
  show shared and separate lots. `MCSched` adds the symmetry of workers and of tasks, used
  where all workers exist from the start and no liveness is checked. For `sched_liveness`
  it starts the idle task with the smallest number and puts the non-worker and the first
  worker in lot 0, the second worker in any lot. With two tasks and two calls the first
  bthread starts the second from its worker, which puts either of them in the worker's own
  `_rq`, or yields, and a batch started with NOSIGNAL is flushed; a full `_rq`, for which a
  third task is needed, is in `sched_safety` and the theorems only. A behaviour with a
  stop has one call. The order of starts and this last bound are action constraints; they
  leave out only starts, yields, flushes and stops, of which no fairness is assumed.
- *TaskLife*: two stacks for three bthreads and two workers make `get_stack` fail, two
  version bits make the version come round once. A tid can then be valid again: this is
  the wrap of the code's 32 bits after 2^32 - 1 reuses of one slot. `JoinReturns` excepts
  a joiner that met it; a stopper cannot meet it with three bthreads.
- *Control*: flags from 1 to 2, two pthreads, two TaskControls (one may fail), arguments
  0 to 2, three calls or signals. Two non-workers and a worker can so be in
  `add_workers`, before it and behind it at once; the world is stopped once.
- *SocketWrite*: no bound on the calls; the pool of three requests of two bytes bounds the
  state. One request is written, one is in the hole between exchange and link, one is
  behind it; a request can be written in part.
- *BthreadId*: three threads, four calls, two lives, ranges 0 and 2: a holder, a sleeper
  and a late one with an id of the former life. 2 is the range for which versions of
  different meaning meet, and the theorems hold for any. A joiner of an id that nobody destroys
  waits for good, so deadlock is not checked; `CallsReturn` says which calls return.

## 5. Fairness

Steps inside the runtime are weakly fair per thread: worker threads, the TimerThread and
callers are pthreads, which the kernel schedules, and none of the modelled locks is held
across a wait except `g_task_control_mutex`, which is modelled. Beginning a new call is
never fair: a program may stop calling. In `Butex` this covers the steps of waiters,
wakers, interrupters and the TimerThread; timeouts expire (the clock moves), which
concerns the waits that have one. In `Sleep`, `SleepReturns` has the fairness of timers as
a hypothesis (`TimerFairness`), `InterruptWakes` does without. In `Sched` a worker's
search, its `signal_task` and the end of the task it runs are fair (a task ends or blocks,
for the runtime is cooperative: a task that never yields does starve the others). In
`Control` some thread that can go on does; the calls are bounded, so nobody is overtaken
without end. In `SocketWrite` threads run on, a
connection attempt ends, and a connection that is tried again and again takes bytes or
fails in the end (strong fairness, for `WaitEpollOut` and the write alternate); the
program need not write. In `BthreadId` threads run on and whoever has the lock unlocks or
destroys the id, as the callbacks of an RPC do. In `TaskLife` only waking the joiners of a
bthread whose version has been bumped and the joiners' own steps are fair; a bthread need
not end.

## 6. Seen while reading, without a run

- `erase_from_butex_and_wakeup` passes WAITER_STATE_INTERRUPTED (`butex.cpp:444`; the
  comment at 497 says TIMEDOUT), so a bthread's wait never returns ETIMEDOUT.
- An interruption of a butex wait can be lost, though `bthread.h:56` promises to wake "no
  matter how the 2 threads are interleaved". The interrupter takes `current_waiter`, finds
  NULL and so will erase nobody (`task_group.cpp:775-790`); the waiter publishes itself, finds
  `interrupted` false and is queued; then the interrupter sets `interrupted`
  (`task_group.cpp:784`). In `Butex` this is `int_flag_only`.
- The late `_add_sleep_event` can leave a `current_sleep` with a bthread that waits on a
  butex, and the CHECK at `task_group.cpp:823` fails.
- After `stop_and_join`, `choose_one_group` returns NULL (`task_control.cpp:200`;
  `task_control.h:61` says never), and `_destroy_group` finds no group to delete.
  `GroupFound` says that it is found until then.
- `ready_to_run_general` drops the tid when the caller is not a worker
  (`task_group.cpp:669`; `task_group.h:143` says it decides between remote and local): a
  bthread woken by such a thread, or by the TimerThread, is never run. `NeverForgotten` and
  `MismatchReturns` except it and nothing else.
- `butex_requeue` computes both butexes from one argument and locks one mutex twice
  (`butex.cpp:404`; `butex.h:41` says it moves the waiters).
- Handing a stack over in `ending_sched` reaches the FATAL message of `sched_to`
  (`task_group.cpp:582`; the comment at 497 says it "also works").
- Dead ends of `Control` (`Trapped`): a thread that starts a bthread when the world is
  stopped uses the NULL that `choose_one_group` returns; `stop_and_join` joins a slot of
  `_workers` that has no pthread, after a failed `init` or when `bthread_stop_world` overlaps
  `add_workers`, which resizes `_workers` before it fills it; `init` waits for ever when all
  its workers have quit, after they failed to create a group (the TODO at
  `task_control.cpp:159`); `~TaskControl` runs with `g_task_control_mutex` held and joins a
  worker that waits for this mutex in `signal_task`.
- The unlocked comparison at `bthread.cpp:268` sees the concurrency that `add_workers` of
  another setter has raised and not yet reached. The setter then returns 0 for workers that
  may never be created. If it is the validator of the flag, the value is stored, and
  `FLAGS_bthread_concurrency += added` at 291 counts the workers twice, possibly beyond
  BTHREAD_MAX_CONCURRENCY.
- More workers than any caller asked for can be made. With n workers, a flag of n and a
  setter of n + 1 under the mutex, a validator has accepted a smaller m before there was a
  control, and gflags stores it between `bthread.cpp:289` and the argument of `add_workers`
  at 291: n + 1 - m workers are added, not one. The same store between the two accesses to
  the flag in 291 is overwritten. Neither a comment nor a test bounds the workers by the
  flag, so no property does; `WorkersMatch` says that the bookkeeping stays exact.
- `usleep(0)` yields; `task_group.h:80` says it does nothing.
- `push_rq` of all workers can spin on full queues, which the source has as a TODO.

## 7. Proofs

TLAPS proves the theorems below for every value of the constants that satisfies the modules'
assumptions. These keep kinds of threads apart and bounds in Nat, and say otherwise that
there is more than one version and that slots are finitely many (`TaskLife`), that there is
a lot, a first worker and another thread (`Sched`). Theorems that need more name it: those
on `Butex` that the unassigned `pw.container` is NULL, since the code breaks them otherwise.
The bounds are arbitrary numbers, so no theorem depends on how long a behaviour is.

*Butex* (`ButexProofs`, with facts on sequences in `ListLemmas`). `ContainerIsList`
and `AtMostOneWaker` are not inductive: that a waker is alone
follows from where the waiter is, that a list has no waiter twice from `container`, and
both from what each program point of waiter, caller and eraser implies. `ButexInv` is
the conjunction of the types, these facts about program points (with `SignalInv`: a
signalled pthread is in no list), and the two
properties. Its proof has one step per action and conjunct. `ButexInvariant`,
`TypeCorrect`, `ContainerCorrect` and `OneWaker` follow, all under
`StaleContainers = {NULL}`.

That a record is not used after its wait needs to know who may still have it. `RecordInv`
adds to `ButexInv` that `waiter_lock` is held by whoever is in the append (`LockInv`), that
a queued waiter is on the butex it waits for (`HomeInv`), and that a timer or an interrupter
has the record only of a waiter that has not passed the spin that waits for it (`TimerInv`,
`InterruptInv`): the two loops at the end of `butex_wait`. `RecordInvariant` and
`RecordsOutliveTheirUse` follow, and with `RecordInv` the action property `CancelKept`
(`CancelIsFinal`). `WakesReachWaiters` (`NoLostWake`) has the hypothesis under which the
code promises it, that every change of the value is followed by `butex_wake_all`
(`StoreOps`). `SuspendedAreKept` (`NeverForgotten`) is about all waits and all callers: the
only step that loses a suspended bthread is a `ready_to_run_general` outside the workers
(section 6).

For the scheduler a `butex_wait` is what a `usleep` is, and both implement the same abstract
module. Every action of `Butex` is a step of `Suspension` for its bthreads or changes
nothing of it (`ButexImplementsSuspension`): a cancelled wait and each of waker, timer and
interrupter finds the bthread switched out and in no run queue, by `ButexInv`.

*Sleep* (`SleepProofs`). `SleepInv` says that whatever can still wake a sleeper (a queued
tid, a timer, an `_add_sleep_event` that has not scheduled one) belongs to the sleep it
is in and is alone, and that a sleeping bthread has one. This gives `ResumedOnce` (one
token at most, and only while asleep), `SleepArgsAlive` and `SleeperNotForgotten`, and with
them every step of `Sleep` is a step or a stutter of `Suspension`
(`SleepImplementsSuspension`).

*BthreadId* (`BthreadIdProofs`). The butex of an id says three things at once: whether the
lock is taken, whether somebody waits, and which RPC it is. `BthreadIdInv` separates them:
`HolderInv` (one holder or destroyer, and exactly when the butex is not `first_ver`),
`IssuedInv` (the version of an id tells its RPC, so a check of the version is a check of the
RPC), `QueueInv` (the queues hold exactly the threads that sleep), `WaitInv` (which version
a thread that is about to sleep expects: a former `contended_ver` of its RPC, which is at
most the present one) and `WakeInv` (a queued thread that is counted is announced in the
butex or somebody is about to wake it). Nothing is assumed of the ranges: `butex_wait` lets
a thread sleep on an outdated `contended_ver` only if that is the `locked_ver` by now, and
then it is `uncounted`. Theorems: `LockIsExclusive`, `StaleIdsAreRefused`,
`SleepersAreAnnounced`, `NoErrorIsLeftBehind`.

*TaskLife* (`TaskLifeProofs`). `StackInv` and `WorkerInv` say who owns a stack between the
steps of a hand-over and of a release, which gives `StacksHaveOneOwner` and
`WorkersAreApart`. `TidInv` measures how often the version of a slot moved on since a tid
was given out, modulo the versions; up to `NVersions - 2` moves the tid is the only one
with its version. From this and from what a joiner and a stopper hold (`JoinInv`,
`StopInv`) follow `AnswersAreTrue` and the action property `JoinWaitsForTheEnd`.

*Control* (`ControlProofs`). Who may be where is said along `g_task_control_mutex`: a
thread that adds workers, or makes or deletes a TaskControl, holds it (`MutexInv`,
`PlaceInv`), so the control it works on is not touched by another (`AtInv`). `WorkersInv`
says at each step of `add_workers`, `init` and the destructor which slots of `_workers`
hold a worker and how `_concurrency` compares, whatever has failed before. `NumInv`
says that an argument which was found valid is a number and that a TaskControl is new until
it is allocated, and `GroupsInv` says that the slots of `_groups`
below `_ngroup`, and below an `_ngroup` that a thread loaded before the stop, are filled,
and that a control which was returned has a group until it is stopped. Theorems:
`WorkersAreKnown`, `ControlIsUnique`, `GroupsAreFound`. They hold whatever is stored in the
flags meanwhile.

*SocketWrite* (`SocketWriteProofs`). `SocketInv` reads the list off the order of the
exchanges: for some k the first k requests are in the hands of the holder of the right,
linked forwards and ended by NULL (`InHand`), and each of those behind is linked to the one
before it or not yet linked (`AsAdded`). While the holder reverses the list, the part
between has been turned round as far as the local variables say (`Reversing`). Around this,
`QueueInv` says which requests are in the queue and that `_write_head` is its end,
`OwnerInv` that the right goes with its beginning, `LinkInv` that a thread in the hole
between exchange and link comes right behind the request it will link to, `FreeInv` that a
request in the pool is not linked, and `LocalsInv` which local variables are in use. This
gives `RightIsHeldOnce` (`OneWriter`), `RequestsOutliveTheirUse` (`NoUseAfterRelease`) and
`ChecksPass` (`ChecksHold`). `ReadyInv` adds that while the connection is good exactly the
requests in hand are set up, or those before the next one to be, and that a request that is
not set up is whole (`SetupComesInOrder`). With `SocketInv` every action is one operation of
`WriteQueue` or leaves the queue as it is (`SocketIsAQueue`): the exchange submits, a write
sends, since what `DoWrite` is given is the beginning of the queue (`ListInHand`), `Skip` and
the successful compare-and-swap return the first request, or drop it after a failure.
Assumed are `NULL` and `UNCONNECTED` that are no requests, and `Size > 0`.

*Sched* (`SchedProofs`). `SchedInv` has two parts. The first holds always: what each thread
has in hand at each program point (`WorkerInv`, `NonWorkerInv`, `SignalInv`), that nothing
moves before the first caller of `get_or_new_task_control` (`StartInv`), and that a tid has
one place (`PlaceInv`, over the four kinds of places). It gives `TidIsInOnePlace`. Its
hypothesis leaves out the states in which a thread has got NULL from `choose_one_group`
after a stop (section 6), which `TypeOK` excludes; before a stop there are none
(`TidIsInOnePlaceUntilStop`). The second part holds until a stop. `GroupInv` says that the
groups are those of the workers that have started and that remote pushes go to them. That
workers do not all sleep is not inductive: a push and the search of a worker overlap in
many ways. What holds at every step is that a worker with tasks of its own will look at
them again, or is signalled on its own lot, which comes first in the round over the lots
(`OwnQueueInv`, `SignalsOwnLot`), and that for a remote queue with flushed tasks some worker
is still to look at it (`WillSee`), or some signal is still to reach every worker that is
not (`Covers`): the lots it has not come to (`WillSignal`, `LotsRound`). A worker that looked
before the push has a state that the signal's `fetch_add` makes stale (`fresh`), so that it
will not sleep on it; one that sleeps is woken, or there was none in that lot. This gives
`WorkersDoNotIdle` for any number of lots and workers, without a hypothesis.

The inductive invariants were model-checked on the instances of the runs before they were
proved. Only model-checked: all liveness, for fairness and ENABLED are out of reach of the
prover (`MismatchReturns`, `WokenReturns`, `SleepReturns`, `InterruptWakes`, `QueuedRuns`,
`StopEnds`, `CallsReturn`, `JoinReturns`, `EveryRequestEnds`). Every safety property of a
passing run is stated by a theorem.

## 8. Not modelled

`butex_requeue`, which never returns as it is written (section 6); `bthread_list`, timers
of the C API and the printing of statistics (thin calls or formatting); mutexes,
conditions and keys, which `bthread.h` declares and nothing implements; the object and
resource pools and stack allocation beyond success and failure; RPC client, server and the
reading side of the IO, whose notes quote single paths through calls that are not in the
repository. Memory order is sequentially consistent in all modules.

## 9. Plan

1. Done: all modules of section 2 and their runs; every safety property of a passing run
   as a theorem; `Butex` and `Sleep` implement `Suspension`, `SocketWrite`
   implements `WriteQueue`.
2. Next: the parts listed as partly modelled in `PROJECT.json`.
