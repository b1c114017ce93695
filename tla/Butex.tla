------------------------------- MODULE Butex -------------------------------
(***************************************************************************)
(* The butex of bthread: a futex on which bthreads and pthreads wait.      *)
(*                                                                         *)
(* A waiter record lives on the stack of the thread that waits, so one     *)
(* identity w stands for the thread, its record (ButexBthreadWaiter or     *)
(* ButexPthreadWaiter) and its TaskMeta.  Three kinds of actors touch a    *)
(* record: the wakers and interrupters (Callers), the TimerThread, and the *)
(* waiting thread itself.                                                  *)
(*                                                                         *)
(* The run queues are abstracted to tokens[w], the number of times the tid *)
(* of w is in a run queue (or was switched to directly): a suspended       *)
(* bthread resumes by consuming a token.                                   *)
(***************************************************************************)
EXTENDS Integers, Sequences, SequencesExt, FiniteSets

CONSTANTS
    Bthreads,         \* bthreads that call butex_wait
    Pthreads,         \* pthreads that call butex_wait
    TaskPthreads,     \* the pthreads among them that run a task (g != NULL)
    TimedWaiters,     \* the waiters that may pass an abstime
    Butexes,
    Values,           \* values of Butex::value
    Callers,          \* threads that wake or interrupt
    Workers,          \* the callers whose tls_task_group is not NULL
    TimerThread,      \* the thread that runs expired timers
    NULL,
    Ops,              \* wake operations the callers use
    StoreOps,         \* those a caller may use after storing a new value
    Excluded,         \* values of butex_wake_except's excluded_bthread
    StaleContainers,  \* what pw.container may hold before it is assigned
    MaxCalls          \* bound: number of waits, wakes and interrupts

Waiters == Bthreads \cup Pthreads
Erasers == Callers \cup Pthreads \cup {TimerThread}

WakeOps == {"butex_wake", "butex_wake_all", "butex_wake_except"}

ASSUME ButexAssumption ==
    /\ Bthreads \cap Pthreads = {}
    /\ Callers \cap Waiters = {}
    /\ TimerThread \notin Callers \cup Waiters
    /\ TaskPthreads \subseteq Pthreads
    /\ TimedWaiters \subseteq Waiters
    /\ Workers \subseteq Callers
    /\ NULL \notin Waiters \cup Butexes
    /\ Ops \subseteq WakeOps
    /\ StoreOps \subseteq Ops
    /\ Excluded \subseteq Bthreads \cup {NULL}
    /\ StaleContainers \subseteq Butexes \cup {NULL}
    /\ Butexes # {} /\ Values # {}
    /\ MaxCalls \in Nat

VARIABLES
    value,           \* Butex::value
    waiters,         \* Butex::waiters
    waiter_lock,     \* Butex::waiter_lock: the waiter holding it across two steps
    container,       \* ButexWaiter::container
    waiter_state,    \* ButexBthreadWaiter::waiter_state
    sleep_id,        \* ButexBthreadWaiter::sleep_id # 0
    expected_value,  \* the expected_value of the wait
    butex,           \* the butex of the wait (initial_butex)
    sig,             \* ButexPthreadWaiter::sig = PTHREAD_SIGNALLED
    ptimeout,        \* the pthread's ptimeout # NULL
    current_waiter,  \* TaskMeta::current_waiter # NULL
    interrupted,     \* TaskMeta::interrupted
    pc,              \* where the waiter is
    timer,           \* the timer task scheduled for the wait
    tokens,          \* times the tid is in a run queue
    cpc,             \* where the caller is
    cb,              \* the butex the caller is about to lock
    todo,            \* waiters the caller took off a butex and still has to wake
    er,              \* where a thread is in erase_from_butex
    ew,              \* the waiter it is erasing
    eb,              \* the container it loaded
    calls            \* operations started so far

butexVars  == <<value, waiters, waiter_lock>>
recordVars == <<container, waiter_state, sleep_id, expected_value, butex, sig,
                ptimeout>>
metaVars   == <<current_waiter, interrupted>>
threadVars == <<pc, timer, tokens>>
callerVars == <<cpc, cb, todo>>
eraseVars  == <<er, ew, eb>>
vars == <<butexVars, recordVars, metaVars, threadVars, callerVars, eraseVars,
          calls>>

WaiterStates == {"READY", "TIMEDOUT", "UNMATCHEDVALUE", "INTERRUPTED"}
TimerStates  == {"none", "pending", "running", "done"}
WaiterPCs == {"idle", "remained", "append", "cancel", "cancel_ready", "blocked",
              "woken", "spin", "ret",
              "p_lock", "p_append", "p_futex", "p_erase", "p_exit", "p_ret"}
CallerPCs == WakeOps \cup
             {"idle", "wake_one", "wake_one_ready", "all_signal", "all_tail",
              "all_ready", "except_signal", "except_ready", "interrupt",
              "int_flag", "int_flag_only", "int_erase"}
EraserPCs == {"idle", "load", "lock", "wake", "erased", "missed"}

Init ==
    /\ value \in [Butexes -> Values]
    /\ waiters = [b \in Butexes |-> <<>>]
    /\ waiter_lock = [b \in Butexes |-> NULL]
    /\ container = [w \in Waiters |-> NULL]
    /\ waiter_state = [w \in Waiters |-> "READY"]
    /\ sleep_id = [w \in Waiters |-> FALSE]
    /\ expected_value = [w \in Waiters |-> CHOOSE v \in Values : TRUE]
    /\ butex = [w \in Waiters |-> CHOOSE b \in Butexes : TRUE]
    /\ sig = [w \in Waiters |-> FALSE]
    /\ ptimeout = [w \in Waiters |-> FALSE]
    /\ current_waiter = [w \in Waiters |-> FALSE]
    /\ interrupted = [w \in Waiters |-> FALSE]
    /\ pc = [w \in Waiters |-> "idle"]
    /\ timer = [w \in Waiters |-> "none"]
    /\ tokens = [w \in Waiters |-> 0]
    /\ cpc = [c \in Callers |-> "idle"]
    /\ cb = [c \in Callers |-> NULL]
    /\ todo = [c \in Callers |-> <<>>]
    /\ er = [a \in Erasers |-> "idle"]
    /\ ew = [a \in Erasers |-> NULL]
    /\ eb = [a \in Erasers |-> NULL]
    /\ calls = 0

-----------------------------------------------------------------------------
(* Helpers                                                                 *)

\* TimerThread::unschedule(sleep_id) > 0: the callback is running.
TimerRunning(w) == sleep_id[w] /\ timer[w] = "running"

\* Mutant: the timer is forgotten although its callback is running.
UnsleepForgets(w) ==
    /\ sleep_id' = [sleep_id EXCEPT ![w] = FALSE]
    /\ timer' = [timer EXCEPT ![w] = IF @ = "pending" THEN "done" ELSE @]

\* unsleep_if_necessary(w): remove the timer unless its callback is running.
unsleep_if_necessary(w) ==
    IF sleep_id[w] /\ ~TimerRunning(w)
    THEN /\ sleep_id' = [sleep_id EXCEPT ![w] = FALSE]
         /\ timer' = [timer EXCEPT ![w] = "done"]
    ELSE UNCHANGED <<sleep_id, timer>>

\* ready_to_run, ready_to_run_remote, exchange: the tid of w gets to run.
ready_to_run(w) == tokens' = [tokens EXCEPT ![w] = @ + 1]

\* Mutant: the remote branch is taken by workers as well.
GeneralDrops(a, w) == UNCHANGED tokens

\* ready_to_run_general(w) called by thread a.  A thread without a task group
\* takes the remote branch, which flushes the nosignal count of the group and
\* drops the tid.
ready_to_run_general(a, w) ==
    IF a \in Workers THEN ready_to_run(w) ELSE UNCHANGED tokens

\* wakeup_pthread(w): store sig and wake the futex.
wakeup_pthread(w) == sig' = [sig EXCEPT ![w] = TRUE]

\* b->waiter_lock can be taken.
Unlocked(b) == waiter_lock[b] = NULL

\* s[i] is the first pthread of list s.
IsFirstPthread(s, i) ==
    s[i] \in Pthreads /\ \A j \in 1..(i - 1) : s[j] \notin Pthreads

\* List s holds no pthread.
NoPthread(s) == Range(s) \cap Pthreads = {}

\* erase_from_butex returns: its local variables are gone.
EraseReturns(a) ==
    /\ er' = [er EXCEPT ![a] = "idle"]
    /\ ew' = [ew EXCEPT ![a] = NULL]
    /\ eb' = [eb EXCEPT ![a] = NULL]

\* Mutant: a waiter that is taken off its list keeps its container.
StillAttached(S) == container

\* container.store(NULL) for the waiters of set S.
Detached(S) == [w \in Waiters |-> IF w \in S THEN NULL ELSE container[w]]

-----------------------------------------------------------------------------
(* butex_wait by a bthread                                                 *)

\* Start of butex_wait: the value matches (otherwise the call returns
\* EWOULDBLOCK and nothing changes), the record is filled, the timer is
\* scheduled, current_waiter is published and wait_for_butex becomes the
\* remained function of the group that switches to another bthread.
butex_wait(w, b) ==
    /\ w \in Bthreads
    /\ pc[w] = "idle"
    /\ calls < MaxCalls
    /\ calls' = calls + 1
    /\ \E timed \in (IF w \in TimedWaiters THEN BOOLEAN ELSE {FALSE}) :
          /\ sleep_id' = [sleep_id EXCEPT ![w] = timed]
          /\ timer' = [timer EXCEPT ![w] = IF timed THEN "pending" ELSE "none"]
    /\ container' = [container EXCEPT ![w] = NULL]
    /\ waiter_state' = [waiter_state EXCEPT ![w] = "READY"]
    /\ expected_value' = [expected_value EXCEPT ![w] = value[b]]
    /\ butex' = [butex EXCEPT ![w] = b]
    /\ current_waiter' = [current_waiter EXCEPT ![w] = TRUE]
    /\ pc' = [pc EXCEPT ![w] = "remained"]
    /\ UNCHANGED <<butexVars, sig, ptimeout, interrupted, tokens, callerVars,
                   eraseVars>>

\* Mutant: the value is not compared again under waiter_lock.
WaitUnchecked(w) ==
    /\ pc[w] = "remained"
    /\ Unlocked(butex[w])
    /\ \/ /\ waiter_state[w] = "READY" /\ ~interrupted[w]
          /\ waiter_lock' = [waiter_lock EXCEPT ![butex[w]] = w]
          /\ pc' = [pc EXCEPT ![w] = "append"]
       \/ /\ ~(waiter_state[w] = "READY" /\ ~interrupted[w])
          /\ pc' = [pc EXCEPT ![w] = "cancel"]
          /\ UNCHANGED waiter_lock
    /\ UNCHANGED <<value, waiters, recordVars, metaVars, timer, tokens,
                   callerVars, eraseVars, calls>>

\* wait_for_butex up to the decision, taken under waiter_lock: the wait is
\* cancelled when the value changed, a timeout was recorded or the bthread was
\* interrupted; otherwise the lock is kept for the append.
wait_for_butex(w) ==
    /\ pc[w] = "remained"
    /\ Unlocked(butex[w])
    /\ \/ /\ value[butex[w]] # expected_value[w]
          /\ waiter_state' = [waiter_state EXCEPT ![w] = "UNMATCHEDVALUE"]
          /\ pc' = [pc EXCEPT ![w] = "cancel"]
          /\ UNCHANGED waiter_lock
       \/ /\ value[butex[w]] = expected_value[w]
          /\ waiter_state[w] = "READY" /\ ~interrupted[w]
          /\ waiter_lock' = [waiter_lock EXCEPT ![butex[w]] = w]
          /\ pc' = [pc EXCEPT ![w] = "append"]
          /\ UNCHANGED waiter_state
       \/ /\ value[butex[w]] = expected_value[w]
          /\ ~(waiter_state[w] = "READY" /\ ~interrupted[w])
          /\ pc' = [pc EXCEPT ![w] = "cancel"]
          /\ UNCHANGED <<waiter_state, waiter_lock>>
    /\ UNCHANGED <<value, waiters, container, sleep_id, expected_value, butex,
                   sig, ptimeout, metaVars, timer, tokens, callerVars,
                   eraseVars, calls>>

\* b->waiters.Append(bw), container.store(b), unlock: the bthread or the
\* pthread w is queued.
Append_waiter(w, from, to) ==
    /\ pc[w] = from
    /\ waiters' = [waiters EXCEPT ![butex[w]] = Append(@, w)]
    /\ container' = [container EXCEPT ![w] = butex[w]]
    /\ waiter_lock' = [waiter_lock EXCEPT ![butex[w]] = NULL]
    /\ pc' = [pc EXCEPT ![w] = to]
    /\ UNCHANGED <<value, waiter_state, sleep_id, expected_value, butex, sig,
                   ptimeout, metaVars, timer, tokens, callerVars, eraseVars,
                   calls>>

\* Mutant: the waiter was appended before the checks and is left in the list.
CancelQueued(w) ==
    /\ pc[w] = "cancel"
    /\ waiters' = [waiters EXCEPT ![butex[w]] = Append(@, w)]
    /\ container' = [container EXCEPT ![w] = butex[w]]
    /\ unsleep_if_necessary(w)
    /\ pc' = [pc EXCEPT ![w] = "cancel_ready"]
    /\ UNCHANGED <<value, waiter_lock, waiter_state, expected_value, butex, sig,
                   ptimeout, metaVars, tokens, callerVars, eraseVars, calls>>

\* End of a cancelled wait_for_butex: drop the timer ...
CancelUnsleep(w) ==
    /\ pc[w] = "cancel"
    /\ unsleep_if_necessary(w)
    /\ pc' = [pc EXCEPT ![w] = "cancel_ready"]
    /\ UNCHANGED <<butexVars, container, waiter_state, expected_value, butex,
                   sig, ptimeout, metaVars, tokens, callerVars, eraseVars, calls>>

\* ... and make the bthread runnable again.
CancelReady(w) ==
    /\ pc[w] = "cancel_ready"
    /\ ready_to_run(w)
    /\ pc' = [pc EXCEPT ![w] = "blocked"]
    /\ UNCHANGED <<butexVars, recordVars, metaVars, timer, callerVars,
                   eraseVars, calls>>

\* A worker takes the tid from a run queue and switches to the bthread.
Resume(w) ==
    /\ pc[w] = "blocked"
    /\ tokens[w] > 0
    /\ tokens' = [tokens EXCEPT ![w] = @ - 1]
    /\ pc' = [pc EXCEPT ![w] = "woken"]
    /\ UNCHANGED <<butexVars, recordVars, metaVars, timer, callerVars,
                   eraseVars, calls>>

\* First BT_LOOP_WHEN: spin while the timer callback is running.
SpinTimer(w) ==
    /\ pc[w] = "woken"
    /\ ~TimerRunning(w)
    /\ unsleep_if_necessary(w)
    /\ pc' = [pc EXCEPT ![w] = "spin"]
    /\ UNCHANGED <<butexVars, container, waiter_state, expected_value, butex,
                   sig, ptimeout, metaVars, tokens, callerVars, eraseVars, calls>>

\* Second BT_LOOP_WHEN: exchange(NULL) until it returns the waiter, that is,
\* until no interrupter uses it.  Shared with butex_wait_from_pthread.
SpinWaiter(w, from, to) ==
    /\ pc[w] = from
    /\ current_waiter[w]
    /\ current_waiter' = [current_waiter EXCEPT ![w] = FALSE]
    /\ pc' = [pc EXCEPT ![w] = to]
    /\ UNCHANGED <<butexVars, recordVars, interrupted, timer, tokens,
                   callerVars, eraseVars, calls>>

\* The rest of butex_wait: the interruption is consumed and the call returns.
\* Shared with butex_wait_from_pthread.
Return(w, from) ==
    /\ pc[w] = from
    /\ interrupted' = [interrupted EXCEPT ![w] = FALSE]
    /\ pc' = [pc EXCEPT ![w] = "idle"]
    /\ UNCHANGED <<butexVars, recordVars, current_waiter, timer, tokens,
                   callerVars, eraseVars, calls>>

BthreadStep(w) ==
    \/ wait_for_butex(w)
    \/ Append_waiter(w, "append", "blocked")
    \/ CancelUnsleep(w)
    \/ CancelReady(w)
    \/ Resume(w)
    \/ SpinTimer(w)
    \/ SpinWaiter(w, "spin", "ret")
    \/ Return(w, "ret")

-----------------------------------------------------------------------------
(* butex_wait_from_pthread                                                 *)

\* The record pw is put on the stack with sig cleared; its container is not
\* assigned.  A thread that runs a task publishes pw as current_waiter.
butex_wait_from_pthread(w, b) ==
    /\ w \in Pthreads
    /\ pc[w] = "idle"
    /\ calls < MaxCalls
    /\ calls' = calls + 1
    /\ \E timed \in (IF w \in TimedWaiters THEN BOOLEAN ELSE {FALSE}) :
          ptimeout' = [ptimeout EXCEPT ![w] = timed]
    /\ \E stale \in StaleContainers :
          container' = [container EXCEPT ![w] = stale]
    /\ sig' = [sig EXCEPT ![w] = FALSE]
    /\ expected_value' = [expected_value EXCEPT ![w] = value[b]]
    /\ butex' = [butex EXCEPT ![w] = b]
    /\ current_waiter' = [current_waiter EXCEPT ![w] = w \in TaskPthreads]
    /\ pc' = [pc EXCEPT ![w] = "p_lock"]
    /\ UNCHANGED <<butexVars, waiter_state, sleep_id, interrupted, timer,
                   tokens, callerVars, eraseVars>>

\* Under waiter_lock: give up when the value changed (EWOULDBLOCK) or the task
\* was interrupted (EINTR, which clears the flag); otherwise keep the lock for
\* the append.
PthreadCheck(w) ==
    /\ pc[w] = "p_lock"
    /\ Unlocked(butex[w])
    /\ \/ /\ value[butex[w]] # expected_value[w]
          /\ pc' = [pc EXCEPT ![w] = "p_exit"]
          /\ UNCHANGED <<waiter_lock, interrupted>>
       \/ /\ value[butex[w]] = expected_value[w]
          /\ w \in TaskPthreads /\ interrupted[w]
          /\ interrupted' = [interrupted EXCEPT ![w] = FALSE]
          /\ pc' = [pc EXCEPT ![w] = "p_exit"]
          /\ UNCHANGED waiter_lock
       \/ /\ value[butex[w]] = expected_value[w]
          /\ ~(w \in TaskPthreads /\ interrupted[w])
          /\ waiter_lock' = [waiter_lock EXCEPT ![butex[w]] = w]
          /\ pc' = [pc EXCEPT ![w] = "p_append"]
          /\ UNCHANGED interrupted
    /\ UNCHANGED <<value, waiters, recordVars, current_waiter, timer, tokens,
                   callerVars, eraseVars, calls>>

\* wait_pthread: futex_wait returns and sig is set.
FutexSignalled(w) ==
    /\ pc[w] = "p_futex"
    /\ sig[w]
    /\ pc' = [pc EXCEPT ![w] = "p_exit"]
    /\ UNCHANGED <<butexVars, recordVars, metaVars, timer, tokens, callerVars,
                   eraseVars, calls>>

\* wait_pthread: futex_wait times out while sig is clear; pw is to be erased.
FutexTimeout(w) ==
    /\ pc[w] = "p_futex"
    /\ ptimeout[w] /\ ~sig[w]
    /\ pc' = [pc EXCEPT ![w] = "p_erase"]
    /\ er' = [er EXCEPT ![w] = "load"]
    /\ ew' = [ew EXCEPT ![w] = w]
    /\ UNCHANGED <<butexVars, recordVars, metaVars, timer, tokens, callerVars,
                   eb, calls>>

\* wait_pthread after its erase: when another thread is erasing pw as well, the
\* signal is on its way and is waited for without a timeout.
FutexErased(w) ==
    /\ pc[w] = "p_erase"
    /\ er[w] \in {"erased", "missed"}
    /\ EraseReturns(w)
    /\ \/ /\ er[w] = "erased" \/ sig[w]
          /\ pc' = [pc EXCEPT ![w] = "p_exit"]
          /\ UNCHANGED ptimeout
       \/ /\ er[w] = "missed" /\ ~sig[w]
          /\ ptimeout' = [ptimeout EXCEPT ![w] = FALSE]
          /\ pc' = [pc EXCEPT ![w] = "p_futex"]
    /\ UNCHANGED <<butexVars, container, waiter_state, sleep_id,
                   expected_value, butex, sig, metaVars, timer, tokens,
                   callerVars, calls>>

\* A pthread that runs no task returns at once.
PthreadReturn(w) ==
    /\ pc[w] = "p_exit"
    /\ w \notin TaskPthreads
    /\ pc' = [pc EXCEPT ![w] = "idle"]
    /\ UNCHANGED <<butexVars, recordVars, metaVars, timer, tokens, callerVars,
                   eraseVars, calls>>

PthreadStep(w) ==
    \/ PthreadCheck(w)
    \/ Append_waiter(w, "p_append", "p_futex")
    \/ FutexSignalled(w)
    \/ FutexTimeout(w)
    \/ FutexErased(w)
    \/ PthreadReturn(w)
    \/ w \in TaskPthreads /\ SpinWaiter(w, "p_exit", "p_ret")
    \/ Return(w, "p_ret")

-----------------------------------------------------------------------------
(* erase_from_butex, run by a thread a for the waiter ew[a]                *)

\* Mutant: an erase that finds no container records the timeout.
EraseLoadMarks(a) ==
    /\ er[a] = "load"
    /\ eb' = [eb EXCEPT ![a] = container[ew[a]]]
    /\ er' = [er EXCEPT ![a] = IF container[ew[a]] = NULL THEN "missed"
                                                          ELSE "lock"]
    /\ waiter_state' = [waiter_state EXCEPT ![ew[a]] =
                          IF container[ew[a]] = NULL THEN "TIMEDOUT" ELSE @]
    /\ UNCHANGED <<butexVars, container, sleep_id, expected_value, butex, sig,
                   ptimeout, metaVars, threadVars, callerVars, ew, calls>>

\* container.load outside the lock: NULL makes the call a no-op.
EraseLoad(a) ==
    /\ er[a] = "load"
    /\ eb' = [eb EXCEPT ![a] = container[ew[a]]]
    /\ er' = [er EXCEPT ![a] = IF container[ew[a]] = NULL THEN "missed"
                                                          ELSE "lock"]
    /\ UNCHANGED <<butexVars, recordVars, metaVars, threadVars, callerVars, ew,
                   calls>>

\* Mutant: the container is not compared again after the lock is taken.
EraseUnchecked(a) ==
    /\ er[a] = "lock"
    /\ Unlocked(eb[a])
    /\ waiters' = [waiters EXCEPT ![eb[a]] = RemoveFirst(@, ew[a])]
    /\ container' = [container EXCEPT ![ew[a]] = NULL]
    /\ er' = [er EXCEPT ![a] = IF a \in Pthreads THEN "erased" ELSE "wake"]
    /\ UNCHANGED <<value, waiter_lock, waiter_state, sleep_id, expected_value,
                   butex, sig, ptimeout, metaVars, threadVars, callerVars, ew,
                   eb, calls>>

\* The locked section: if the container is still the loaded one, unlink the
\* waiter; otherwise load again.  Both the TimerThread and an interrupter pass
\* WAITER_STATE_INTERRUPTED and wakeup = true; wait_pthread passes false.
EraseLocked(a) ==
    /\ er[a] = "lock"
    /\ Unlocked(eb[a])
    /\ \/ /\ container[ew[a]] = eb[a]
          /\ waiters' = [waiters EXCEPT ![eb[a]] = RemoveFirst(@, ew[a])]
          /\ container' = [container EXCEPT ![ew[a]] = NULL]
          /\ waiter_state' = [waiter_state EXCEPT ![ew[a]] =
                                IF ew[a] \in Bthreads THEN "INTERRUPTED" ELSE @]
          /\ er' = [er EXCEPT ![a] = IF a \in Pthreads THEN "erased"
                                                       ELSE "wake"]
       \/ /\ container[ew[a]] # eb[a]
          /\ er' = [er EXCEPT ![a] = "load"]
          /\ UNCHANGED <<waiters, container, waiter_state>>
    /\ UNCHANGED <<value, waiter_lock, sleep_id, expected_value, butex, sig,
                   ptimeout, metaVars, threadVars, callerVars, ew, eb, calls>>

\* The wakeup of an erased waiter.
EraseWake(a) ==
    /\ er[a] = "wake"
    /\ er' = [er EXCEPT ![a] = "erased"]
    /\ \/ ew[a] \in Bthreads /\ ready_to_run_general(a, ew[a]) /\ UNCHANGED sig
       \/ ew[a] \in Pthreads /\ wakeup_pthread(ew[a]) /\ UNCHANGED tokens
    /\ UNCHANGED <<butexVars, container, waiter_state, sleep_id,
                   expected_value, butex, ptimeout, metaVars, pc, timer,
                   callerVars, ew, eb, calls>>

EraseStep(a) == EraseLoad(a) \/ EraseLocked(a) \/ EraseWake(a)

-----------------------------------------------------------------------------
(* TimerThread                                                             *)

\* The TimerThread runs erase_from_butex_and_wakeup of an expired timer.
TimerFire(w) ==
    /\ timer[w] = "pending"
    /\ er[TimerThread] = "idle"
    /\ timer' = [timer EXCEPT ![w] = "running"]
    /\ er' = [er EXCEPT ![TimerThread] = "load"]
    /\ ew' = [ew EXCEPT ![TimerThread] = w]
    /\ UNCHANGED <<butexVars, recordVars, metaVars, pc, tokens, callerVars, eb,
                   calls>>

\* The callback returned: unschedule no longer finds the task.
TimerDone ==
    /\ er[TimerThread] \in {"erased", "missed"}
    /\ EraseReturns(TimerThread)
    /\ timer' = [timer EXCEPT ![ew[TimerThread]] = "done"]
    /\ UNCHANGED <<butexVars, recordVars, metaVars, pc, tokens, callerVars,
                   calls>>

-----------------------------------------------------------------------------
(* butex_wake, butex_wake_all, butex_wake_except                           *)

\* A caller starts a wake operation, possibly after storing a new value.
CallWake(c, b, op, v) ==
    /\ cpc[c] = "idle"
    /\ calls < MaxCalls
    /\ calls' = calls + 1
    /\ op \in Ops
    /\ v # value[b] => op \in StoreOps
    /\ value' = [value EXCEPT ![b] = v]
    /\ cpc' = [cpc EXCEPT ![c] = op]
    /\ cb' = [cb EXCEPT ![c] = b]
    /\ UNCHANGED <<waiters, waiter_lock, recordVars, metaVars, threadVars, todo,
                   eraseVars>>

\* The locked section of a wake operation: the waiters of s leave the butex,
\* those of rest stay.
Drain(c, s, rest, next) ==
    /\ Unlocked(cb[c])
    /\ waiters' = [waiters EXCEPT ![cb[c]] = rest]
    /\ container' = Detached(Range(s))
    /\ todo' = [todo EXCEPT ![c] = s]
    /\ cb' = [cb EXCEPT ![c] = NULL]
    /\ cpc' = [cpc EXCEPT ![c] = IF s = <<>> THEN "idle" ELSE next]
    /\ UNCHANGED <<value, waiter_lock, waiter_state, sleep_id, expected_value,
                   butex, sig, ptimeout, metaVars, threadVars, eraseVars, calls>>

butex_wake(c) ==
    /\ cpc[c] = "butex_wake"
    /\ LET q == waiters[cb[c]] IN
       IF q = <<>> THEN Drain(c, <<>>, <<>>, "idle")
                   ELSE Drain(c, <<Head(q)>>, Tail(q), "wake_one")

butex_wake_all(c) ==
    /\ cpc[c] = "butex_wake_all"
    /\ Drain(c, waiters[cb[c]], <<>>, "all_signal")

\* The excluded bthread is put back alone; its container was never cleared.
butex_wake_except(c, excluded) ==
    /\ cpc[c] = "butex_wake_except"
    /\ LET q == waiters[cb[c]] IN
       Drain(c, RemoveFirst(q, excluded),
             IF excluded \in Range(q) THEN <<excluded>> ELSE <<>>,
             "except_signal")

\* Caller c finished the work on its last waiter.
CallerAt(c, next, rest) ==
    /\ todo' = [todo EXCEPT ![c] = rest]
    /\ cpc' = [cpc EXCEPT ![c] = next]

\* butex_wake, a pthread: wakeup_pthread.
WakeOnePthread(c) ==
    /\ cpc[c] = "wake_one"
    /\ Head(todo[c]) \in Pthreads
    /\ wakeup_pthread(Head(todo[c]))
    /\ CallerAt(c, "idle", <<>>)
    /\ UNCHANGED <<butexVars, container, waiter_state, sleep_id,
                   expected_value, butex, ptimeout, metaVars, threadVars, cb,
                   eraseVars, calls>>

\* The wakers drop a bthread's timer before they make it runnable.
UnsleepNext(c, w, next) ==
    /\ unsleep_if_necessary(w)
    /\ cpc' = [cpc EXCEPT ![c] = next]
    /\ UNCHANGED <<butexVars, container, waiter_state, expected_value, butex,
                   sig, ptimeout, metaVars, pc, tokens, cb, todo, eraseVars,
                   calls>>

WakeOneBthread(c) ==
    /\ cpc[c] = "wake_one"
    /\ Head(todo[c]) \in Bthreads
    /\ UnsleepNext(c, Head(todo[c]), "wake_one_ready")

\* butex_wake: exchange with the bthread, or ready_to_run_remote.
\* butex_wake_all: the same for the first bthread, after all others.
WakeFirst(c) ==
    /\ \/ cpc[c] = "wake_one_ready"
       \/ cpc[c] = "all_tail" /\ Len(todo[c]) = 1
    /\ ready_to_run(Head(todo[c]))
    /\ CallerAt(c, "idle", <<>>)
    /\ UNCHANGED <<butexVars, recordVars, metaVars, pc, timer, cb, eraseVars,
                   calls>>

\* wake_all and wake_except signal the pthreads first, in queue order.
SignalPthread(c) ==
    /\ cpc[c] \in {"all_signal", "except_signal"}
    /\ \E i \in 1..Len(todo[c]) :
          /\ IsFirstPthread(todo[c], i)
          /\ wakeup_pthread(todo[c][i])
          /\ LET rest == RemoveAt(todo[c], i) IN
             CallerAt(c, IF rest = <<>> THEN "idle" ELSE cpc[c], rest)
    /\ UNCHANGED <<butexVars, container, waiter_state, sleep_id,
                   expected_value, butex, ptimeout, metaVars, threadVars, cb,
                   eraseVars, calls>>

\* wake_all then drops the timer of the first bthread, which it keeps for last,
\* and makes the others runnable from the tail on; wake_except does the latter
\* for all bthreads.
UnsleepFirst(c) ==
    /\ cpc[c] = "all_signal"
    /\ NoPthread(todo[c])
    /\ UnsleepNext(c, Head(todo[c]), "all_tail")

UnsleepTail(c) ==
    \/ /\ cpc[c] = "all_tail" /\ Len(todo[c]) > 1
       /\ UnsleepNext(c, Last(todo[c]), "all_ready")
    \/ /\ cpc[c] = "except_signal" /\ NoPthread(todo[c])
       /\ UnsleepNext(c, Last(todo[c]), "except_ready")

ReadyTail(c) ==
    /\ cpc[c] \in {"all_ready", "except_ready"}
    /\ ready_to_run_general(c, Last(todo[c]))
    /\ CallerAt(c, CASE cpc[c] = "all_ready"  -> "all_tail"
                     [] Len(todo[c]) > 1      -> "except_signal"
                     [] OTHER                 -> "idle",
                Front(todo[c]))
    /\ UNCHANGED <<butexVars, recordVars, metaVars, pc, timer, cb, eraseVars,
                   calls>>

WakeStep(c) ==
    \/ butex_wake(c)
    \/ butex_wake_all(c)
    \/ \E excluded \in Excluded : butex_wake_except(c, excluded)
    \/ WakeOnePthread(c)
    \/ WakeOneBthread(c)
    \/ WakeFirst(c)
    \/ SignalPthread(c)
    \/ UnsleepFirst(c)
    \/ UnsleepTail(c)
    \/ ReadyTail(c)

-----------------------------------------------------------------------------
(* TaskGroup::interrupt                                                    *)

\* The version_lock of w is held by an interrupter between its two steps.
VersionLocked(w) ==
    \E c \in Callers : cpc[c] \in {"int_flag", "int_flag_only"} /\ ew[c] = w

\* interrupt_and_consume_waiters takes current_waiter ...
interrupt(c, w) ==
    /\ cpc[c] = "idle"
    /\ w \in Bthreads \cup TaskPthreads
    /\ ~VersionLocked(w)
    /\ calls < MaxCalls
    /\ calls' = calls + 1
    /\ current_waiter' = [current_waiter EXCEPT ![w] = FALSE]
    /\ cpc' = [cpc EXCEPT ![c] = IF current_waiter[w] THEN "int_flag"
                                                      ELSE "int_flag_only"]
    /\ ew' = [ew EXCEPT ![c] = w]
    /\ UNCHANGED <<butexVars, recordVars, interrupted, threadVars, cb, todo, er,
                   eb>>

\* ... and sets interrupted; a waiter that was taken is then erased.
SetInterrupted(c) ==
    /\ cpc[c] \in {"int_flag", "int_flag_only"}
    /\ interrupted' = [interrupted EXCEPT ![ew[c]] = TRUE]
    /\ \/ /\ cpc[c] = "int_flag"
          /\ cpc' = [cpc EXCEPT ![c] = "int_erase"]
          /\ er' = [er EXCEPT ![c] = "load"]
          /\ UNCHANGED ew
       \/ /\ cpc[c] = "int_flag_only"
          /\ cpc' = [cpc EXCEPT ![c] = "idle"]
          /\ ew' = [ew EXCEPT ![c] = NULL]
          /\ UNCHANGED er
    /\ UNCHANGED <<butexVars, recordVars, current_waiter, threadVars, cb, todo,
                   eb, calls>>

\* Mutant: the interrupter does not put the waiter back.
WaiterKept(c) ==
    /\ cpc[c] = "int_erase"
    /\ er[c] \in {"erased", "missed"}
    /\ EraseReturns(c)
    /\ cpc' = [cpc EXCEPT ![c] = "idle"]
    /\ UNCHANGED <<butexVars, recordVars, metaVars, threadVars, cb, todo, calls>>

\* set_butex_waiter: the waiter is put back, which ends the waiter's spin.
set_butex_waiter(c) ==
    /\ cpc[c] = "int_erase"
    /\ er[c] \in {"erased", "missed"}
    /\ ~VersionLocked(ew[c])
    /\ current_waiter' = [current_waiter EXCEPT ![ew[c]] = TRUE]
    /\ EraseReturns(c)
    /\ cpc' = [cpc EXCEPT ![c] = "idle"]
    /\ UNCHANGED <<butexVars, recordVars, interrupted, threadVars, cb, todo,
                   calls>>

InterruptStep(c) ==
    \/ SetInterrupted(c)
    \/ set_butex_waiter(c)

-----------------------------------------------------------------------------

\* The program starts an operation.
Call ==
    \/ \E w \in Bthreads, b \in Butexes : butex_wait(w, b)
    \/ \E w \in Pthreads, b \in Butexes : butex_wait_from_pthread(w, b)
    \/ \E c \in Callers, b \in Butexes, op \in Ops, v \in Values :
          CallWake(c, b, op, v)
    \/ \E c \in Callers, w \in Waiters : interrupt(c, w)

Next ==
    \/ Call
    \/ \E w \in Bthreads : BthreadStep(w)
    \/ \E w \in Pthreads : PthreadStep(w)
    \/ \E a \in Erasers : EraseStep(a)
    \/ \E w \in Bthreads : TimerFire(w)
    \/ TimerDone
    \/ \E c \in Callers : WakeStep(c) \/ InterruptStep(c)

Spec == Init /\ [][Next]_vars

\* Every thread that is inside an operation keeps running; the program need not
\* start another one.
Fairness ==
    /\ \A w \in Bthreads : WF_vars(BthreadStep(w)) /\ WF_vars(TimerFire(w))
    /\ \A w \in Pthreads : WF_vars(PthreadStep(w))
    /\ \A a \in Erasers : WF_vars(EraseStep(a))
    /\ WF_vars(TimerDone)
    /\ \A c \in Callers : WF_vars(WakeStep(c)) /\ WF_vars(InterruptStep(c))

FairSpec == Spec /\ Fairness

-----------------------------------------------------------------------------
(* Properties                                                              *)

\* Every variable has its type.
TypeOK ==
    /\ value \in [Butexes -> Values]
    /\ waiters \in [Butexes -> Seq(Waiters)]
    /\ waiter_lock \in [Butexes -> Waiters \cup {NULL}]
    /\ container \in [Waiters -> Butexes \cup {NULL}]
    /\ waiter_state \in [Waiters -> WaiterStates]
    /\ sleep_id \in [Waiters -> BOOLEAN]
    /\ expected_value \in [Waiters -> Values]
    /\ butex \in [Waiters -> Butexes]
    /\ sig \in [Waiters -> BOOLEAN]
    /\ ptimeout \in [Waiters -> BOOLEAN]
    /\ current_waiter \in [Waiters -> BOOLEAN]
    /\ interrupted \in [Waiters -> BOOLEAN]
    /\ pc \in [Waiters -> WaiterPCs]
    /\ timer \in [Waiters -> TimerStates]
    /\ tokens \in [Waiters -> Nat]
    /\ cpc \in [Callers -> CallerPCs]
    /\ cb \in [Callers -> Butexes \cup {NULL}]
    /\ todo \in [Callers -> Seq(Waiters)]
    /\ er \in [Erasers -> EraserPCs]
    /\ ew \in [Erasers -> Waiters \cup {NULL}]
    /\ eb \in [Erasers -> Butexes \cup {NULL}]
    /\ calls \in Nat

\* ButexWaiter::container tells which list holds the waiter: it is the butex
\* whose waiters list contains it, NULL when none does, and no list holds a
\* waiter twice.  RemoveFromList in erase_from_butex relies on it.
ContainerIsList ==
    /\ \A b \in Butexes : IsInjective(waiters[b])
    /\ \A b \in Butexes, w \in Waiters :
          w \in Range(waiters[b]) <=> container[w] = b

\* The threads that are about to wake w: it is in their private list, or they
\* have erased it from its butex.
Wakers(w) ==
    {c \in Callers : w \in Range(todo[c])}
    \cup {a \in Erasers : er[a] = "wake" /\ ew[a] = w}

\* w sleeps in butex_wait or in wait_pthread.
Suspended(w) == pc[w] \in {"blocked", "p_futex", "p_erase"}

\* "At most one thread may wake up the waiter": a queued waiter has no waker
\* and is not runnable, a waiter has at most one waker, and its tid is never in
\* a run queue twice, or while it may still be woken, or while it runs.
AtMostOneWaker ==
    \A w \in Waiters :
       /\ \A x, y \in Wakers(w) : x = y
       /\ tokens[w] <= 1
       /\ container[w] # NULL => Wakers(w) = {} /\ tokens[w] = 0
       /\ tokens[w] = 1 => Wakers(w) = {}
       /\ container[w] # NULL \/ Wakers(w) # {} \/ tokens[w] = 1 => Suspended(w)

\* "`bw' is guaranteed to be valid": once butex_wait returned and the record is
\* off the stack, no list, waker, timer, interrupter, lock or TaskMeta
\* refers to it.
NoUseAfterReturn ==
    \A w \in Waiters : pc[w] = "idle" =>
       /\ \A b \in Butexes : w \notin Range(waiters[b]) /\ waiter_lock[b] # w
       /\ \A c \in Callers : w \notin Range(todo[c])
       /\ \A a \in Erasers : er[a] # "idle" => ew[a] # w
       /\ timer[w] \notin {"pending", "running"}
       /\ ~current_waiter[w]

\* "wait() sees unmatched value(fail to wait), or wake() sees the waiter": a
\* waiter that is queued, or about to be, although the value is no longer the
\* expected one is found by a butex_wake_all that has not locked the butex yet.
\* (For callers that store a value and then call butex_wake_all.)
NoLostWake ==
    \A w \in Waiters :
       /\ pc[w] \in {"append", "p_append"} \/ container[w] # NULL
       /\ value[butex[w]] # expected_value[w]
       => \E c \in Callers : cpc[c] = "butex_wake_all" /\ cb[c] = butex[w]

\* Bthread w is switched out and nobody will resume it.
Forgotten(w) ==
    pc[w] = "blocked" /\ container[w] = NULL /\ Wakers(w) = {} /\ tokens[w] = 0

\* Thread a is about to make w runnable by ready_to_run_general.
Readies(a, w) ==
    \/ er[a] = "wake" /\ ew[a] = w
    \/ /\ a \in Callers
       /\ cpc[a] \in {"all_ready", "except_ready"}
       /\ Last(todo[a]) = w

\* A suspended bthread is in a butex, in the hands of a waker or in a run queue
\* until it runs again.  The only way out is ready_to_run_general called by a
\* thread that is not a worker, which drops the tid.
NeverForgotten ==
    [][\A w \in Bthreads :
          Forgotten(w)' => \/ Forgotten(w)
                           \/ \E a \in Erasers \ Workers : Readies(a, w)]_vars

\* "bw->waiter_state will not change again" after wait_for_butex decided not to
\* queue, nor after a bthread that was queued runs again: what the timer and an
\* interrupter still do leaves it alone until butex_wait has read it.
CancelIsFinal ==
    [][\A w \in Bthreads :
          pc[w] \in {"cancel", "cancel_ready", "woken", "spin", "ret"} =>
             waiter_state'[w] = waiter_state[w]]_vars

\* butex_wait keeps the scheduler's contract for bthreads: whoever of waker, timer
\* and interrupter comes first, and also when the wait is cancelled while it is
\* being queued, the bthread is made ready once per wait, and only while it is
\* switched out.
Contract == INSTANCE Suspension WITH
    Threads <- Bthreads,
    running <- [w \in Bthreads |-> pc[w] \in {"idle", "woken", "spin", "ret"}],
    queued <- [w \in Bthreads |-> tokens[w]]
WaitsAreSuspensions == Contract!Spec

\* A wait whose value no longer matches returns, unless the value is changed back
\* or the tid of the bthread is dropped: the wakeup arrives, the spin loops end and
\* nobody keeps the lock.
MismatchReturns ==
    \A w \in Waiters :
       (pc[w] # "idle" /\ value[butex[w]] # expected_value[w])
          ~> \/ pc[w] = "idle" \/ value[butex[w]] = expected_value[w]
             \/ w \in Bthreads /\ Forgotten(w)

\* Every waiter that was woken returns: the TimerThread callback it spins on
\* ends, and the interrupter it spins on puts current_waiter back.
WokenReturns ==
    \A w \in Waiters : pc[w] \in {"woken", "spin", "p_exit"} ~> pc[w] = "idle"

-----------------------------------------------------------------------------
(* The inductive invariant behind the safety properties                    *)

BthreadPCs == {"idle", "remained", "append", "cancel", "cancel_ready",
               "blocked", "woken", "spin", "ret"}
PthreadPCs == {"idle", "p_lock", "p_append", "p_futex", "p_erase", "p_exit",
               "p_ret"}

\* Where a caller holds waiters it took off a butex, and where these are
\* bthreads only.
WakingPCs   == {"wake_one", "wake_one_ready", "all_signal", "all_tail",
                "all_ready", "except_signal", "except_ready"}
ReadyingPCs == {"wake_one_ready", "all_tail", "all_ready", "except_ready"}

\* Bthreads and pthreads run their own code; only bthreads get tokens.
ThreadInv ==
    /\ \A w \in Bthreads : pc[w] \in BthreadPCs
    /\ \A w \in Pthreads : pc[w] \in PthreadPCs /\ tokens[w] = 0

\* Who is inside erase_from_butex, and for whom.
EraserInv ==
    /\ \A a \in Erasers : /\ er[a] # "idle" => ew[a] \in Waiters
                          /\ er[a] = "lock" => eb[a] \in Butexes
    /\ \A w \in Pthreads : /\ er[w] # "idle" => ew[w] = w /\ pc[w] = "p_erase"
                           /\ er[w] # "wake"
    /\ \A c \in Callers :
          /\ er[c] # "idle" => cpc[c] = "int_erase"
          /\ cpc[c] \in {"int_flag", "int_flag_only", "int_erase"}
                => ew[c] \in Waiters

\* What a caller holds at each of its steps.
CallerInv ==
    \A c \in Callers :
       /\ cpc[c] \in WakeOps => cb[c] \in Butexes
       /\ todo[c] # <<>> <=> cpc[c] \in WakingPCs
       /\ IsInjective(todo[c])
       /\ cpc[c] \in ReadyingPCs => Range(todo[c]) \subseteq Bthreads
       /\ cpc[c] \in {"wake_one", "wake_one_ready"} => Len(todo[c]) = 1
       /\ cpc[c] = "all_ready" => Len(todo[c]) > 1

\* Nobody can wake w (any more): it is in no list, and no thread holds it.
Released(w) == container[w] = NULL /\ Wakers(w) = {}

\* A pthread is released before it leaves wait_pthread.
SignalInv ==
    \A w \in Pthreads :
       /\ pc[w] \in {"p_lock", "p_append"} => ~sig[w]
       /\ sig[w] => Released(w)
       /\ er[w] = "erased" => Released(w)

\* Everything that AtMostOneWaker needs to be preserved by every step.
ButexInv ==
    /\ TypeOK
    /\ ThreadInv
    /\ EraserInv
    /\ CallerInv
    /\ ContainerIsList
    /\ AtMostOneWaker
    /\ SignalInv

-----------------------------------------------------------------------------
(* What the comments of the code promise and the code does not keep        *)

\* "If the timer is triggered before queueing, cancel queueing": a bthread that
\* is queued with a timeout has a timer that can still end the wait.
TimeoutNotLost ==
    \A w \in Bthreads :
       container[w] # NULL /\ sleep_id[w] => timer[w] \in {"pending", "running"}

\* "If `sig' is changed, wakeup_pthread() must be called and `pw' is already
\* removed from the butex."  It holds when pw.container is NULL before it is
\* assigned; an interrupter that reads another butex there signals a record that
\* is still to be queued.
SignalledIsRemoved ==
    \A w \in Pthreads : sig[w] =>
       /\ \A b \in Butexes : w \notin Range(waiters[b])
       /\ Wakers(w) = {}

=============================================================================
