------------------------------- MODULE Sleep -------------------------------
(***************************************************************************)
(* bthread_usleep and its interruption.                                    *)
(*                                                                         *)
(* A bthread that sleeps switches to another bthread first; the worker     *)
(* then runs _add_sleep_event on its behalf, so the sleeper can be woken,  *)
(* run, sleep again and even exit while that function is still under way.  *)
(* Four kinds of actors meet: the sleeper, the workers that run            *)
(* _add_sleep_event (one per sleep), the TimerThread and the interrupters. *)
(*                                                                         *)
(* A member of Sleepers is a TaskMeta: its slot is reused by a new bthread *)
(* after an exit, with the next version.  The n-th sleep on a TaskMeta has *)
(* timer id n; current_sleep = 0 means none, as in the code.               *)
(***************************************************************************)
EXTENDS Integers, FiniteSets

CONSTANTS
    Sleepers,       \* TaskMetas whose bthreads call usleep
    Interrupters,   \* threads that call TaskGroup::interrupt
    MaxSleeps,      \* bound: sleeps on one TaskMeta
    SleepsPerLife,  \* bound: sleeps of one bthread
    Lives,          \* bound: bthreads that use one TaskMeta, one version each
    MaxInterrupts   \* bound: interruptions

ASSUME SleepAssumption ==
    /\ MaxSleeps \in Nat
    /\ SleepsPerLife \in Nat
    /\ Lives \in Nat \ {0}
    /\ MaxInterrupts \in Nat

SleepIds == 1..MaxSleeps
Versions == 1..Lives

VARIABLES
    pc,              \* where the bthread is
    version,         \* *TaskMeta::version_butex
    current_sleep,   \* TaskMeta::current_sleep
    interrupted,     \* TaskMeta::interrupted
    current_waiter,  \* TaskMeta::current_waiter # NULL
    nsleep,          \* sleeps on this TaskMeta so far
    given_ver,       \* version in the tid of the SleepArgs of each sleep
    rem,             \* where _add_sleep_event is, for each sleep
    timer,           \* the timer task of each sleep
    tokens,          \* times the tid is in a run queue
    ipc,             \* where the interrupter is
    isleeper,        \* TaskMeta and ...
    iver,            \* ... version of the tid it interrupts
    isleep,          \* the sleep_id it took
    ninterrupts      \* interruptions so far

metaVars  == <<version, current_sleep, interrupted, current_waiter>>
sleepVars == <<nsleep, given_ver, rem, timer>>
interVars == <<ipc, isleeper, iver, isleep, ninterrupts>>
vars == <<pc, metaVars, sleepVars, tokens, interVars>>

PCs    == {"run", "asleep", "woken", "check", "clear", "waiting", "ended"}
Steps  == {"none", "schedule", "lock", "unschedule", "done"}
Timers == {"none", "pending", "running", "done"}

Init ==
    /\ pc = [s \in Sleepers |-> "run"]
    /\ version = [s \in Sleepers |-> 1]
    /\ current_sleep = [s \in Sleepers |-> 0]
    /\ interrupted = [s \in Sleepers |-> FALSE]
    /\ current_waiter = [s \in Sleepers |-> FALSE]
    /\ nsleep = [s \in Sleepers |-> 0]
    /\ given_ver = [s \in Sleepers |-> [n \in SleepIds |-> 0]]
    /\ rem = [s \in Sleepers |-> [n \in SleepIds |-> "none"]]
    /\ timer = [s \in Sleepers |-> [n \in SleepIds |-> "none"]]
    /\ tokens = [s \in Sleepers |-> 0]
    /\ ipc = [i \in Interrupters |-> "idle"]
    /\ isleeper \in [Interrupters -> Sleepers]
    /\ iver = [i \in Interrupters |-> 1]
    /\ isleep = [i \in Interrupters |-> 0]
    /\ ninterrupts = 0

-----------------------------------------------------------------------------
(* Helpers                                                                 *)

\* Mutant: the callback that runs, or ran, is not told from a removed timer.
ReadyWhateverUnscheduled(s, n) ==
    /\ timer' = [timer EXCEPT ![s][n] = "done"]
    /\ tokens' = [tokens EXCEPT ![s] = @ + 1]

\* Mutant: a callback that is running counts as removed.
RunningIsRemoved(s, n) ==
    \/ /\ timer[s][n] \in {"pending", "running"}
       /\ timer' = [timer EXCEPT ![s][n] = IF @ = "pending" THEN "done" ELSE @]
       /\ tokens' = [tokens EXCEPT ![s] = @ + 1]
    \/ /\ timer[s][n] \notin {"pending", "running"}
       /\ UNCHANGED <<timer, tokens>>

\* "if (unschedule(sleep_id) == 0) ready_to_run(tid)", in _add_sleep_event and
\* in interrupt: 0 says that the timer was pending and is removed; 1 that its
\* callback is running, -1 that it is gone.
unschedule_and_ready(s, n) ==
    \/ /\ timer[s][n] = "pending"
       /\ timer' = [timer EXCEPT ![s][n] = "done"]
       /\ tokens' = [tokens EXCEPT ![s] = @ + 1]
    \/ /\ timer[s][n] # "pending"
       /\ UNCHANGED <<timer, tokens>>

-----------------------------------------------------------------------------
(* The bthread                                                             *)

\* Sleeps of the bthread that uses the TaskMeta now.
SleepsOfLife(s) == {n \in SleepIds : given_ver[s][n] = version[s]}

\* usleep(timeout_us) with timeout_us # 0: _add_sleep_event becomes the
\* remained function and the worker switches to another bthread.
usleep(s) ==
    /\ pc[s] = "run"
    /\ nsleep[s] < MaxSleeps
    /\ Cardinality(SleepsOfLife(s)) < SleepsPerLife
    /\ nsleep' = [nsleep EXCEPT ![s] = @ + 1]
    /\ given_ver' = [given_ver EXCEPT ![s][nsleep[s] + 1] = version[s]]
    /\ rem' = [rem EXCEPT ![s][nsleep[s] + 1] = "schedule"]
    /\ pc' = [pc EXCEPT ![s] = "asleep"]
    /\ UNCHANGED <<metaVars, timer, tokens, interVars>>

\* A worker takes the tid from a run queue and switches to the bthread.
Resume(s) ==
    /\ pc[s] = "asleep"
    /\ tokens[s] > 0
    /\ tokens' = [tokens EXCEPT ![s] = @ - 1]
    /\ pc' = [pc EXCEPT ![s] = "woken"]
    /\ UNCHANGED <<metaVars, sleepVars, interVars>>

\* usleep after sched: current_sleep = 0, without version_lock.
ClearSleep(s) ==
    /\ pc[s] = "woken"
    /\ current_sleep' = [current_sleep EXCEPT ![s] = 0]
    /\ pc' = [pc EXCEPT ![s] = "check"]
    /\ UNCHANGED <<version, interrupted, current_waiter, sleepVars, tokens,
                   interVars>>

\* usleep reads interrupted: it returns 0, or goes on to consume it.
CheckInterrupted(s) ==
    /\ pc[s] = "check"
    /\ pc' = [pc EXCEPT ![s] = IF interrupted[s] THEN "clear" ELSE "run"]
    /\ UNCHANGED <<metaVars, sleepVars, tokens, interVars>>

\* usleep consumes the interruption, and any that came since the read, and
\* returns -1.
ClearInterrupted(s) ==
    /\ pc[s] = "clear"
    /\ interrupted' = [interrupted EXCEPT ![s] = FALSE]
    /\ pc' = [pc EXCEPT ![s] = "run"]
    /\ UNCHANGED <<version, current_sleep, current_waiter, sleepVars, tokens,
                   interVars>>

\* butex_wait, reduced to what interrupt sees of it: current_waiter is set ...
butex_wait(s) ==
    /\ pc[s] = "run"
    /\ current_waiter' = [current_waiter EXCEPT ![s] = TRUE]
    /\ pc' = [pc EXCEPT ![s] = "waiting"]
    /\ UNCHANGED <<version, current_sleep, interrupted, sleepVars, tokens,
                   interVars>>

\* ... and taken back before the call returns, which consumes interruptions.
butex_wait_returns(s) ==
    /\ pc[s] = "waiting"
    /\ current_waiter[s]
    /\ current_waiter' = [current_waiter EXCEPT ![s] = FALSE]
    /\ interrupted' = [interrupted EXCEPT ![s] = FALSE]
    /\ pc' = [pc EXCEPT ![s] = "run"]
    /\ UNCHANGED <<version, current_sleep, sleepVars, tokens, interVars>>

\* The end of task_runner: the version moves on under version_lock, which
\* invalidates the tid, and the slot goes back to the pool.
task_runner_ends(s) ==
    /\ pc[s] = "run"
    /\ version[s] < Lives
    /\ version' = [version EXCEPT ![s] = @ + 1]
    /\ pc' = [pc EXCEPT ![s] = "ended"]
    /\ UNCHANGED <<current_sleep, interrupted, current_waiter, sleepVars,
                   tokens, interVars>>

\* start_foreground or start_background takes the slot for a new bthread, which
\* runs.  interrupted is reset, current_sleep is not.
start(s) ==
    /\ pc[s] = "ended"
    /\ interrupted' = [interrupted EXCEPT ![s] = FALSE]
    /\ pc' = [pc EXCEPT ![s] = "run"]
    /\ UNCHANGED <<version, current_sleep, current_waiter, sleepVars, tokens,
                   interVars>>

SleeperStep(s) ==
    Resume(s) \/ ClearSleep(s) \/ CheckInterrupted(s) \/ ClearInterrupted(s)

-----------------------------------------------------------------------------
(* _add_sleep_event, run by a worker after the switch                      *)

\* Mutant: when the timer cannot be scheduled the sleeper is not made runnable.
ScheduleFailsSilently(s, n) ==
    /\ rem[s][n] = "schedule"
    /\ \/ /\ timer' = [timer EXCEPT ![s][n] = "pending"]
          /\ rem' = [rem EXCEPT ![s][n] = "lock"]
       \/ /\ rem' = [rem EXCEPT ![s][n] = "done"]
          /\ UNCHANGED timer
    /\ UNCHANGED <<pc, metaVars, nsleep, given_ver, tokens, interVars>>

\* schedule() the timer; when it fails the sleeper runs again at once.
Schedule(s, n) ==
    /\ rem[s][n] = "schedule"
    /\ \/ /\ timer' = [timer EXCEPT ![s][n] = "pending"]
          /\ rem' = [rem EXCEPT ![s][n] = "lock"]
          /\ UNCHANGED tokens
       \/ /\ tokens' = [tokens EXCEPT ![s] = @ + 1]
          /\ rem' = [rem EXCEPT ![s][n] = "done"]
          /\ UNCHANGED timer
    /\ UNCHANGED <<pc, metaVars, nsleep, given_ver, interVars>>

\* Mutant: an interruption that came before the timer was set is overlooked.
SetUnlessEnded(s, n) ==
    /\ rem[s][n] = "lock"
    /\ \/ /\ given_ver[s][n] = version[s]
          /\ current_sleep' = [current_sleep EXCEPT ![s] = n]
          /\ rem' = [rem EXCEPT ![s][n] = "done"]
       \/ /\ given_ver[s][n] # version[s]
          /\ rem' = [rem EXCEPT ![s][n] = "unschedule"]
          /\ UNCHANGED current_sleep
    /\ UNCHANGED <<pc, version, interrupted, current_waiter, nsleep, given_ver,
                   timer, tokens, interVars>>

\* Under version_lock: publish the timer id for interrupt, unless the bthread
\* ended or was interrupted.
SetCurrentSleep(s, n) ==
    /\ rem[s][n] = "lock"
    /\ \/ /\ given_ver[s][n] = version[s] /\ ~interrupted[s]
          /\ current_sleep' = [current_sleep EXCEPT ![s] = n]
          /\ rem' = [rem EXCEPT ![s][n] = "done"]
       \/ /\ ~(given_ver[s][n] = version[s] /\ ~interrupted[s])
          /\ rem' = [rem EXCEPT ![s][n] = "unschedule"]
          /\ UNCHANGED current_sleep
    /\ UNCHANGED <<pc, version, interrupted, current_waiter, nsleep, given_ver,
                   timer, tokens, interVars>>

\* The bthread was stopped or interrupted: race with the timer to wake it.
Unschedule(s, n) ==
    /\ rem[s][n] = "unschedule"
    /\ unschedule_and_ready(s, n)
    /\ rem' = [rem EXCEPT ![s][n] = "done"]
    /\ UNCHANGED <<pc, metaVars, nsleep, given_ver, interVars>>

_add_sleep_event(s, n) ==
    Schedule(s, n) \/ SetCurrentSleep(s, n) \/ Unschedule(s, n)

-----------------------------------------------------------------------------
(* The TimerThread                                                         *)

\* The sleep is over: the callback starts.
TimerFire(s, n) ==
    /\ timer[s][n] = "pending"
    /\ timer' = [timer EXCEPT ![s][n] = "running"]
    /\ UNCHANGED <<pc, metaVars, nsleep, given_ver, rem, tokens, interVars>>

\* Mutant: the callback leaves a bthread that was interrupted to its interrupter.
ready_unless_interrupted(s, n) ==
    /\ timer[s][n] = "running" /\ ~interrupted[s]
    /\ timer' = [timer EXCEPT ![s][n] = "done"]
    /\ tokens' = [tokens EXCEPT ![s] = @ + 1]
    /\ UNCHANGED <<pc, metaVars, nsleep, given_ver, rem, interVars>>

\* The callback reads the SleepArgs, which are on the stack of the sleeper, and
\* puts the tid into the remote queue of some group.
ready_to_run_from_timer_thread(s, n) ==
    /\ timer[s][n] = "running"
    /\ timer' = [timer EXCEPT ![s][n] = "done"]
    /\ tokens' = [tokens EXCEPT ![s] = @ + 1]
    /\ UNCHANGED <<pc, metaVars, nsleep, given_ver, rem, interVars>>

-----------------------------------------------------------------------------
(* TaskGroup::interrupt                                                    *)

\* Interrupter i calls interrupt on any tid that exists or existed.
interrupt(i, s, v) ==
    /\ ipc[i] = "idle"
    /\ ninterrupts < MaxInterrupts
    /\ v <= version[s]
    /\ ninterrupts' = ninterrupts + 1
    /\ ipc' = [ipc EXCEPT ![i] = "consume"]
    /\ isleeper' = [isleeper EXCEPT ![i] = s]
    /\ iver' = [iver EXCEPT ![i] = v]
    /\ UNCHANGED <<pc, metaVars, sleepVars, tokens, isleep>>

\* interrupt_and_consume_waiters, under version_lock: take current_waiter and
\* current_sleep and set interrupted, unless the bthread has ended (EINVAL).
\* The sleeper writes current_sleep and reads interrupted without the lock, but
\* no outcome depends on where in between these three writes it does so.
interrupt_and_consume_waiters(i) ==
    LET s == isleeper[i] IN
    /\ ipc[i] = "consume"
    /\ \/ /\ iver[i] = version[s]
          /\ current_waiter' = [current_waiter EXCEPT ![s] = FALSE]
          /\ current_sleep' = [current_sleep EXCEPT ![s] = 0]
          /\ interrupted' = [interrupted EXCEPT ![s] = TRUE]
          /\ isleep' = [isleep EXCEPT ![i] = current_sleep[s]]
          /\ ipc' = [ipc EXCEPT ![i] =
                        IF current_waiter[s] THEN "waiter"
                        ELSE IF current_sleep[s] # 0 THEN "sleep" ELSE "idle"]
       \/ /\ iver[i] # version[s]
          /\ ipc' = [ipc EXCEPT ![i] = "idle"]
          /\ UNCHANGED <<current_waiter, current_sleep, interrupted, isleep>>
    /\ UNCHANGED <<pc, version, sleepVars, tokens, isleeper, iver, ninterrupts>>

\* w # NULL: the waiter is erased from its butex and set back.
set_butex_waiter(i) ==
    /\ ipc[i] = "waiter"
    /\ current_waiter' = [current_waiter EXCEPT ![isleeper[i]] = TRUE]
    /\ ipc' = [ipc EXCEPT ![i] = "idle"]
    /\ isleep' = [isleep EXCEPT ![i] = 0]
    /\ UNCHANGED <<pc, version, current_sleep, interrupted, sleepVars, tokens,
                   isleeper, iver, ninterrupts>>

\* sleep_id # 0: race with the timer to wake the sleeper.
interrupt_sleep(i) ==
    /\ ipc[i] = "sleep"
    /\ unschedule_and_ready(isleeper[i], isleep[i])
    /\ ipc' = [ipc EXCEPT ![i] = "idle"]
    /\ isleep' = [isleep EXCEPT ![i] = 0]
    /\ UNCHANGED <<pc, metaVars, nsleep, given_ver, rem, isleeper, iver,
                   ninterrupts>>

InterruptStep(i) ==
    \/ interrupt_and_consume_waiters(i)
    \/ set_butex_waiter(i)
    \/ interrupt_sleep(i)

-----------------------------------------------------------------------------
Next ==
    \/ \E s \in Sleepers :
          \/ usleep(s) \/ SleeperStep(s)
          \/ butex_wait(s) \/ butex_wait_returns(s)
          \/ task_runner_ends(s) \/ start(s)
          \/ \E n \in SleepIds :
                \/ _add_sleep_event(s, n)
                \/ TimerFire(s, n)
                \/ ready_to_run_from_timer_thread(s, n)
    \/ \E i \in Interrupters :
          \/ \E s \in Sleepers, v \in Versions : interrupt(i, s, v)
          \/ InterruptStep(i)

Spec == Init /\ [][Next]_vars

\* Workers keep running runnable bthreads and remained functions, a callback
\* and an interruption that began are completed.  Nothing is assumed of the
\* clock: a timer may take for ever to fire.
SchedulerFairness ==
    /\ \A s \in Sleepers :
          /\ WF_vars(SleeperStep(s))
          /\ \A n \in SleepIds :
                /\ WF_vars(_add_sleep_event(s, n))
                /\ WF_vars(ready_to_run_from_timer_thread(s, n))
    /\ \A i \in Interrupters : WF_vars(InterruptStep(i))

\* Time passes: every timer that is not removed fires.
TimerFairness ==
    \A s \in Sleepers, n \in SleepIds : WF_vars(TimerFire(s, n))

InterruptSpec == Spec /\ SchedulerFairness

-----------------------------------------------------------------------------
(* Properties                                                              *)

\* Types of the state.
TypeOK ==
    /\ pc \in [Sleepers -> PCs]
    /\ version \in [Sleepers -> Versions]
    /\ current_sleep \in [Sleepers -> 0..MaxSleeps]
    /\ interrupted \in [Sleepers -> BOOLEAN]
    /\ current_waiter \in [Sleepers -> BOOLEAN]
    /\ nsleep \in [Sleepers -> 0..MaxSleeps]
    /\ given_ver \in [Sleepers -> [SleepIds -> 0..Lives]]
    /\ rem \in [Sleepers -> [SleepIds -> Steps]]
    /\ timer \in [Sleepers -> [SleepIds -> Timers]]
    /\ tokens \in [Sleepers -> Nat]
    /\ ipc \in [Interrupters -> {"idle", "consume", "waiter", "sleep"}]
    /\ isleeper \in [Interrupters -> Sleepers]
    /\ iver \in [Interrupters -> Versions]
    /\ isleep \in [Interrupters -> 0..MaxSleeps]
    /\ ninterrupts \in 0..MaxInterrupts

\* The timer callback, the worker in _add_sleep_event and the interrupters race
\* to put a sleeper back into a run queue: a tid is queued at most once, and
\* only while the bthread is still in the sched of its usleep.
ResumedOnce ==
    \A s \in Sleepers :
        /\ tokens[s] <= 1
        /\ tokens[s] = 1 => pc[s] = "asleep"

\* The SleepArgs live on the sleeper's stack ("the on-stack SleepArgs will be
\* gone"): while a timer may still read them its sleep has not returned.
SleepArgsAlive ==
    \A s \in Sleepers, n \in SleepIds :
        timer[s][n] \in {"pending", "running"} =>
            pc[s] = "asleep" /\ nsleep[s] = n

\* A bthread that sleeps is always in the hands of somebody who will run it: its
\* tid is queued, its timer is set, or _add_sleep_event has yet to set it.
SleeperNotForgotten ==
    \A s \in Sleepers : pc[s] = "asleep" =>
        \/ tokens[s] > 0
        \/ \E n \in SleepIds : \/ rem[s][n] = "schedule"
                              \/ timer[s][n] \in {"pending", "running"}

\* usleep implements the scheduler's contract: it suspends the bthread once and
\* is made ready once.
Contract == INSTANCE Suspension WITH
    Threads <- Sleepers,
    running <- [s \in Sleepers |-> pc[s] # "asleep"],
    queued <- tokens
SuspendsCorrectly == Contract!Spec

\* A sleep ends when timers fire, also when its timer could not be scheduled or
\* somebody removed it.
SleepReturns ==
    TimerFairness => \A s \in Sleepers : pc[s] = "asleep" ~> pc[s] # "asleep"

\* current_sleep is not the id of an earlier sleep.
OwnSleepId(s) == current_sleep[s] \in {0, nsleep[s]}

\* A sleeper that is interrupted, at any point before or during the sleep, is
\* woken without the help of its timer, if no _add_sleep_event of an earlier sleep
\* is so late that it leaves its id in current_sleep.
InterruptWakes ==
    \A s \in Sleepers :
        []OwnSleepId(s) =>
            (pc[s] = "asleep" /\ interrupted[s] ~> pc[s] # "asleep")

\* The same whatever current_sleep holds: bthread_interrupt "guarantees that
\* Tthread2 is woken up reliably no matter how the 2 threads are interleaved".
InterruptedReturns ==
    \A s \in Sleepers :
        pc[s] = "asleep" /\ interrupted[s] ~> pc[s] # "asleep"

-----------------------------------------------------------------------------
(* The inductive invariant behind the safety properties                    *)

\* The timer of sleep n may still run its callback.
TimerLive(s, n) == timer[s][n] \in {"pending", "running"}

\* Whatever can still wake s belongs to the sleep s is in, and is alone.
OneWaker(s) ==
    /\ tokens[s] \in {0, 1}
    /\ tokens[s] = 1 => pc[s] = "asleep"
    /\ \A n \in SleepIds :
          rem[s][n] = "schedule" =>
              pc[s] = "asleep" /\ nsleep[s] = n /\ tokens[s] = 0
              /\ ~TimerLive(s, n)
    /\ \A n \in SleepIds :
          TimerLive(s, n) => pc[s] = "asleep" /\ nsleep[s] = n /\ tokens[s] = 0

SleepInv ==
    /\ TypeOK
    /\ \A s \in Sleepers : OneWaker(s)
    /\ SleeperNotForgotten
    /\ \A i \in Interrupters : ipc[i] = "sleep" => isleep[i] # 0

=============================================================================
