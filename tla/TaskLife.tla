------------------------------ MODULE TaskLife ------------------------------
(***************************************************************************)
(* The life of a bthread: a TaskMeta slot is taken for it, a worker gives  *)
(* it a stack and runs it, its end moves the version of the slot on, wakes *)
(* the joiners, hands the stack over and returns the slot, and the slot is *)
(* taken again while threads still hold the old tid.                       *)
(*                                                                         *)
(* A tid is a slot and a version.  Queues are those of Sched and are left  *)
(* out: a worker switches to any bthread that is ready.  butex_wait on the *)
(* version is used as Butex provides it: comparing and queueing are one    *)
(* step.                                                                   *)
(***************************************************************************)
EXTENDS Integers, FiniteSets

CONSTANTS
    Slots,        \* TaskMetas
    Workers,      \* workers; a worker also stands for its _main_stack
    Stacks,       \* stacks the allocator has for STACK_TYPE_NORMAL
    Joiners,      \* threads that call bthread_join
    Stoppers,     \* threads that call bthread_stop
    NVersions,    \* number of versions: 2^32, a uint32_t, in the code
    NULL,
    MaxStarts     \* bound: bthreads started

ASSUME TaskLifeAssumption ==
    /\ Workers \cap Stacks = {}
    /\ NULL \notin Workers \cup Stacks \cup Slots
    /\ NVersions \in Nat /\ NVersions > 1 /\ MaxStarts \in Nat
    /\ IsFiniteSet(Slots)

Versions == 0..(NVersions - 1)
Types == {"NORMAL", "PTHREAD"}

VARIABLES
    state,      \* free, ready, running, or how far the end of the bthread is
    version,    \* *TaskMeta::version_butex
    type,       \* TaskMeta::stack_type()
    stack,      \* TaskMeta::stack
    stop,       \* TaskMeta::stop
    pool,       \* stacks nobody uses
    cur,        \* the bthread a worker runs, NULL for its main task
    sp,         \* the stack a worker executes on
    remained,   \* the bthread that _release_last_context is to release
    jpc, jslot, jver,  \* a joiner and the tid it joins
    spc, sslot, sver,  \* a stopper and the tid it stops
    lives,      \* auxiliary: bthreads started on the slot, and
    given,      \*   the version that is in the tid of each of them
    jlife,      \* which of them the joiner joins
    asked       \* which of them bthread_stop was called for

metaVars   == <<state, version, type, stack, stop>>
workerVars == <<pool, cur, sp, remained>>
joinVars   == <<jpc, jslot, jver, jlife>>
stopVars   == <<spc, sslot, sver, asked>>
lifeVars   == <<lives, given>>
vars == <<metaVars, workerVars, joinVars, stopVars, lifeVars>>

States == {"free", "ready", "running", "ended", "woken", "left"}

Init ==
    /\ state = [s \in Slots |-> "free"]
    /\ version = [s \in Slots |-> 1]
    /\ type = [s \in Slots |-> "NORMAL"]
    /\ stack = [s \in Slots |-> NULL]
    /\ stop = [s \in Slots |-> FALSE]
    /\ pool = Stacks
    /\ cur = [w \in Workers |-> NULL]
    /\ sp = [w \in Workers |-> w]
    /\ remained = [w \in Workers |-> NULL]
    /\ jpc = [j \in Joiners |-> "idle"]
    /\ jslot = [j \in Joiners |-> NULL]
    /\ jver = [j \in Joiners |-> 0]
    /\ jlife = [j \in Joiners |-> 0]
    /\ spc = [p \in Stoppers |-> "idle"]
    /\ sslot = [p \in Stoppers |-> NULL]
    /\ sver = [p \in Stoppers |-> 0]
    /\ asked = [s \in Slots |-> {}]
    /\ lives = [s \in Slots |-> 0]
    /\ given = [s \in Slots |-> [n \in 1..MaxStarts |-> 0]]

-----------------------------------------------------------------------------
(* Start                                                                   *)

\* The bthreads started so far.
Started == {l \in Slots \X (1..MaxStarts) : l[2] <= lives[l[1]]}

\* start_foreground and start_background: get_resource, reset, make_tid.
start(s, t) ==
    /\ state[s] = "free" /\ Cardinality(Started) < MaxStarts
    /\ state' = [state EXCEPT ![s] = "ready"]
    /\ type' = [type EXCEPT ![s] = t]
    /\ stop' = [stop EXCEPT ![s] = FALSE]
    /\ lives' = [lives EXCEPT ![s] = @ + 1]
    /\ given' = [given EXCEPT ![s][lives[s] + 1] = version[s]]
    /\ UNCHANGED <<version, stack, workerVars, joinVars, stopVars>>

-----------------------------------------------------------------------------
(* Switching                                                               *)

\* get_stack, as sched_to uses it for a bthread that has no stack yet: without
\* one, the bthread becomes a pthread task and runs on the worker's main stack.
get_stack(w, s) ==
    \/ /\ type[s] = "NORMAL" /\ pool # {}
       /\ \E k \in pool : /\ pool' = pool \ {k}
                          /\ stack' = [stack EXCEPT ![s] = k]
       /\ UNCHANGED type
    \/ /\ type[s] = "NORMAL" => pool = {}
       /\ type' = [type EXCEPT ![s] = "PTHREAD"]
       /\ stack' = [stack EXCEPT ![s] = w]
       /\ UNCHANGED pool

\* A stack for the next bthread, unless it has one already.
EnsureStack(w, s) ==
    \/ stack[s] = NULL /\ get_stack(w, s)
    \/ stack[s] # NULL /\ UNCHANGED <<type, stack, pool>>

\* The worker executes on the stack of s; the main task has the main stack.
Jump(w, s) ==
    /\ cur' = [cur EXCEPT ![w] = s]
    /\ sp' = [sp EXCEPT ![w] = IF s = NULL THEN w ELSE stack'[s]]

\* run_main_task: switch from the main task to a bthread.
run_main_task(w, s) ==
    /\ cur[w] = NULL /\ remained[w] = NULL
    /\ state[s] = "ready"
    /\ EnsureStack(w, s)
    /\ Jump(w, s)
    /\ state' = [state EXCEPT ![s] = "running"]
    /\ UNCHANGED <<version, stop, remained, joinVars, stopVars, lifeVars>>

\* The bthread runs user code.
Runs(w) == cur[w] # NULL /\ remained[w] = NULL /\ state[cur[w]] = "running"

\* sched: a bthread that blocks or yields keeps its stack; the worker switches to
\* another bthread or to the main task.  Pthread tasks never do this.
sched(w, next) ==
    /\ Runs(w) /\ type[cur[w]] = "NORMAL"
    /\ \/ /\ next = NULL
          /\ state' = [state EXCEPT ![cur[w]] = "ready"]
          /\ UNCHANGED <<type, stack, pool>>
       \/ /\ next # NULL /\ state[next] = "ready"
          /\ state' = [state EXCEPT ![cur[w]] = "ready", ![next] = "running"]
          /\ EnsureStack(w, next)
    /\ Jump(w, next)
    /\ UNCHANGED <<version, stop, remained, joinVars, stopVars, lifeVars>>

-----------------------------------------------------------------------------
(* The end of task_runner                                                  *)

\* ++*version_butex, and once more if it became 0.
next_version(v) ==
    IF (v + 1) % NVersions = 0 THEN 1 ELSE (v + 1) % NVersions

\* The version moves on, under version_lock: the tid is no longer valid.
BumpVersion(w) ==
    /\ Runs(w)
    /\ version' = [version EXCEPT ![cur[w]] = next_version(@)]
    /\ state' = [state EXCEPT ![cur[w]] = "ended"]
    /\ UNCHANGED <<type, stack, stop, workerVars, joinVars, stopVars, lifeVars>>

\* Mutant: the stack is given back here, while the worker is still on it.
WakeAndReturnStack(w) ==
    LET s == cur[w] IN
    /\ s # NULL /\ state[s] = "ended"
    /\ state' = [state EXCEPT ![s] = "woken"]
    /\ jpc' = [j \in Joiners |->
                  IF jpc[j] = "blocked" /\ jslot[j] = s THEN "check" ELSE jpc[j]]
    /\ pool' = pool \cup ({stack[s]} \cap Stacks)
    /\ stack' = [stack EXCEPT ![s] = NULL]
    /\ UNCHANGED <<version, type, stop, cur, sp, remained, jslot, jver, jlife,
                   stopVars, lifeVars>>

\* butex_wake_except(version_butex, 0) wakes every joiner that is queued.
WakeJoiners(w) ==
    /\ cur[w] # NULL /\ state[cur[w]] = "ended"
    /\ state' = [state EXCEPT ![cur[w]] = "woken"]
    /\ jpc' = [j \in Joiners |->
                  IF jpc[j] = "blocked" /\ jslot[j] = cur[w] THEN "check"
                  ELSE jpc[j]]
    /\ UNCHANGED <<version, type, stack, stop, workerVars, jslot, jver, jlife,
                   stopVars, lifeVars>>

\* next_meta->set_stack(cur_meta->release_stack()).
hand_over(s, next) ==
    stack' = [stack EXCEPT ![next] = stack[s], ![s] = NULL]

\* ending_sched and sched_to: a new bthread of the same stack type takes the
\* stack over (sched_to then logs a FATAL message, which is left out).
\* _release_last_context becomes the remained function.
ending_sched(w, next) ==
    LET s == cur[w] IN
    /\ s # NULL /\ state[s] = "woken"
    /\ \/ /\ next = NULL
          /\ state' = [state EXCEPT ![s] = "left"]
          /\ UNCHANGED <<type, stack, pool>>
       \/ /\ next # NULL /\ state[next] = "ready"
          /\ state' = [state EXCEPT ![s] = "left", ![next] = "running"]
          /\ \/ /\ stack[next] = NULL /\ type[next] = type[s]
                /\ hand_over(s, next)
                /\ UNCHANGED <<type, pool>>
             \/ /\ ~(stack[next] = NULL /\ type[next] = type[s])
                /\ EnsureStack(w, next)
    /\ Jump(w, next)
    /\ remained' = [remained EXCEPT ![w] = s]
    /\ UNCHANGED <<version, stop, joinVars, stopVars, lifeVars>>

\* Mutant: the slot goes back with the stack still in it.
ReleaseSlotOnly(w) ==
    LET s == remained[w] IN
    /\ s # NULL
    /\ state' = [state EXCEPT ![s] = "free"]
    /\ remained' = [remained EXCEPT ![w] = NULL]
    /\ UNCHANGED <<version, type, stack, stop, pool, cur, sp, joinVars,
                   stopVars, lifeVars>>

\* _release_last_context, run on the next stack: the stack, if the bthread still
\* has one of its own, and the slot go back to their pools.
_release_last_context(w) ==
    LET s == remained[w] IN
    /\ s # NULL
    /\ pool' = pool \cup ({stack[s]} \cap Stacks)
    /\ stack' = [stack EXCEPT ![s] = NULL]
    /\ state' = [state EXCEPT ![s] = "free"]
    /\ remained' = [remained EXCEPT ![w] = NULL]
    /\ UNCHANGED <<version, type, stop, cur, sp, joinVars, stopVars, lifeVars>>

EndStep(w) ==
    \/ BumpVersion(w) \/ WakeJoiners(w) \/ _release_last_context(w)
    \/ \E next \in Slots \cup {NULL} : ending_sched(w, next)

-----------------------------------------------------------------------------
(* join and stop by tid                                                    *)

\* A tid that is or was given out: of bthread n of slot s, with version v.
Tid(s, n, v) == n \in 1..lives[s] /\ v = given[s][n]

\* join: the thread is not the bthread itself and reads the version.
join(j, s, n, v) ==
    /\ jpc[j] = "idle"
    /\ Tid(s, n, v)
    /\ jpc' = [jpc EXCEPT ![j] = "check"]
    /\ jslot' = [jslot EXCEPT ![j] = s]
    /\ jver' = [jver EXCEPT ![j] = v]
    /\ jlife' = [jlife EXCEPT ![j] = n]
    /\ UNCHANGED <<metaVars, workerVars, stopVars, lifeVars>>

\* join returns and its local variables are gone.
JoinReturn(j) ==
    /\ jpc' = [jpc EXCEPT ![j] = "idle"]
    /\ jslot' = [jslot EXCEPT ![j] = NULL]
    /\ jver' = [jver EXCEPT ![j] = 0]
    /\ jlife' = [jlife EXCEPT ![j] = 0]

\* The loop of join: return when the version has moved on ...
JoinCheck(j) ==
    /\ jpc[j] = "check"
    /\ \/ /\ version[jslot[j]] # jver[j]
          /\ JoinReturn(j)
       \/ /\ version[jslot[j]] = jver[j]
          /\ jpc' = [jpc EXCEPT ![j] = "queue"]
          /\ UNCHANGED <<jslot, jver, jlife>>
    /\ UNCHANGED <<metaVars, workerVars, stopVars, lifeVars>>

\* Mutant: butex_wait queues the joiner without comparing the version again.
JoinQueueUnchecked(j) ==
    /\ jpc[j] = "queue"
    /\ jpc' = [jpc EXCEPT ![j] = "blocked"]
    /\ UNCHANGED <<metaVars, workerVars, jslot, jver, jlife, stopVars, lifeVars>>

\* ... else butex_wait, which fails with EWOULDBLOCK if it has moved on since.
JoinQueue(j) ==
    /\ jpc[j] = "queue"
    /\ jpc' = [jpc EXCEPT ![j] =
                  IF version[jslot[j]] = jver[j] THEN "blocked" ELSE "check"]
    /\ UNCHANGED <<metaVars, workerVars, jslot, jver, jlife, stopVars, lifeVars>>

\* Mutant: join returns when it is interrupted.
JoinGivesUp(j) ==
    /\ jpc[j] = "blocked"
    /\ JoinReturn(j)
    /\ UNCHANGED <<metaVars, workerVars, stopVars, lifeVars>>

\* butex_wait fails with EINTR: join goes round its loop.
JoinInterrupted(j) ==
    /\ jpc[j] = "blocked"
    /\ jpc' = [jpc EXCEPT ![j] = "check"]
    /\ UNCHANGED <<metaVars, workerVars, jslot, jver, jlife, stopVars, lifeVars>>

\* bthread_stop with any tid that was given out.
bthread_stop(p, s, n, v) ==
    /\ spc[p] = "idle"
    /\ Tid(s, n, v)
    /\ spc' = [spc EXCEPT ![p] = "set"]
    /\ sslot' = [sslot EXCEPT ![p] = s]
    /\ sver' = [sver EXCEPT ![p] = v]
    /\ asked' = [asked EXCEPT ![s] = @ \cup {n}]
    /\ UNCHANGED <<metaVars, workerVars, joinVars, lifeVars>>

\* set_stopped returns and its local variables are gone.
StopReturn(p) ==
    /\ spc' = [spc EXCEPT ![p] = "idle"]
    /\ sslot' = [sslot EXCEPT ![p] = NULL]
    /\ sver' = [sver EXCEPT ![p] = 0]

\* Mutant: the version of the tid is not compared.
set_stopped_any(p) ==
    /\ spc[p] = "set"
    /\ stop' = [stop EXCEPT ![sslot[p]] = TRUE]
    /\ StopReturn(p)
    /\ UNCHANGED <<state, version, type, stack, workerVars, joinVars, asked, lifeVars>>

\* set_stopped, under version_lock.
set_stopped(p) ==
    /\ spc[p] = "set"
    /\ stop' = [stop EXCEPT ![sslot[p]] = @ \/ version[sslot[p]] = sver[p]]
    /\ StopReturn(p)
    /\ UNCHANGED <<state, version, type, stack, workerVars, joinVars, asked, lifeVars>>

\* is_stopped of the tid with version v: true for what does not exist any more.
is_stopped(s, v) == v = version[s] => stop[s]

exists(s, v) == v # 0 /\ v = version[s]

-----------------------------------------------------------------------------
Next ==
    \/ \E s \in Slots, t \in Types : start(s, t)
    \/ \E w \in Workers : \/ EndStep(w)
                          \/ \E s \in Slots : run_main_task(w, s)
                          \/ \E s \in Slots \cup {NULL} : sched(w, s)
    \/ \E j \in Joiners : JoinCheck(j) \/ JoinQueue(j) \/ JoinInterrupted(j)
    \/ \E p \in Stoppers : set_stopped(p)
    \/ \E s \in Slots, n \in 1..MaxStarts, v \in Versions :
          \/ \E j \in Joiners : join(j, s, n, v)
          \/ \E p \in Stoppers : bthread_stop(p, s, n, v)

Spec == Init /\ [][Next]_vars

\* A bthread that has begun to end gets through it, joiners keep running.
Fairness ==
    /\ \A w \in Workers : WF_vars(WakeJoiners(w))
    /\ \A j \in Joiners : WF_vars(JoinCheck(j) \/ JoinQueue(j))

FairSpec == Spec /\ Fairness

-----------------------------------------------------------------------------
(* Properties                                                              *)

\* Types of the state.
TypeOK ==
    /\ state \in [Slots -> States]
    /\ version \in [Slots -> Versions]
    /\ type \in [Slots -> Types]
    /\ stack \in [Slots -> Stacks \cup Workers \cup {NULL}]
    /\ stop \in [Slots -> BOOLEAN]
    /\ pool \subseteq Stacks
    /\ cur \in [Workers -> Slots \cup {NULL}]
    /\ sp \in [Workers -> Stacks \cup Workers]
    /\ remained \in [Workers -> Slots \cup {NULL}]
    /\ jpc \in [Joiners -> {"idle", "check", "queue", "blocked"}]
    /\ jslot \in [Joiners -> Slots \cup {NULL}]
    /\ jver \in [Joiners -> Versions]
    /\ jlife \in [Joiners -> 0..MaxStarts]
    /\ spc \in [Stoppers -> {"idle", "set"}]
    /\ sslot \in [Stoppers -> Slots \cup {NULL}]
    /\ sver \in [Stoppers -> Versions]
    /\ asked \in [Slots -> SUBSET (1..MaxStarts)]
    /\ lives \in [Slots -> 0..MaxStarts]
    /\ given \in [Slots -> [1..MaxStarts -> Versions]]

\* Stacks are neither shared nor lost, through allocation, hand-over at the end
\* of a bthread and release: each is in the pool or belongs to one bthread, and a
\* slot that can be taken again has none (CHECK(m->stack == NULL) at a start).
StacksOwned ==
    /\ TypeOK
    /\ \A k \in Stacks :
          Cardinality({s \in Slots : stack[s] = k})
            = IF k \in pool THEN 0 ELSE 1
    /\ \A s \in Slots : state[s] = "free" => stack[s] = NULL

\* A worker executes on its main stack or on the stack of the bthread it runs,
\* and two workers never on the same: the stack and the slot of a bthread that
\* ended are given back only once the worker has left them.
ExecutesOnOwnStack ==
    \A w \in Workers :
        /\ cur[w] = NULL => sp[w] = w
        /\ cur[w] # NULL => sp[w] = stack[cur[w]]
        /\ \A v \in Workers : sp[w] = sp[v] => w = v

\* A bthread that was started and has not ended, as n of slot s.
Alive(s, n) == n = lives[s] /\ state[s] \in {"ready", "running"}

\* What is said of a tid is true of the bthread it was given out for, not of the one
\* that has its slot now: exists while it lives, stopped when it is over or when
\* bthread_stop was called with the tid, and stopped for sure once bthread_stop has
\* returned, until the version comes round.  "tid of bthread is never 0", also then.
TidsAnswerTruly ==
    /\ \A s \in Slots : version[s] # 0
    /\ \A s \in Slots, v \in Versions : \A n \in 1..lives[s] :
           Tid(s, n, v) /\ lives[s] - n < NVersions - 2 =>
               /\ exists(s, v) <=> Alive(s, n)
               /\ is_stopped(s, v) => ~Alive(s, n) \/ \E m \in asked[s] : Tid(s, m, v)
               /\ ~Alive(s, n) => is_stopped(s, v)
               /\ n \in asked[s] /\ (\A p \in Stoppers : <<sslot[p], sver[p]>> # <<s, v>>)
                     => is_stopped(s, v)

\* The bthread of the joined tid has ended, its slot may have been taken again.
LifeOver(j) ==
    \/ jlife[j] < lives[jslot[j]]
    \/ jlife[j] = lives[jslot[j]] /\ state[jslot[j]] \in {"ended", "woken", "left", "free"}

\* join returns only after the end of the bthread it was called for.
JoinIsSound ==
    [][\A j \in Joiners :
          jpc[j] # "idle" /\ jpc'[j] = "idle" => LifeOver(j)]_vars

\* Since the bthread ended, its slot was reused so often that the version is again
\* the one that is joined.
CameRound(j) ==
    jpc[j] # "idle" /\ LifeOver(j) /\ version[jslot[j]] = jver[j]

\* join returns once the bthread has ended, whenever the joiner looked at the
\* version, and also if the slot was reused meanwhile, unless the version has
\* come round (after 2^32 - 1 bthreads on one slot).
JoinReturns ==
    \A j \in Joiners :
        (jpc[j] # "idle" /\ LifeOver(j)) ~> (jpc[j] = "idle" \/ CameRound(j))

=============================================================================
