----------------------------- MODULE BthreadId -----------------------------
(***************************************************************************)
(* The lock that protects the Controller of an RPC: the code of            *)
(* bthread_id_lock_and_reset_range_verbose, bthread_id_unlock and          *)
(* bthread_id_join that docs/client_bthread_sync.md explains.  Responses,  *)
(* the timeout and a backup request of one RPC compete for it, the caller  *)
(* joins it, and its slot is reused by later RPCs whose ids differ in the  *)
(* version only.                                                           *)
(*                                                                         *)
(* What runs under Id::mutex is one step; butex_wait and butex_wake, which *)
(* run without it, are steps of their own with the promise that module     *)
(* Butex checks: a waiter is queued only while the value is the expected   *)
(* one.  The creation, the errors and the destruction of an id are not     *)
(* quoted by the doc and are modelled from their use.  One slot is         *)
(* modelled: slots do not interact.                                        *)
(***************************************************************************)
EXTENDS Naturals, Sequences, FiniteSets, SequencesExt

CONSTANTS
    Threads,
    Ranges,       \* the range arguments of the calls, 0 for none
    MaxLives,     \* bound on how often the slot is taken
    MaxCalls      \* bound on the calls of bthread_id_lock, error and join

ASSUME BoundsAreNat == Ranges \subseteq Nat /\ MaxLives \in Nat /\ MaxCalls \in Nat

VARIABLES
    live,         \* the slot is taken
    first_ver, locked_ver,
    butex,        \* *butex
    join_butex,   \* *join_butex
    pending_q,    \* number of PendingErrors
    waiters,      \* threads that sleep on butex, and
    joiners,      \*   on join_butex, in the order of their arrival
    th,           \* where each thread is, and its local variables
    life,         \* auxiliary: how often the slot was taken
    issued,       \* auxiliary: the ids that were handed out, with their life
    uncounted,    \* auxiliary: who last went to sleep on the locked_ver of the time
    calls

meta == <<live, first_ver, locked_ver, butex, join_butex, pending_q>>
history == <<life, issued, uncounted>>
vars == <<meta, waiters, joiners, th, history, calls>>

contended_ver == locked_ver + 1
unlockable_ver == locked_ver + 2
end_ver == locked_ver + 3

\* The version belongs to the id that has the slot now.
has_version(v) == first_ver <= v /\ v < locked_ver

Idle == [pc |-> "idle", ver |-> 0, life |-> 0, range |-> 0,
         ever_contended |-> FALSE, expected_ver |-> 0]

Init ==
    /\ live = FALSE /\ life = 0 /\ issued = {} /\ calls = 0
    /\ first_ver = 1 /\ locked_ver = 1
    /\ butex = 1 /\ join_butex = 1 /\ pending_q = 0
    /\ waiters = <<>> /\ joiners = <<>> /\ uncounted = {}
    /\ th = [t \in Threads |-> Idle]

-----------------------------------------------------------------------------
At(t, pc) == th[t].pc = pc
Go(t, l) == th' = [th EXCEPT ![t] = l]
To(t, pc) == [th[t] EXCEPT !.pc = pc]

\* The ids of the versions first_ver .. last, in this life of the slot.
Issue(l, first, last) == issued' = issued \cup {[ver |-> v, life |-> l] : v \in {first, last}}

\* bthread_id_create: the values of the butexes are those the last life left.
Create ==
    /\ ~live /\ life < MaxLives
    /\ live' = TRUE /\ life' = life + 1
    /\ locked_ver' = first_ver + 1
    /\ Issue(life + 1, first_ver, first_ver)
    /\ UNCHANGED <<first_ver, butex, join_butex, pending_q, waiters, joiners, th, uncounted,
                   calls>>

\* A thread calls a function with an id that it was given at some time.
Call(t, pc, range) ==
    /\ At(t, "idle") /\ calls < MaxCalls
    /\ calls' = calls + 1
    /\ \E id \in issued :
          Go(t, [Idle EXCEPT !.pc = pc, !.ver = id.ver, !.life = id.life, !.range = range])
    /\ UNCHANGED <<meta, waiters, joiners, history>>

-----------------------------------------------------------------------------
(* bthread_id_lock_and_reset_range_verbose.                                *)

Take_as_first(t) ==              \* a waiter takes it as if nobody else waited
    /\ butex = first_ver
    /\ locked_ver' = IF first_ver + th[t].range <= locked_ver THEN locked_ver
                     ELSE first_ver + th[t].range
    /\ butex' = locked_ver'
    /\ Issue(life, first_ver, locked_ver' - 1)
    /\ Go(t, [Idle EXCEPT !.pc = "hold", !.ver = th[t].ver, !.life = th[t].life])
    /\ UNCHANGED <<live, first_ver, join_butex, pending_q>>

Take_twice(t) ==                 \* although someone has the lock
    /\ butex # unlockable_ver
    /\ locked_ver' = IF first_ver + th[t].range <= locked_ver THEN locked_ver
                     ELSE first_ver + th[t].range
    /\ butex' = IF th[t].ever_contended THEN locked_ver' + 1 ELSE locked_ver'
    /\ Issue(life, first_ver, locked_ver' - 1)
    /\ Go(t, [Idle EXCEPT !.pc = "hold", !.ver = th[t].ver, !.life = th[t].life])
    /\ UNCHANGED <<live, first_ver, join_butex, pending_q>>

\* Nobody has the lock: it is taken, and the range may be extended.
Take(t) ==
    /\ butex = first_ver
    /\ locked_ver' = IF first_ver + th[t].range <= locked_ver THEN locked_ver
                     ELSE first_ver + th[t].range
    /\ butex' = IF th[t].ever_contended THEN locked_ver' + 1 ELSE locked_ver'
    /\ Issue(life, first_ver, locked_ver' - 1)
    /\ Go(t, [Idle EXCEPT !.pc = "hold", !.ver = th[t].ver, !.life = th[t].life])
    /\ UNCHANGED <<live, first_ver, join_butex, pending_q>>

\* Someone has it: the butex says so to the holder, then the thread waits.
Contend(t) ==
    /\ butex \notin {first_ver, unlockable_ver}
    /\ butex' = contended_ver
    /\ Go(t, [th[t] EXCEPT !.pc = "wait", !.ever_contended = TRUE,
                           !.expected_ver = contended_ver])
    /\ UNCHANGED <<live, first_ver, locked_ver, join_butex, pending_q, issued>>

Lock_any_version(t) ==           \* the version is compared before the wait only
    /\ At(t, "lock")
    /\ \/ has_version(th[t].ver) /\ (Take(t) \/ Contend(t))
       \/ th[t].ever_contended /\ (Take(t) \/ Contend(t))
       \/ /\ (~th[t].ever_contended /\ ~has_version(th[t].ver)) \/ butex = unlockable_ver
          /\ Go(t, Idle)
          /\ UNCHANGED <<meta, issued>>
    /\ UNCHANGED <<waiters, joiners, life, uncounted, calls>>

\* One turn of the loop, under the mutex; the lock is refused when the id
\* has another version (EINVAL) or is about to be destroyed (EPERM).
Lock(t) ==
    /\ At(t, "lock")
    /\ \/ has_version(th[t].ver) /\ (Take(t) \/ Contend(t))
       \/ /\ ~has_version(th[t].ver) \/ butex = unlockable_ver
          /\ Go(t, Idle)
          /\ UNCHANGED <<meta, issued>>
    /\ UNCHANGED <<waiters, joiners, life, uncounted, calls>>

\* butex_wait(butex, expected_ver): EWOULDBLOCK if the value changed.  The version
\* that is expected may meanwhile be the locked_ver of an extended range.
Wait(t) ==
    /\ At(t, "wait")
    /\ IF butex = th[t].expected_ver
       THEN /\ waiters' = Append(waiters, t)
            /\ Go(t, To(t, "asleep"))
            /\ uncounted' = IF butex = locked_ver THEN uncounted \cup {t} ELSE uncounted \ {t}
       ELSE /\ Go(t, [th[t] EXCEPT !.pc = "lock", !.expected_ver = 0])
            /\ UNCHANGED <<waiters, uncounted>>
    /\ UNCHANGED <<meta, joiners, life, issued, calls>>

\* The sleep is interrupted (EINTR): the loop goes on.
Interrupt(t) ==
    /\ \/ /\ At(t, "asleep")
          /\ waiters' = RemoveFirst(waiters, t) /\ UNCHANGED joiners
          /\ Go(t, To(t, "lock"))
       \/ /\ At(t, "joining")
          /\ joiners' = RemoveFirst(joiners, t) /\ UNCHANGED waiters
          /\ Go(t, To(t, "join"))
    /\ UNCHANGED <<meta, history, calls>>

-----------------------------------------------------------------------------
(* bthread_id_unlock, and what else a holder of the lock may do.           *)

Unlock_no_pending(t) ==          \* the pending errors are left behind
    /\ At(t, "hold") /\ butex # unlockable_ver
    /\ butex' = first_ver
    /\ Go(t, IF butex = contended_ver THEN [Idle EXCEPT !.pc = "wake"] ELSE Idle)
    /\ UNCHANGED <<live, first_ver, locked_ver, join_butex, pending_q, waiters, joiners,
                   history, calls>>

\* A pending error is handled by the thread that has the lock, which it
\* keeps; else the lock is free, and a waiter is woken after the mutex was
\* unlocked.
Unlock(t) ==
    /\ At(t, "hold") /\ butex # unlockable_ver
    /\ IF pending_q > 0
       THEN /\ pending_q' = pending_q - 1
            /\ UNCHANGED <<butex, th>>
       ELSE /\ butex' = first_ver
            /\ Go(t, IF butex = contended_ver THEN [Idle EXCEPT !.pc = "wake"] ELSE Idle)
            /\ UNCHANGED pending_q
    /\ UNCHANGED <<live, first_ver, locked_ver, join_butex, waiters, joiners, history, calls>>

\* butex_wake: "we may wake up already-reused id, but that's OK".
Wake(t) ==
    /\ At(t, "wake")
    /\ IF waiters = <<>>
       THEN Go(t, Idle) /\ UNCHANGED waiters
       ELSE /\ th' = [th EXCEPT ![t] = Idle, ![Head(waiters)].pc = "lock"]
            /\ waiters' = Tail(waiters)
    /\ UNCHANGED <<meta, joiners, history, calls>>

\* bthread_id_error: the error is pending while the id is locked; else the
\* thread takes the lock and handles it.
Error(t) ==
    /\ At(t, "idle") /\ calls < MaxCalls
    /\ calls' = calls + 1
    /\ \E id \in issued :
          /\ has_version(id.ver)
          /\ \/ /\ butex = first_ver
                /\ butex' = locked_ver /\ UNCHANGED pending_q
                /\ Go(t, [Idle EXCEPT !.pc = "hold", !.ver = id.ver, !.life = id.life])
             \/ /\ butex \notin {first_ver, unlockable_ver}
                /\ pending_q' = pending_q + 1 /\ UNCHANGED <<butex, th>>
    /\ UNCHANGED <<live, first_ver, locked_ver, join_butex, waiters, joiners, history>>

\* bthread_id_about_to_destroy: no one else will get the lock; those who
\* wait for it are woken.
AboutToDestroy(t) ==
    /\ At(t, "hold") /\ butex # unlockable_ver
    /\ butex' = unlockable_ver
    /\ Go(t, To(t, "shut"))
    /\ UNCHANGED <<live, first_ver, locked_ver, join_butex, pending_q, waiters, joiners,
                   history, calls>>

Shut(t) ==
    /\ At(t, "shut")
    /\ th' = [x \in Threads |->
                CASE x = t -> To(x, "hold")
                  [] x \in ToSet(waiters) -> To(x, "lock")
                  [] OTHER -> th[x]]
    /\ waiters' = <<>>
    /\ UNCHANGED <<meta, joiners, history, calls>>

\* bthread_id_unlock_and_destroy: no version is valid until the slot is
\* taken again, which it can be once all sleepers were woken.
Destroy(t) ==
    /\ At(t, "hold")
    /\ first_ver' = end_ver /\ locked_ver' = end_ver
    /\ butex' = end_ver /\ join_butex' = end_ver /\ pending_q' = 0
    /\ Go(t, [Idle EXCEPT !.pc = "wakeall"])
    /\ UNCHANGED <<live, waiters, joiners, history, calls>>

WakeAll(t) ==
    /\ At(t, "wakeall")
    /\ th' = [x \in Threads |->
                CASE x = t -> Idle
                  [] x \in ToSet(waiters) -> To(x, "lock")
                  [] x \in ToSet(joiners) -> To(x, "join")
                  [] OTHER -> th[x]]
    /\ waiters' = <<>> /\ joiners' = <<>>
    /\ live' = FALSE
    /\ UNCHANGED <<first_ver, locked_ver, butex, join_butex, pending_q, history, calls>>

-----------------------------------------------------------------------------
(* bthread_id_join.                                                        *)

\* Under the mutex: the version is compared and *join_butex read.
Join(t) ==
    /\ At(t, "join")
    /\ Go(t, IF has_version(th[t].ver)
             THEN [th[t] EXCEPT !.pc = "joinwait", !.expected_ver = join_butex]
             ELSE To(t, "joined"))
    /\ UNCHANGED <<meta, waiters, joiners, history, calls>>

JoinWait_reads(t) ==             \* expected_ver is read after the mutex is released
    /\ At(t, "joinwait")
    /\ joiners' = Append(joiners, t)
    /\ Go(t, [To(t, "joining") EXCEPT !.expected_ver = join_butex])
    /\ UNCHANGED <<meta, waiters, history, calls>>

\* butex_wait on join_butex: the thread sleeps only if nothing has changed.
JoinWait(t) ==
    /\ At(t, "joinwait")
    /\ IF join_butex = th[t].expected_ver
       THEN joiners' = Append(joiners, t) /\ Go(t, To(t, "joining"))
       ELSE UNCHANGED joiners /\ Go(t, [th[t] EXCEPT !.pc = "join", !.expected_ver = 0])
    /\ UNCHANGED <<meta, waiters, history, calls>>

\* bthread_id_join returns 0.
Joined(t) ==
    /\ At(t, "joined")
    /\ Go(t, Idle)
    /\ UNCHANGED <<meta, waiters, joiners, history, calls>>

-----------------------------------------------------------------------------
Step(t) ==
    \/ Lock(t) \/ Wait(t) \/ Unlock(t) \/ Wake(t)
    \/ AboutToDestroy(t) \/ Shut(t) \/ Destroy(t) \/ WakeAll(t)
    \/ Join(t) \/ JoinWait(t) \/ Joined(t)

Next ==
    \/ Create
    \/ \E t \in Threads :
          \/ Step(t) \/ Interrupt(t)
          \/ \E r \in Ranges : Call(t, "lock", r)
          \/ Call(t, "join", 0) \/ Error(t)

Spec == Init /\ [][Next]_vars

\* Threads run on, and who has the lock unlocks or destroys the id.
FairSpec == Spec /\ \A t \in Threads : WF_vars(Step(t))

-----------------------------------------------------------------------------
(* Properties.                                                             *)

Places == {"idle", "lock", "wait", "asleep", "hold", "wake", "shut", "wakeall",
           "join", "joinwait", "joining", "joined"}

Locals == [pc : Places, ver : Nat, life : 0..MaxLives, range : Ranges \cup {0},
           ever_contended : BOOLEAN, expected_ver : Nat]

\* Types of the state; the butex shows a version of the id that has the slot now, and
\* who is queued on a butex sleeps there.
TypeOK ==
    /\ live \in BOOLEAN /\ life \in 0..MaxLives /\ calls \in 0..MaxCalls
    /\ first_ver \in Nat /\ locked_ver \in Nat /\ pending_q \in 0..MaxCalls
    /\ butex \in {first_ver} \cup locked_ver..unlockable_ver
    /\ join_butex \in Nat
    /\ th \in [Threads -> Locals]
    /\ issued \subseteq [ver : Nat, life : 1..life] /\ uncounted \subseteq Threads
    /\ waiters \in Seq({t \in Threads : At(t, "asleep")})
    /\ joiners \in Seq({t \in Threads : At(t, "joining")})

\* The threads that may use the Controller.
Holders == {t \in Threads : th[t].pc \in {"hold", "shut"}}

(***************************************************************************)
(* The lock is exclusive, and free only when nobody has it: no thread gets *)
(* it twice, no holder loses it, by whatever versions the butex shows.     *)
(***************************************************************************)
OneHolder == TypeOK /\ Cardinality(Holders) = IF butex = first_ver THEN 0 ELSE 1

(***************************************************************************)
(* An id of an RPC that is over never locks the Controller of the one that *)
(* has the slot now, even if the thread slept across the reuse, and a join *)
(* returns only when the RPC of its id is over.                            *)
(***************************************************************************)
IdsKeepTheirLife ==
    /\ \A t \in Holders : th[t].life = life /\ live
    /\ \A t \in Threads : At(t, "joined") => th[t].life < life \/ first_ver = locked_ver

\* The sleepers will be woken: the butex tells the holder so, or a wake is on the way,
\* or a thread that was woken, or did not sleep, will take the lock as contended.
Announced ==
    \/ butex = contended_ver
    \/ \E t \in Threads : \/ th[t].pc \in {"wake", "shut", "wakeall"}
                          \/ (At(t, "lock") /\ th[t].ever_contended)

(***************************************************************************)
(* Who went to sleep while the butex said so to the holder is not          *)
(* forgotten, by whatever ranges and interruptions.                        *)
(***************************************************************************)
CountedAreWoken == ToSet(waiters) \ uncounted # {} => Announced

(***************************************************************************)
(* "The bthread that accesses the Controller will wake the suspended ones" *)
(* when it is done, whoever they are.  With a range of 2 a new locked_ver  *)
(* is the old contended_ver: a thread that was to sleep on that one sleeps,*)
(* and the holder, who finds locked_ver, wakes nobody.                     *)
(***************************************************************************)
WaitersAreWoken == waiters # <<>> => Announced

(***************************************************************************)
(* An error that was put aside because the id was locked is handled before *)
(* the lock is free again.                                                 *)
(***************************************************************************)
ErrorsAreHandled == butex = first_ver => pending_q = 0

\* The thread is in bthread_id_lock, or in bthread_id_join of an id that
\* is over.
InLock(t) == th[t].pc \in {"lock", "wait", "asleep"}
InJoin(t) == th[t].pc \in {"join", "joinwait", "joining", "joined"}
Over(l) == l < life \/ first_ver = locked_ver

(***************************************************************************)
(* bthread_id_lock returns, but for a thread that sleeps uncounted, and so *)
(* does bthread_id_join once its RPC is over.                              *)
(***************************************************************************)
CallsReturn ==
    \A t \in Threads :
        /\ InLock(t) ~> (~InLock(t) \/ (At(t, "asleep") /\ t \in uncounted))
        /\ (InJoin(t) /\ Over(th[t].life)) ~> ~InJoin(t)

=============================================================================
