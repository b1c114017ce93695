---------------------------- MODULE SleepProofs ----------------------------
(***************************************************************************)
(* Proofs about Sleep, for any numbers of bthreads, sleeps, versions and   *)
(* interrupters: a sleeper is resumed once per sleep, its SleepArgs outlive*)
(* its timer, and usleep implements Suspension.                            *)
(***************************************************************************)
EXTENDS Sleep, TLAPS

-----------------------------------------------------------------------------
(* Updates of one and of two-dimensional arrays                            *)

\* An update at [s][n] keeps the type and changes that place only.
LEMMA UpdateAt ==
    ASSUME NEW S, NEW N, NEW V, NEW f \in [S -> [N -> V]],
           NEW s \in S, NEW n \in N, NEW v \in V
    PROVE  LET g == [f EXCEPT ![s][n] = v] IN
           /\ g \in [S -> [N -> V]]
           /\ \A t \in S, m \in N :
                 g[t][m] = IF t = s /\ m = n THEN v ELSE f[t][m]
<1> DEFINE g == [f EXCEPT ![s][n] = v]
<1>1. g = [f EXCEPT ![s] = [f[s] EXCEPT ![n] = v]]
  OBVIOUS
<1>2. [f[s] EXCEPT ![n] = v] \in [N -> V]
  OBVIOUS
<1> QED BY <1>1, <1>2

\* The invariant holds initially: every bthread runs and nothing can wake it.
LEMMA SleepInit == Init => SleepInv
BY SleepAssumption DEF Init, SleepInv, TypeOK, OneWaker, TimerLive,
   SleeperNotForgotten, SleepIds, Versions, PCs, Steps, Timers

-----------------------------------------------------------------------------
(* The invariant is inductive                                              *)

\* Steps that neither suspend nor resume a bthread and touch no way to wake it.
LEMMA QuietKeeps ==
    ASSUME SleepInv, UNCHANGED <<tokens, rem, timer, nsleep>>,
           \A s \in Sleepers : pc'[s] = "asleep" <=> pc[s] = "asleep"
    PROVE  /\ \A s \in Sleepers : OneWaker(s)'
           /\ SleeperNotForgotten'
BY DEF SleepInv, OneWaker, TimerLive, SleeperNotForgotten

\* "if (unschedule(sleep_id) == 0) ready_to_run(tid)" hands the sleeper from its
\* timer to a run queue, or does nothing.
LEMMA UnscheduleKeeps ==
    ASSUME SleepInv, NEW s \in Sleepers, NEW n \in SleepIds,
           unschedule_and_ready(s, n), UNCHANGED <<pc, nsleep>>,
           rem' \in [Sleepers -> [SleepIds -> Steps]],
           \A t \in Sleepers, m \in SleepIds :
              rem'[t][m] = "schedule" <=> rem[t][m] = "schedule"
    PROVE  /\ timer' \in [Sleepers -> [SleepIds -> Timers]]
           /\ tokens' \in [Sleepers -> Nat]
           /\ \A t \in Sleepers : OneWaker(t)'
           /\ SleeperNotForgotten'
<1>1. CASE timer[s][n] = "pending"
  <2>1. /\ timer' \in [Sleepers -> [SleepIds -> Timers]]
        /\ \A t \in Sleepers, m \in SleepIds :
              timer'[t][m] = IF t = s /\ m = n THEN "done" ELSE timer[t][m]
    <3>1. timer' = [timer EXCEPT ![s][n] = "done"]
      BY <1>1 DEF unschedule_and_ready
    <3>2. timer \in [Sleepers -> [SleepIds -> Timers]] /\ "done" \in Timers
      BY DEF SleepInv, TypeOK, Timers
    <3> QED BY <3>1, <3>2, UpdateAt
  <2>2. /\ tokens' \in [Sleepers -> Nat]
        /\ \A t \in Sleepers : tokens'[t] = IF t = s THEN 1 ELSE tokens[t]
    <3>1. tokens[s] = 0
      BY <1>1 DEF SleepInv, OneWaker, TimerLive
    <3>2. tokens' = [tokens EXCEPT ![s] = @ + 1]
      BY <1>1 DEF unschedule_and_ready
    <3>3. tokens \in [Sleepers -> Nat]
      BY DEF SleepInv, TypeOK
    <3> QED BY <3>1, <3>2, <3>3
  <2>3. \A t \in Sleepers : OneWaker(t)'
    <3> SUFFICES ASSUME NEW t \in Sleepers PROVE OneWaker(t)'
      OBVIOUS
    <3>1. OneWaker(t)
      BY DEF SleepInv
    <3>2. CASE t = s
      <4>1. /\ pc[s] = "asleep" /\ nsleep[s] = n
            /\ \A m \in SleepIds : rem[s][m] # "schedule"
            /\ \A m \in SleepIds : m # n => ~TimerLive(s, m)
        BY <1>1, <3>1, <3>2 DEF OneWaker, TimerLive
      <4>2. tokens'[s] = 1 /\ pc'[s] = "asleep"
        BY <2>2, <4>1
      <4>3. \A m \in SleepIds : rem'[s][m] # "schedule"
        BY <4>1
      <4>4. \A m \in SleepIds : ~TimerLive(s, m)'
        BY <2>1, <4>1 DEF TimerLive
      <4> QED BY <3>2, <4>2, <4>3, <4>4 DEF OneWaker
    <3>3. CASE t # s
      <4>1. tokens'[t] = tokens[t] /\ pc'[t] = pc[t] /\ nsleep'[t] = nsleep[t]
        BY <2>2, <3>3
      <4>2. \A m \in SleepIds : TimerLive(t, m)' <=> TimerLive(t, m)
        BY <2>1, <3>3 DEF TimerLive
      <4> QED BY <3>1, <4>1, <4>2 DEF OneWaker
    <3> QED BY <3>2, <3>3
  <2>4. SleeperNotForgotten'
    <3> SUFFICES ASSUME NEW t \in Sleepers, pc[t] = "asleep", tokens'[t] = 0
                 PROVE  \E m \in SleepIds : \/ rem'[t][m] = "schedule"
                                            \/ timer'[t][m] \in {"pending", "running"}
      BY <2>2 DEF SleeperNotForgotten
    <3>1. t # s /\ tokens[t] = 0
      BY <2>2
    <3> QED BY <3>1, <2>1 DEF SleepInv, SleeperNotForgotten
  <2> QED BY <2>1, <2>2, <2>3, <2>4
<1>2. CASE timer[s][n] # "pending"
  <2>1. UNCHANGED <<timer, tokens>>
    BY <1>2 DEF unschedule_and_ready
  <2> QED BY <2>1 DEF SleepInv, TypeOK, OneWaker, TimerLive, SleeperNotForgotten
<1> QED BY <1>1, <1>2

\* usleep suspends a running bthread and leaves its wake-up to the worker.
LEMMA UsleepKeeps ==
    ASSUME SleepInv, NEW s \in Sleepers, usleep(s)
    PROVE  SleepInv'
<1> DEFINE n == nsleep[s] + 1
<1>1. n \in SleepIds
  BY SleepAssumption DEF usleep, SleepInv, TypeOK, SleepIds
<1>2. /\ rem' \in [Sleepers -> [SleepIds -> Steps]]
      /\ \A t \in Sleepers, m \in SleepIds :
            rem'[t][m] = IF t = s /\ m = n THEN "schedule" ELSE rem[t][m]
  <2>1. rem' = [rem EXCEPT ![s][n] = "schedule"]
    BY DEF usleep
  <2>2. rem \in [Sleepers -> [SleepIds -> Steps]] /\ "schedule" \in Steps
    BY DEF SleepInv, TypeOK, Steps
  <2> HIDE DEF n
  <2> QED BY <1>1, <2>1, <2>2, UpdateAt
<1>3. given_ver' \in [Sleepers -> [SleepIds -> 0..Lives]]
  <2>1. given_ver' = [given_ver EXCEPT ![s][n] = version[s]]
    BY DEF usleep
  <2>2. version[s] \in 0..Lives
    BY SleepAssumption DEF SleepInv, TypeOK, Versions
  <2>3. given_ver \in [Sleepers -> [SleepIds -> 0..Lives]]
    BY DEF SleepInv, TypeOK
  <2> QED BY <1>1, <2>1, <2>2, <2>3, UpdateAt
<1>4. /\ nsleep' \in [Sleepers -> 0..MaxSleeps]
      /\ pc' \in [Sleepers -> PCs]
  BY <1>1 DEF usleep, SleepInv, TypeOK, SleepIds, PCs
<1>5. TypeOK'
  BY <1>2, <1>3, <1>4 DEF usleep, SleepInv, TypeOK, metaVars, interVars
<1>6. \A t \in Sleepers : OneWaker(t)'
  <2> SUFFICES ASSUME NEW t \in Sleepers PROVE OneWaker(t)'
    OBVIOUS
  <2>1. CASE t = s
    <3>1. tokens[s] = 0 /\ \A m \in SleepIds : /\ rem[s][m] # "schedule"
                                              /\ ~TimerLive(s, m)
      BY DEF usleep, SleepInv, OneWaker
    <3>2. pc'[s] = "asleep" /\ nsleep'[s] = n
      BY DEF usleep, SleepInv, TypeOK
    <3> HIDE DEF n
    <3> QED BY <2>1, <3>1, <3>2, <1>2 DEF usleep, OneWaker, TimerLive
  <2>2. CASE t # s
    BY <2>2, <1>2 DEF usleep, SleepInv, TypeOK, OneWaker, TimerLive
  <2> QED BY <2>1, <2>2
<1>7. SleeperNotForgotten'
  <2> SUFFICES ASSUME NEW t \in Sleepers, pc'[t] = "asleep", ~(tokens'[t] > 0)
               PROVE  \E m \in SleepIds : \/ rem'[t][m] = "schedule"
                                          \/ timer'[t][m] \in {"pending", "running"}
    BY DEF SleeperNotForgotten
  <2>1. CASE t = s
    BY <2>1, <1>1, <1>2
  <2>2. CASE t # s
    BY <2>2, <1>2 DEF usleep, SleepInv, TypeOK, SleeperNotForgotten
  <2> QED BY <2>1, <2>2
<1> QED BY <1>5, <1>6, <1>7 DEF SleepInv, usleep, interVars

\* Resume runs a bthread whose tid was queued: nothing else can wake it.
LEMMA ResumeKeeps ==
    ASSUME SleepInv, NEW s \in Sleepers, Resume(s)
    PROVE  SleepInv'
<1>1. /\ tokens' \in [Sleepers -> Nat]
      /\ \A t \in Sleepers : tokens'[t] = IF t = s THEN 0 ELSE tokens[t]
      /\ tokens[s] = 1
  BY DEF Resume, SleepInv, TypeOK, OneWaker
<1>2. /\ pc' \in [Sleepers -> PCs]
      /\ \A t \in Sleepers : pc'[t] = IF t = s THEN "woken" ELSE pc[t]
  BY DEF Resume, SleepInv, TypeOK, PCs
<1>3. TypeOK'
  BY <1>1, <1>2 DEF Resume, SleepInv, TypeOK, metaVars, sleepVars, interVars
<1>4. \A t \in Sleepers : OneWaker(t)'
  BY <1>1, <1>2 DEF Resume, SleepInv, OneWaker, TimerLive, sleepVars
<1>5. SleeperNotForgotten'
  BY <1>1, <1>2 DEF Resume, SleepInv, SleeperNotForgotten, sleepVars
<1> QED BY <1>3, <1>4, <1>5 DEF SleepInv, Resume, interVars

\* The other steps of a bthread touch only its program counter and TaskMeta.
LEMMA BthreadKeeps ==
    ASSUME SleepInv, NEW s \in Sleepers,
           \/ ClearSleep(s) \/ CheckInterrupted(s) \/ ClearInterrupted(s)
           \/ butex_wait(s) \/ butex_wait_returns(s)
           \/ task_runner_ends(s) \/ start(s)
    PROVE  SleepInv'
<1> USE DEF SleepInv, TypeOK, PCs, Versions, metaVars, sleepVars, interVars
<1>1. TypeOK'
  <2>1. CASE ClearSleep(s)           BY <2>1, SleepAssumption DEF ClearSleep
  <2>2. CASE CheckInterrupted(s)     BY <2>2 DEF CheckInterrupted
  <2>3. CASE ClearInterrupted(s)     BY <2>3 DEF ClearInterrupted
  <2>4. CASE butex_wait(s)           BY <2>4 DEF butex_wait
  <2>5. CASE butex_wait_returns(s)   BY <2>5 DEF butex_wait_returns
  <2>6. CASE task_runner_ends(s)
    <3>1. version' \in [Sleepers -> Versions] /\ pc' \in [Sleepers -> PCs]
      BY <2>6, SleepAssumption DEF task_runner_ends
    <3> QED BY <2>6, <3>1 DEF task_runner_ends
  <2>7. CASE start(s)                BY <2>7 DEF start
  <2> QED BY <2>1, <2>2, <2>3, <2>4, <2>5, <2>6, <2>7
<1>2. UNCHANGED <<tokens, rem, timer, nsleep, ipc, isleep>>
  BY DEF ClearSleep, CheckInterrupted, ClearInterrupted,
     butex_wait, butex_wait_returns, task_runner_ends, start
<1>3. \A t \in Sleepers : pc'[t] = "asleep" <=> pc[t] = "asleep"
  BY DEF ClearSleep, CheckInterrupted, ClearInterrupted,
     butex_wait, butex_wait_returns, task_runner_ends, start
<1>4. (\A t \in Sleepers : OneWaker(t)') /\ SleeperNotForgotten'
  BY <1>2, <1>3, QuietKeeps
<1> QED BY <1>1, <1>2, <1>4

\* _add_sleep_event sets the timer or readies the sleeper; later it may hand the
\* sleeper from the timer to a run queue.
LEMMA AddSleepEventKeeps ==
    ASSUME SleepInv, NEW s \in Sleepers, NEW n \in SleepIds,
           _add_sleep_event(s, n)
    PROVE  SleepInv'
<1>1. ASSUME NEW step \in {"lock", "done", "unschedule"},
             rem' = [rem EXCEPT ![s][n] = step]
      PROVE  /\ rem' \in [Sleepers -> [SleepIds -> Steps]]
             /\ \A t \in Sleepers, m \in SleepIds :
                   rem'[t][m] = IF t = s /\ m = n THEN step ELSE rem[t][m]
  <2>1. rem \in [Sleepers -> [SleepIds -> Steps]] /\ step \in Steps
    BY DEF SleepInv, TypeOK, Steps
  <2> QED BY <1>1, <2>1, UpdateAt
<1>2. CASE Schedule(s, n)
  <2>1. /\ pc[s] = "asleep" /\ nsleep[s] = n /\ tokens[s] = 0
        /\ \A m \in SleepIds : ~TimerLive(s, m)
        /\ \A m \in SleepIds : m # n => rem[s][m] # "schedule"
    BY <1>2 DEF Schedule, SleepInv, OneWaker
  <2>2. CASE timer' = [timer EXCEPT ![s][n] = "pending"] /\ UNCHANGED tokens
             /\ rem' = [rem EXCEPT ![s][n] = "lock"]
    <3>1. /\ timer' \in [Sleepers -> [SleepIds -> Timers]]
          /\ \A t \in Sleepers, m \in SleepIds :
                timer'[t][m] = IF t = s /\ m = n THEN "pending" ELSE timer[t][m]
      <4>1. timer \in [Sleepers -> [SleepIds -> Timers]] /\ "pending" \in Timers
        BY DEF SleepInv, TypeOK, Timers
      <4> QED BY <2>2, <4>1, UpdateAt
    <3>2. /\ rem' \in [Sleepers -> [SleepIds -> Steps]]
          /\ \A t \in Sleepers, m \in SleepIds :
                rem'[t][m] = IF t = s /\ m = n THEN "lock" ELSE rem[t][m]
      BY <1>1, <2>2
    <3>3. TypeOK'
      BY <1>2, <2>2, <3>1, <3>2 DEF Schedule, SleepInv, TypeOK, metaVars, interVars
    <3>4. ASSUME NEW t \in Sleepers PROVE OneWaker(t)'
      <4>1. OneWaker(t) BY DEF SleepInv
      <4>2. CASE t = s
        BY <1>2, <2>1, <2>2, <3>1, <3>2, <4>1, <4>2
           DEF Schedule, OneWaker, TimerLive
      <4>3. CASE t # s
        BY <1>2, <2>2, <3>1, <3>2, <4>1, <4>3 DEF Schedule, OneWaker, TimerLive
      <4> QED BY <4>2, <4>3
    <3>5. SleeperNotForgotten'
      BY <1>2, <2>2, <3>1, <3>2 DEF Schedule, SleepInv, SleeperNotForgotten
    <3> QED BY <1>2, <3>3, <3>4, <3>5 DEF Schedule, SleepInv, interVars
  <2>3. CASE tokens' = [tokens EXCEPT ![s] = @ + 1] /\ UNCHANGED timer
             /\ rem' = [rem EXCEPT ![s][n] = "done"]
    <3>1. /\ tokens' \in [Sleepers -> Nat]
          /\ \A t \in Sleepers : tokens'[t] = IF t = s THEN 1 ELSE tokens[t]
      BY <2>1, <2>3 DEF SleepInv, TypeOK
    <3>2. /\ rem' \in [Sleepers -> [SleepIds -> Steps]]
          /\ \A t \in Sleepers, m \in SleepIds :
                rem'[t][m] = IF t = s /\ m = n THEN "done" ELSE rem[t][m]
      BY <1>1, <2>3
    <3>3. TypeOK'
      BY <1>2, <2>3, <3>1, <3>2 DEF Schedule, SleepInv, TypeOK, metaVars, interVars
    <3>4. ASSUME NEW t \in Sleepers PROVE OneWaker(t)'
      <4>1. OneWaker(t) BY DEF SleepInv
      <4>2. CASE t = s
        BY <1>2, <2>1, <2>3, <3>1, <3>2, <4>1, <4>2
           DEF Schedule, OneWaker, TimerLive
      <4>3. CASE t # s
        BY <1>2, <2>3, <3>1, <3>2, <4>1, <4>3 DEF Schedule, OneWaker, TimerLive
      <4> QED BY <4>2, <4>3
    <3>5. SleeperNotForgotten'
      BY <1>2, <2>3, <3>1, <3>2 DEF Schedule, SleepInv, SleeperNotForgotten
    <3> QED BY <1>2, <3>3, <3>4, <3>5 DEF Schedule, SleepInv, interVars
  <2> QED BY <1>2, <2>2, <2>3 DEF Schedule
<1>3. CASE SetCurrentSleep(s, n)
  <2>1. PICK step \in {"done", "unschedule"} :
            rem' = [rem EXCEPT ![s][n] = step]
    BY <1>3 DEF SetCurrentSleep
  <2>2. /\ rem' \in [Sleepers -> [SleepIds -> Steps]]
        /\ \A t \in Sleepers, m \in SleepIds :
              rem'[t][m] = IF t = s /\ m = n THEN step ELSE rem[t][m]
    BY <1>1, <2>1
  <2>3. \A t \in Sleepers, m \in SleepIds :
            rem'[t][m] = "schedule" <=> rem[t][m] = "schedule"
    BY <1>3, <2>2 DEF SetCurrentSleep
  <2>4. UNCHANGED <<pc, tokens, timer, nsleep, ipc, isleep>>
    BY <1>3 DEF SetCurrentSleep, interVars
  <2>5. TypeOK'
    <3>1. current_sleep' \in [Sleepers -> 0..MaxSleeps]
      <4>1. current_sleep \in [Sleepers -> 0..MaxSleeps] /\ n \in 0..MaxSleeps
        BY SleepAssumption DEF SleepInv, TypeOK, SleepIds
      <4> QED BY <1>3, <4>1 DEF SetCurrentSleep
    <3> QED BY <1>3, <2>2, <2>4, <3>1 DEF SetCurrentSleep, SleepInv, TypeOK, interVars
  <2>6. (\A t \in Sleepers : OneWaker(t)') /\ SleeperNotForgotten'
    BY <2>3, <2>4 DEF SleepInv, OneWaker, TimerLive, SleeperNotForgotten
  <2> QED BY <2>4, <2>5, <2>6 DEF SleepInv
<1>4. CASE Unschedule(s, n)
  <2>1. /\ rem' \in [Sleepers -> [SleepIds -> Steps]]
        /\ \A t \in Sleepers, m \in SleepIds :
              rem'[t][m] = IF t = s /\ m = n THEN "done" ELSE rem[t][m]
    BY <1>1, <1>4 DEF Unschedule
  <2>2. \A t \in Sleepers, m \in SleepIds :
            rem'[t][m] = "schedule" <=> rem[t][m] = "schedule"
    BY <1>4, <2>1 DEF Unschedule
  <2>3. unschedule_and_ready(s, n) /\ UNCHANGED <<pc, nsleep>>
    BY <1>4 DEF Unschedule
  <2>4. /\ timer' \in [Sleepers -> [SleepIds -> Timers]]
        /\ tokens' \in [Sleepers -> Nat]
        /\ \A t \in Sleepers : OneWaker(t)'
        /\ SleeperNotForgotten'
    BY <2>1, <2>2, <2>3, UnscheduleKeeps
  <2>5. TypeOK'
    BY <1>4, <2>1, <2>4 DEF Unschedule, SleepInv, TypeOK, metaVars, interVars
  <2> QED BY <1>4, <2>4, <2>5 DEF Unschedule, SleepInv, interVars
<1> QED BY <1>2, <1>3, <1>4 DEF _add_sleep_event

\* The timer runs its callback once, and only it wakes the sleeper then.
LEMMA TimerKeeps ==
    ASSUME SleepInv, NEW s \in Sleepers, NEW n \in SleepIds,
           TimerFire(s, n) \/ ready_to_run_from_timer_thread(s, n)
    PROVE  SleepInv'
<1>1. /\ pc[s] = "asleep" /\ nsleep[s] = n /\ tokens[s] = 0
      /\ \A m \in SleepIds : rem[s][m] # "schedule"
      /\ \A m \in SleepIds : m # n => ~TimerLive(s, m)
  BY DEF TimerFire, ready_to_run_from_timer_thread, SleepInv, OneWaker, TimerLive
<1>2. ASSUME NEW state \in Timers, timer' = [timer EXCEPT ![s][n] = state]
      PROVE  /\ timer' \in [Sleepers -> [SleepIds -> Timers]]
             /\ \A t \in Sleepers, m \in SleepIds :
                   timer'[t][m] = IF t = s /\ m = n THEN state ELSE timer[t][m]
  <2>1. timer \in [Sleepers -> [SleepIds -> Timers]]
    BY DEF SleepInv, TypeOK
  <2> QED BY <1>2, <2>1, UpdateAt
<1>3. CASE TimerFire(s, n)
  <2>1. /\ timer' \in [Sleepers -> [SleepIds -> Timers]]
        /\ \A t \in Sleepers, m \in SleepIds :
              timer'[t][m] = IF t = s /\ m = n THEN "running" ELSE timer[t][m]
    BY <1>2, <1>3 DEF TimerFire, Timers
  <2>2. TypeOK'
    BY <1>3, <2>1 DEF TimerFire, SleepInv, TypeOK, metaVars, interVars
  <2>3. \A t \in Sleepers, m \in SleepIds :
            timer'[t][m] \in {"pending", "running"} <=>
            timer[t][m] \in {"pending", "running"}
    BY <1>3, <2>1 DEF TimerFire
  <2>4. (\A t \in Sleepers : OneWaker(t)') /\ SleeperNotForgotten'
    BY <1>3, <2>3 DEF TimerFire, SleepInv, OneWaker, TimerLive, SleeperNotForgotten
  <2> QED BY <1>3, <2>2, <2>4 DEF TimerFire, SleepInv, interVars
<1>4. CASE ready_to_run_from_timer_thread(s, n)
  <2>1. /\ timer' \in [Sleepers -> [SleepIds -> Timers]]
        /\ \A t \in Sleepers, m \in SleepIds :
              timer'[t][m] = IF t = s /\ m = n THEN "done" ELSE timer[t][m]
    BY <1>2, <1>4 DEF ready_to_run_from_timer_thread, Timers
  <2>2. /\ tokens' \in [Sleepers -> Nat]
        /\ \A t \in Sleepers : tokens'[t] = IF t = s THEN 1 ELSE tokens[t]
    BY <1>1, <1>4 DEF ready_to_run_from_timer_thread, SleepInv, TypeOK
  <2>3. TypeOK'
    BY <1>4, <2>1, <2>2 DEF ready_to_run_from_timer_thread, SleepInv, TypeOK,
       metaVars, interVars
  <2>4. ASSUME NEW t \in Sleepers PROVE OneWaker(t)'
    <3>1. OneWaker(t) BY DEF SleepInv
    <3>2. CASE t = s
      BY <1>1, <1>4, <2>1, <2>2, <3>1, <3>2
         DEF ready_to_run_from_timer_thread, OneWaker, TimerLive
    <3>3. CASE t # s
      BY <1>4, <2>1, <2>2, <3>1, <3>3
         DEF ready_to_run_from_timer_thread, OneWaker, TimerLive
    <3> QED BY <3>2, <3>3
  <2>5. SleeperNotForgotten'
    BY <1>4, <2>1, <2>2 DEF ready_to_run_from_timer_thread, SleepInv,
       SleeperNotForgotten
  <2> QED BY <1>4, <2>3, <2>4, <2>5 DEF ready_to_run_from_timer_thread, SleepInv,
             interVars
<1> QED BY <1>3, <1>4

\* An interruption marks the sleeper, and wakes it instead of its timer.
LEMMA InterruptKeeps ==
    ASSUME SleepInv, NEW i \in Interrupters,
           \/ \E s \in Sleepers, v \in Versions : interrupt(i, s, v)
           \/ InterruptStep(i)
    PROVE  SleepInv'
<1>1. CASE \E s \in Sleepers, v \in Versions : interrupt(i, s, v)
  <2>1. PICK s \in Sleepers, v \in Versions : interrupt(i, s, v)
    BY <1>1
  <2>2. TypeOK'
    BY <2>1, SleepAssumption DEF interrupt, SleepInv, TypeOK, metaVars, sleepVars
  <2>3. (\A t \in Sleepers : OneWaker(t)') /\ SleeperNotForgotten'
    BY <2>1, QuietKeeps DEF interrupt, sleepVars
  <2> QED BY <2>1, <2>2, <2>3 DEF interrupt, SleepInv, TypeOK
<1>2. CASE interrupt_and_consume_waiters(i)
  <2>1. isleeper[i] \in Sleepers
    BY DEF SleepInv, TypeOK
  <2>2. UNCHANGED <<pc, tokens, rem, timer, nsleep>>
    BY <1>2 DEF interrupt_and_consume_waiters, sleepVars
  <2>3. /\ current_waiter' \in [Sleepers -> BOOLEAN]
        /\ current_sleep' \in [Sleepers -> 0..MaxSleeps]
        /\ interrupted' \in [Sleepers -> BOOLEAN]
        /\ isleep' \in [Interrupters -> 0..MaxSleeps]
        /\ ipc' \in [Interrupters -> {"idle", "consume", "waiter", "sleep"}]
    <3> DEFINE s == isleeper[i]
    <3>1. CASE iver[i] = version[s]
      <4>1. current_sleep[s] \in 0..MaxSleeps /\ 0 \in 0..MaxSleeps
        BY <2>1, SleepAssumption DEF SleepInv, TypeOK
      <4>2. /\ current_waiter' = [current_waiter EXCEPT ![s] = FALSE]
            /\ current_sleep' = [current_sleep EXCEPT ![s] = 0]
            /\ interrupted' = [interrupted EXCEPT ![s] = TRUE]
            /\ isleep' = [isleep EXCEPT ![i] = current_sleep[s]]
        BY <1>2, <3>1 DEF interrupt_and_consume_waiters
      <4>3. PICK next \in {"idle", "waiter", "sleep"} :
                ipc' = [ipc EXCEPT ![i] = next]
        BY <1>2, <3>1 DEF interrupt_and_consume_waiters
      <4> QED BY <2>1, <4>1, <4>2, <4>3 DEF SleepInv, TypeOK
    <3>2. CASE iver[i] # version[s]
      BY <1>2, <3>2 DEF interrupt_and_consume_waiters, SleepInv, TypeOK
    <3> QED BY <3>1, <3>2
  <2>4. TypeOK'
    BY <1>2, <2>2, <2>3 DEF interrupt_and_consume_waiters, SleepInv, TypeOK, sleepVars
  <2>5. (\A t \in Sleepers : OneWaker(t)') /\ SleeperNotForgotten'
    BY <2>2, QuietKeeps
  <2>6. \A j \in Interrupters : ipc'[j] = "sleep" => isleep'[j] # 0
    <3>1. /\ ipc'[i] = "sleep" => isleep'[i] # 0
          /\ \A j \in Interrupters \ {i} : ipc'[j] = ipc[j] /\ isleep'[j] = isleep[j]
      BY <1>2 DEF interrupt_and_consume_waiters, SleepInv, TypeOK
    <3> QED BY <3>1 DEF SleepInv
  <2> QED BY <2>4, <2>5, <2>6 DEF SleepInv
<1>3. CASE set_butex_waiter(i)
  <2>1. TypeOK'
    BY <1>3, SleepAssumption DEF set_butex_waiter, SleepInv, TypeOK, sleepVars
  <2>2. (\A t \in Sleepers : OneWaker(t)') /\ SleeperNotForgotten'
    BY <1>3, QuietKeeps DEF set_butex_waiter, sleepVars
  <2> QED BY <1>3, <2>1, <2>2 DEF set_butex_waiter, SleepInv, TypeOK
<1>4. CASE interrupt_sleep(i)
  <2>1. isleeper[i] \in Sleepers /\ isleep[i] \in SleepIds
    BY <1>4, SleepAssumption DEF interrupt_sleep, SleepInv, TypeOK, SleepIds
  <2>2. /\ unschedule_and_ready(isleeper[i], isleep[i])
        /\ UNCHANGED <<pc, nsleep, rem>>
        /\ rem \in [Sleepers -> [SleepIds -> Steps]]
    BY <1>4 DEF interrupt_sleep, SleepInv, TypeOK
  <2>3. /\ timer' \in [Sleepers -> [SleepIds -> Timers]]
        /\ tokens' \in [Sleepers -> Nat]
        /\ \A t \in Sleepers : OneWaker(t)'
        /\ SleeperNotForgotten'
    BY <2>1, <2>2, UnscheduleKeeps
  <2>4. TypeOK'
    BY <1>4, <2>3, SleepAssumption DEF interrupt_sleep, SleepInv, TypeOK, metaVars
  <2> QED BY <1>4, <2>3, <2>4 DEF interrupt_sleep, SleepInv, TypeOK
<1> QED BY <1>1, <1>2, <1>3, <1>4 DEF InterruptStep

\* SleepInv is preserved by every step.
LEMMA SleepNext == SleepInv /\ [Next]_vars => SleepInv'
<1> SUFFICES ASSUME SleepInv, [Next]_vars PROVE SleepInv'
  OBVIOUS
<1>1. CASE UNCHANGED vars
  BY <1>1 DEF vars, metaVars, sleepVars, interVars, SleepInv, TypeOK, OneWaker,
     TimerLive, SleeperNotForgotten
<1>2. ASSUME NEW s \in Sleepers, usleep(s) PROVE SleepInv'
  BY <1>2, UsleepKeeps
<1>3. ASSUME NEW s \in Sleepers, Resume(s) PROVE SleepInv'
  BY <1>3, ResumeKeeps
<1>4. ASSUME NEW s \in Sleepers,
             \/ ClearSleep(s) \/ CheckInterrupted(s) \/ ClearInterrupted(s)
             \/ butex_wait(s) \/ butex_wait_returns(s)
             \/ task_runner_ends(s) \/ start(s)
      PROVE  SleepInv'
  BY <1>4, BthreadKeeps
<1>5. ASSUME NEW s \in Sleepers, NEW n \in SleepIds, _add_sleep_event(s, n)
      PROVE  SleepInv'
  BY <1>5, AddSleepEventKeeps
<1>6. ASSUME NEW s \in Sleepers, NEW n \in SleepIds,
             TimerFire(s, n) \/ ready_to_run_from_timer_thread(s, n)
      PROVE  SleepInv'
  BY <1>6, TimerKeeps
<1>7. ASSUME NEW i \in Interrupters,
             \/ \E s \in Sleepers, v \in Versions : interrupt(i, s, v)
             \/ InterruptStep(i)
      PROVE  SleepInv'
  BY <1>7, InterruptKeeps
<1> QED BY <1>1, <1>2, <1>3, <1>4, <1>5, <1>6, <1>7 DEF Next, SleeperStep

-----------------------------------------------------------------------------
(* Theorems                                                                *)

\* In every reachable state of usleep and its interruption the types are right,
\* each sleeper has exactly one waker, and that waker belongs to the sleep the
\* bthread is in.
THEOREM SleepInvariant == Spec => []SleepInv
BY SleepInit, SleepNext, PTL DEF Spec

\* However the timer callback, _add_sleep_event and any number of interrupters
\* race, a tid is queued at most once, and only while its bthread sleeps.
THEOREM SleeperResumedOnce == Spec => []ResumedOnce
<1>1. SleepInv => ResumedOnce
  BY DEF SleepInv, OneWaker, ResumedOnce
<1> QED BY <1>1, SleepInvariant, PTL

\* A timer that can still run its callback reads SleepArgs of a usleep that has
\* not returned.
THEOREM SleepArgsOutliveTimer == Spec => []SleepArgsAlive
<1>1. SleepInv => SleepArgsAlive
  BY DEF SleepInv, OneWaker, TimerLive, SleepArgsAlive
<1> QED BY <1>1, SleepInvariant, PTL

\* No interleaving of interruption, timer and exit leaves a sleeper without
\* somebody who will run it.
THEOREM SleeperKept == Spec => []SleeperNotForgotten
<1>1. SleepInv => SleeperNotForgotten
  BY DEF SleepInv
<1> QED BY <1>1, SleepInvariant, PTL

\* Every step of usleep, its timer and its interruption is a step of Suspension.
LEMMA ContractStep ==
    ASSUME SleepInv, SleepInv', [Next]_vars
    PROVE  [Contract!Next]_(Contract!vars)
<1> USE DEF Contract!vars, Contract!Next
<1> DEFINE running == [s \in Sleepers |-> pc[s] # "asleep"]
<1>1. ASSUME NEW s \in Sleepers, pc' = pc, tokens' = [tokens EXCEPT ![s] = @ + 1]
      PROVE  Contract!MakeReady(s)
  <2>1. tokens[s] = 0 /\ pc[s] = "asleep"
    BY <1>1 DEF SleepInv, TypeOK, OneWaker
  <2>2. tokens' = [tokens EXCEPT ![s] = 1]
    BY <1>1, <2>1
  <2>3. running' = running /\ running[s] = FALSE
    BY <1>1, <2>1
  <2> QED BY <2>1, <2>2, <2>3 DEF Contract!MakeReady
<1>2. ASSUME \A t \in Sleepers : pc'[t] = "asleep" <=> pc[t] = "asleep",
             UNCHANGED tokens
      PROVE  UNCHANGED Contract!vars
  <2>1. running' = running
    BY <1>2
  <2> QED BY <1>2, <2>1
<1>3. ASSUME NEW s \in Sleepers, usleep(s) PROVE Contract!Suspend(s)
  <2>1. pc \in [Sleepers -> PCs] /\ pc[s] # "asleep"
    BY <1>3 DEF usleep, SleepInv, TypeOK
  <2>2. running' = [running EXCEPT ![s] = FALSE]
    BY <1>3, <2>1 DEF usleep
  <2>3. UNCHANGED tokens
    BY <1>3 DEF usleep
  <2> QED BY <2>1, <2>2, <2>3 DEF Contract!Suspend
<1>4. ASSUME NEW s \in Sleepers, Resume(s) PROVE Contract!Run(s)
  <2>1. pc \in [Sleepers -> PCs] /\ tokens \in [Sleepers -> Nat] /\ tokens[s] = 1
    BY <1>4 DEF Resume, SleepInv, TypeOK, OneWaker
  <2>2. running' = [running EXCEPT ![s] = TRUE]
    BY <1>4, <2>1 DEF Resume
  <2>3. tokens' = [tokens EXCEPT ![s] = 0]
    BY <1>4, <2>1 DEF Resume
  <2> QED BY <2>1, <2>2, <2>3 DEF Contract!Run
<1>5. ASSUME NEW s \in Sleepers, NEW n \in SleepIds, pc' = pc,
             unschedule_and_ready(s, n)
      PROVE  [Contract!Next]_(Contract!vars)
  BY <1>1, <1>2, <1>5 DEF unschedule_and_ready
<1>6. CASE UNCHANGED vars
  BY <1>2, <1>6 DEF vars
<1>7. ASSUME NEW s \in Sleepers,
             \/ ClearSleep(s) \/ CheckInterrupted(s) \/ ClearInterrupted(s)
             \/ butex_wait(s) \/ butex_wait_returns(s)
             \/ task_runner_ends(s) \/ start(s)
      PROVE  UNCHANGED Contract!vars
  <2>1. \A t \in Sleepers : pc'[t] = "asleep" <=> pc[t] = "asleep"
    BY <1>7 DEF ClearSleep, CheckInterrupted, ClearInterrupted, butex_wait,
       butex_wait_returns, task_runner_ends, start, SleepInv, TypeOK
  <2>2. UNCHANGED tokens
    BY <1>7 DEF ClearSleep, CheckInterrupted, ClearInterrupted, butex_wait,
       butex_wait_returns, task_runner_ends, start
  <2> QED BY <1>2, <2>1, <2>2
<1>8. ASSUME NEW s \in Sleepers, NEW n \in SleepIds,
             \/ _add_sleep_event(s, n) \/ TimerFire(s, n)
             \/ ready_to_run_from_timer_thread(s, n)
      PROVE  [Contract!Next]_(Contract!vars)
  <2>1. CASE Schedule(s, n)
    BY <1>1, <1>2, <2>1 DEF Schedule
  <2>2. CASE SetCurrentSleep(s, n) \/ TimerFire(s, n)
    BY <1>2, <2>2 DEF SetCurrentSleep, TimerFire
  <2>3. CASE Unschedule(s, n)
    BY <1>5, <2>3 DEF Unschedule
  <2>4. CASE ready_to_run_from_timer_thread(s, n)
    BY <1>1, <2>4 DEF ready_to_run_from_timer_thread
  <2> QED BY <1>8, <2>1, <2>2, <2>3, <2>4 DEF _add_sleep_event
<1>9. ASSUME NEW i \in Interrupters,
             \/ \E s \in Sleepers, v \in Versions : interrupt(i, s, v)
             \/ InterruptStep(i)
      PROVE  [Contract!Next]_(Contract!vars)
  <2>1. CASE interrupt_sleep(i)
    <3>1. isleeper[i] \in Sleepers /\ isleep[i] \in SleepIds
      BY <2>1, SleepAssumption DEF interrupt_sleep, SleepInv, TypeOK, SleepIds
    <3>2. pc' = pc /\ unschedule_and_ready(isleeper[i], isleep[i])
      BY <2>1 DEF interrupt_sleep
    <3> QED BY <1>5, <3>1, <3>2
  <2>2. CASE ~interrupt_sleep(i)
    <3>1. UNCHANGED <<pc, tokens>>
      BY <1>9, <2>2 DEF InterruptStep, interrupt, interrupt_and_consume_waiters,
         set_butex_waiter
    <3> QED BY <1>2, <3>1
  <2> QED BY <2>1, <2>2
<1> QED BY <1>3, <1>4, <1>6, <1>7, <1>8, <1>9 DEF Next, SleeperStep

\* bthread_usleep implements Suspension: whatever interrupts it, a bthread that
\* sleeps is suspended once, made ready once and run once.
THEOREM SleepImplementsSuspension == Spec => SuspendsCorrectly
<1>1. Init => Contract!Init
  BY DEF Init, Contract!Init
<1>2. SleepInv /\ SleepInv' /\ [Next]_vars => [Contract!Next]_(Contract!vars)
  BY ContractStep
<1> QED BY <1>1, <1>2, SleepInvariant, PTL
           DEF Spec, SuspendsCorrectly, Contract!Spec

=============================================================================
