--------------------------- MODULE TaskLifeProofs ---------------------------
(***************************************************************************)
(* TLAPS proofs about TaskLife for any number of slots, workers, stacks,   *)
(* versions and starts: stacks are neither shared nor lost, a worker       *)
(* executes on a stack of its own, what is said of a tid is true of its    *)
(* bthread, and join returns after the end of the bthread.                 *)
(***************************************************************************)
EXTENDS TaskLife, FiniteSetTheorems, TLAPS

-----------------------------------------------------------------------------
(* The inductive invariant.                                                *)

Alives == {"ready", "running"}
OnWorker == {"running", "ended", "woken"}

\* A stack is in the pool or belongs to one bthread.
Owned ==
    /\ \A k \in Stacks : k \in pool <=> \A s \in Slots : stack[s] # k
    /\ \A s, u \in Slots : stack[s] = stack[u] /\ stack[s] \in Stacks => s = u

\* A bthread that is not on a worker has no stack or one that it left.
StackInv ==
    /\ Owned
    /\ \A s \in Slots : state[s] = "free" => stack[s] = NULL
    /\ \A s \in Slots : state[s] = "ready" /\ stack[s] # NULL =>
                           stack[s] \in Stacks /\ type[s] = "NORMAL"

\* A worker and the bthreads it runs and left.  A bthread that ended is released
\* before the worker ends another one.
WorkerInv ==
    /\ \A w \in Workers :
          cur[w] # NULL => /\ state[cur[w]] \in OnWorker
                           /\ state[cur[w]] # "running" => remained[w] = NULL
                           /\ sp[w] = stack[cur[w]]
                           /\ \/ type[cur[w]] = "NORMAL" /\ sp[w] \in Stacks
                              \/ type[cur[w]] = "PTHREAD" /\ sp[w] = w
    /\ \A w \in Workers : cur[w] = NULL => sp[w] = w
    /\ \A w, x \in Workers : cur[w] = cur[x] /\ cur[w] # NULL => w = x
    /\ \A w \in Workers : remained[w] # NULL => state[remained[w]] = "left"
    /\ \A w, x \in Workers : remained[w] = remained[x] /\ remained[w] # NULL => w = x

\* How often the version moved on from b to get to c, at most NVersions - 2 times.
Distance(b, c) == IF c >= b THEN c - b ELSE c - b + (NVersions - 1)

\* How often it moved on since bthread n of slot s was started.
Moves(s, n) == IF state[s] \in Alives THEN lives[s] - n ELSE lives[s] - n + 1

\* The version of the slot and those of the tids that were given out.
TidInv ==
    /\ \A s \in Slots : version[s] # 0
    /\ \A s \in Slots : \A n \in 1..lives[s] :
          /\ given[s][n] # 0
          /\ Moves(s, n) < NVersions - 1 => Distance(given[s][n], version[s]) = Moves(s, n)
    /\ \A s \in Slots : state[s] \in Alives =>
                           lives[s] > 0 /\ given[s][lives[s]] = version[s]

\* The tids that joiners and stoppers hold.
JoinInv ==
    \A j \in Joiners :
        jpc[j] # "idle" => /\ jslot[j] \in Slots
                           /\ jlife[j] \in 1..lives[jslot[j]]
                           /\ jver[j] = given[jslot[j]][jlife[j]]

StopInv ==
    /\ \A s \in Slots : asked[s] \subseteq 1..lives[s]
    /\ \A p \in Stoppers :
          spc[p] = "set" => /\ sslot[p] \in Slots
                            /\ \E m \in asked[sslot[p]] : given[sslot[p]][m] = sver[p]
    /\ \A s \in Slots :
          state[s] \in Alives /\ stop[s] => \E m \in asked[s] : given[s][m] = version[s]
    /\ \A s \in Slots :
          state[s] \in Alives /\ lives[s] \in asked[s] =>
             stop[s] \/ \E p \in Stoppers : /\ spc[p] = "set"
                                            /\ sslot[p] = s /\ sver[p] = version[s]

TaskLifeInv == TypeOK /\ StackInv /\ WorkerInv /\ TidInv /\ JoinInv /\ StopInv

-----------------------------------------------------------------------------
(* Facts about numbers and functions.                                      *)

\* The version moves on by one, and from the last one to 1.
LEMMA NextVersion ==
    ASSUME NEW v \in Versions
    PROVE  /\ next_version(v) \in Versions /\ next_version(v) # 0
           /\ next_version(v) = IF v = NVersions - 1 THEN 1 ELSE v + 1
<1>1. NVersions \in Nat /\ NVersions > 1 /\ v \in 0..(NVersions - 1)
  BY TaskLifeAssumption DEF Versions
<1>2. (v + 1) % NVersions = IF v + 1 = NVersions THEN 0 ELSE v + 1
  BY <1>1
<1> QED BY <1>1, <1>2 DEF next_version, Versions

\* It is one further from any version it does not come back to.
LEMMA DistanceGrows ==
    ASSUME NEW b \in Versions, b # 0, NEW c \in Versions, c # 0,
           Distance(b, c) + 1 < NVersions - 1
    PROVE  Distance(b, next_version(c)) = Distance(b, c) + 1
<1>1. NVersions \in Nat /\ b \in 1..(NVersions - 1) /\ c \in 1..(NVersions - 1)
  BY TaskLifeAssumption DEF Versions
<1>2. next_version(c) = IF c = NVersions - 1 THEN 1 ELSE c + 1
  BY NextVersion
<1> QED BY <1>1, <1>2 DEF Distance

\* A slot is taken again only while its count of starts is below the bound.
LEMMA StartBound ==
    ASSUME TypeOK, NEW s \in Slots, Cardinality(Started) < MaxStarts
    PROVE  lives[s] + 1 \in 1..MaxStarts
<1>1. MaxStarts \in Nat /\ lives[s] \in 0..MaxStarts
  BY TaskLifeAssumption DEF TypeOK
<1>2. SUFFICES ASSUME lives[s] = MaxStarts PROVE FALSE
  BY <1>1
<1>3. IsFiniteSet(1..MaxStarts) /\ Cardinality(1..MaxStarts) = MaxStarts
  BY <1>1, FS_Interval
<1>4. IsFiniteSet(Started) /\ Cardinality(Started) \in Nat
  <2>1. IsFiniteSet(Slots \X (1..MaxStarts))
    BY <1>3, TaskLifeAssumption, FS_Product
  <2>2. Started \in SUBSET (Slots \X (1..MaxStarts))
    BY DEF Started
  <2> QED BY <2>1, <2>2, FS_Subset, FS_CardinalityType
<1>5. MaxStarts <= Cardinality(Started)
  <2> DEFINE f == [n \in 1..MaxStarts |-> <<s, n>>]
  <2>1. f \in [1..MaxStarts -> Started]
    BY <1>2 DEF Started
  <2>2. f \in Injection(1..MaxStarts, Started)
    BY <2>1 DEF Injection, IsInjective
  <2> QED BY <1>3, <1>4, <2>2, FS_Injection
<1> QED BY <1>1, <1>4, <1>5

-----------------------------------------------------------------------------
(* What the parts of the invariant depend on.                              *)

\* Steps that leave versions, tids and flags alone, and start and end no bthread.
LEMMA TidsStay ==
    ASSUME TaskLifeInv, UNCHANGED <<version, stop, stopVars, lifeVars, jslot, jver, jlife>>,
           \A s \in Slots : state'[s] \in Alives <=> state[s] \in Alives,
           \A j \in Joiners : jpc'[j] # "idle" => jpc[j] # "idle"
    PROVE  TidInv' /\ JoinInv' /\ StopInv'
<1>1. /\ UNCHANGED <<version, stop, spc, sslot, sver, asked>>
      /\ UNCHANGED <<lives, given, jslot, jver, jlife>>
  BY DEF stopVars, lifeVars
<1>2. TidInv'
  BY <1>1 DEF TaskLifeInv, TidInv, Moves
<1>3. JoinInv'
  BY <1>1 DEF TaskLifeInv, JoinInv
<1>4. StopInv'
  BY <1>1 DEF TaskLifeInv, StopInv
<1> QED BY <1>2, <1>3, <1>4

\* Steps that leave stacks and workers alone.
LEMMA StacksStay ==
    ASSUME TaskLifeInv, UNCHANGED <<state, type, stack, workerVars>>
    PROVE  StackInv' /\ WorkerInv'
BY DEF TaskLifeInv, StackInv, Owned, WorkerInv, workerVars

\* Main stacks, the stacks of the allocator and NULL are different things.
LEMMA Apart ==
    /\ NULL \notin Slots /\ NULL \notin Stacks /\ NULL \notin Workers
    /\ \A w \in Workers : w \notin Stacks
BY TaskLifeAssumption

\* All slots are free, all stacks are in the pool, all workers are on their main stack.
LEMMA InitInv == Init => TaskLifeInv
<1> SUFFICES ASSUME Init PROVE TaskLifeInv
  OBVIOUS
<1>1. 0 \in Versions /\ 1 \in Versions
  BY TaskLifeAssumption DEF Versions
<1>2. TypeOK
  <2>1. stop \in [Slots -> BOOLEAN]
    BY DEF Init
  <2>2. lives \in [Slots -> 0..MaxStarts] /\ jlife \in [Joiners -> 0..MaxStarts]
    BY TaskLifeAssumption DEF Init
  <2>3. asked \in [Slots -> SUBSET (1..MaxStarts)]
    BY DEF Init
  <2>4. given \in [Slots -> [1..MaxStarts -> Versions]]
    BY <1>1 DEF Init
  <2> QED BY <1>1, <2>1, <2>2, <2>3, <2>4 DEF Init, TypeOK, States, Types
<1>3. StackInv
  BY Apart DEF Init, StackInv, Owned
<1>4. WorkerInv
  BY DEF Init, WorkerInv
<1>5. TidInv
  BY DEF Init, TidInv, Alives
<1>6. JoinInv /\ StopInv
  BY DEF Init, JoinInv, StopInv, Alives
<1> QED BY <1>2, <1>3, <1>4, <1>5, <1>6 DEF TaskLifeInv

-----------------------------------------------------------------------------
(* The invariant is inductive: starting and switching.                     *)

\* A slot that is taken keeps its version for the tid of the new bthread; the tids of
\* the former ones are as far from it as before.
LEMMA StartKeeps ==
    ASSUME TaskLifeInv, NEW s \in Slots, NEW t \in Types, start(s, t)
    PROVE  TaskLifeInv'
<1>1. /\ UNCHANGED <<version, stack, pool, cur, sp, remained>>
      /\ UNCHANGED <<jpc, jslot, jver, jlife, spc, sslot, sver, asked>>
      /\ state[s] = "free" /\ stack[s] = NULL
  BY DEF start, workerVars, joinVars, stopVars, TaskLifeInv, StackInv
<1>2. /\ state' = [state EXCEPT ![s] = "ready"] /\ type' = [type EXCEPT ![s] = t]
      /\ stop' = [stop EXCEPT ![s] = FALSE]
  BY DEF start
<1>3. /\ state' \in [Slots -> States] /\ type' \in [Slots -> Types]
      /\ stop' \in [Slots -> BOOLEAN]
      /\ state'[s] = "ready" /\ type'[s] = t /\ ~stop'[s]
      /\ \A u \in Slots : u # s => /\ state'[u] = state[u] /\ type'[u] = type[u]
                                   /\ stop'[u] = stop[u]
  BY <1>2 DEF TaskLifeInv, TypeOK, States
<1>4. PICK l \in Nat : l = lives[s]
  BY TaskLifeAssumption DEF TaskLifeInv, TypeOK
<1>5. /\ l + 1 \in 1..MaxStarts
      /\ lives' \in [Slots -> 0..MaxStarts]
      /\ lives'[s] = l + 1 /\ \A u \in Slots : u # s => lives'[u] = lives[u]
  <2>1. l + 1 \in 1..MaxStarts
    BY <1>4, StartBound DEF start, TaskLifeInv
  <2>2. lives' = [lives EXCEPT ![s] = l + 1]
    BY <1>4 DEF start
  <2> QED BY <2>1, <2>2, TaskLifeAssumption DEF TaskLifeInv, TypeOK
<1>6. /\ given' \in [Slots -> [1..MaxStarts -> Versions]]
      /\ \A u \in Slots, n \in 1..MaxStarts :
            given'[u][n] = IF u = s /\ n = l + 1 THEN version[s] ELSE given[u][n]
  <2> DEFINE row == [given[s] EXCEPT ![l + 1] = version[s]]
  <2>1. given' = [given EXCEPT ![s] = row]
    BY <1>4 DEF start
  <2>2. /\ given \in [Slots -> [1..MaxStarts -> Versions]]
        /\ given[s] \in [1..MaxStarts -> Versions] /\ version[s] \in Versions
    BY DEF TaskLifeInv, TypeOK
  <2>3. /\ row \in [1..MaxStarts -> Versions]
        /\ \A n \in 1..MaxStarts : row[n] = IF n = l + 1 THEN version[s] ELSE given[s][n]
    BY <2>2
  <2> HIDE DEF row
  <2> QED BY <2>1, <2>2, <2>3
<1>7. TypeOK'
  BY <1>1, <1>3, <1>5, <1>6 DEF TaskLifeInv, TypeOK
<1>8. StackInv'
  BY <1>1, <1>3 DEF TaskLifeInv, StackInv, Owned
<1>9. WorkerInv'
  <2>1. ASSUME NEW w \in Workers
        PROVE  /\ cur[w] # NULL => cur[w] \in Slots /\ cur[w] # s
               /\ remained[w] # NULL => remained[w] \in Slots /\ remained[w] # s
    <3>1. cur[w] # NULL => state[cur[w]] # "free"
      BY DEF TaskLifeInv, WorkerInv, OnWorker
    <3>2. remained[w] # NULL => state[remained[w]] # "free"
      BY DEF TaskLifeInv, WorkerInv
    <3> QED BY <1>1, <3>1, <3>2 DEF TaskLifeInv, TypeOK
  <2> QED BY <1>1, <1>3, <2>1 DEF TaskLifeInv, WorkerInv
<1>10. TidInv'
  <2>1. ASSUME NEW u \in Slots, NEW n \in 1..lives'[u]
        PROVE  /\ given'[u][n] # 0
               /\ Moves(u, n)' < NVersions - 1 =>
                     Distance(given'[u][n], version[u]) = Moves(u, n)'
    <3>1. CASE u # s
      <4>1. n \in 1..MaxStarts /\ n \in 1..lives[u]
        <5>1. n \in 1..lives[u] /\ lives[u] \in 0..MaxStarts
          BY <1>5, <3>1 DEF TaskLifeInv, TypeOK
        <5> QED BY <5>1, TaskLifeAssumption
      <4>2. given'[u][n] = given[u][n] /\ Moves(u, n)' = Moves(u, n)
        BY <1>3, <1>5, <1>6, <3>1, <4>1 DEF Moves
      <4> QED BY <4>1, <4>2 DEF TaskLifeInv, TidInv
    <3>2. CASE u = s /\ n = l + 1
      <4>1. given'[u][n] = version[s] /\ version[s] # 0 /\ version[s] \in Versions
        BY <1>5, <1>6, <3>2 DEF TaskLifeInv, TidInv, TypeOK
      <4>2. Moves(u, n)' = 0
        BY <1>3, <1>5, <3>2 DEF Moves, Alives
      <4>3. Distance(version[s], version[s]) = 0
        BY <4>1, TaskLifeAssumption DEF Distance, Versions
      <4> QED BY <3>2, <4>1, <4>2, <4>3
    <3>3. CASE u = s /\ n # l + 1
      <4>1. n \in 1..l /\ n \in 1..MaxStarts /\ n \in 1..lives[s]
        <5>1. n \in 1..(l + 1) /\ l + 1 \in 1..MaxStarts
          BY <1>5, <3>3
        <5> QED BY <1>4, <3>3, <5>1, TaskLifeAssumption
      <4>2. given'[u][n] = given[s][n]
        BY <1>6, <3>3, <4>1
      <4>3. Moves(u, n)' = l + 1 - n /\ Moves(s, n) = l - n + 1 /\ l + 1 - n = l - n + 1
        BY <1>1, <1>3, <1>4, <1>5, <3>3, <4>1 DEF Moves, Alives
      <4> QED BY <3>3, <4>1, <4>2, <4>3 DEF TaskLifeInv, TidInv
    <3> QED BY <3>1, <3>2, <3>3
  <2>2. ASSUME NEW u \in Slots, state'[u] \in Alives
        PROVE  lives'[u] > 0 /\ given'[u][lives'[u]] = version[u]
    <3>1. CASE u = s
      BY <1>5, <1>6, <3>1
    <3>2. CASE u # s
      <4>1. /\ lives[u] > 0 /\ given[u][lives[u]] = version[u] /\ lives[u] \in 0..MaxStarts
        BY <1>3, <2>2, <3>2 DEF TaskLifeInv, TidInv, TypeOK
      <4>2. lives[u] \in 1..MaxStarts
        BY <4>1, TaskLifeAssumption
      <4> QED BY <1>5, <1>6, <3>2, <4>1, <4>2
    <3> QED BY <3>1, <3>2
  <2> QED BY <1>1, <2>1, <2>2 DEF TaskLifeInv, TidInv
<1>11. \A u \in Slots : \A n \in 1..lives[u] :
          n \in 1..lives'[u] /\ given'[u][n] = given[u][n]
  <2> SUFFICES ASSUME NEW u \in Slots, NEW n \in 1..lives[u]
               PROVE  n \in 1..lives'[u] /\ given'[u][n] = given[u][n]
    OBVIOUS
  <2>1. n \in 1..MaxStarts /\ (u = s => n # l + 1)
    BY <1>4, TaskLifeAssumption DEF TaskLifeInv, TypeOK
  <2>2. n \in 1..lives'[u]
    <3>1. CASE u = s
      BY <1>4, <1>5, <3>1
    <3>2. CASE u # s
      BY <1>5, <3>2
    <3> QED BY <3>1, <3>2
  <2> QED BY <1>6, <2>1, <2>2
<1>12. JoinInv'
  BY <1>1, <1>11 DEF TaskLifeInv, JoinInv
<1>13. StopInv'
  <2>1. \A u \in Slots : asked[u] \subseteq 1..lives'[u]
    BY <1>11 DEF TaskLifeInv, StopInv
  <2>2. \A p \in Stoppers :
           spc[p] = "set" => /\ sslot[p] \in Slots
                             /\ \E m \in asked[sslot[p]] : given'[sslot[p]][m] = sver[p]
    BY <1>11 DEF TaskLifeInv, StopInv
  <2>3. ASSUME NEW u \in Slots, state'[u] \in Alives, stop'[u]
        PROVE  \E m \in asked[u] : given'[u][m] = version[u]
    <3>1. u # s /\ state[u] \in Alives /\ stop[u]
      BY <1>3, <2>3
    <3>2. PICK m \in asked[u] : given[u][m] = version[u]
      BY <3>1 DEF TaskLifeInv, StopInv
    <3> QED BY <1>11, <3>2 DEF TaskLifeInv, StopInv
  <2>4. ASSUME NEW u \in Slots, state'[u] \in Alives, lives'[u] \in asked[u]
        PROVE  stop'[u] \/ \E p \in Stoppers : /\ spc[p] = "set"
                                               /\ sslot[p] = u /\ sver[p] = version[u]
    <3>1. u # s
      <4>1. asked[s] \subseteq 1..l
        BY <1>4 DEF TaskLifeInv, StopInv
      <4>2. l + 1 \notin asked[s]
        BY <4>1
      <4> QED BY <1>5, <2>4, <4>2
    <3> QED BY <1>3, <1>5, <2>4, <3>1 DEF TaskLifeInv, StopInv
  <2> QED BY <1>1, <2>1, <2>2, <2>3, <2>4 DEF StopInv
<1> QED BY <1>7, <1>8, <1>9, <1>10, <1>12, <1>13 DEF TaskLifeInv

\* A bthread that is to be run has a stack of its own then, or the main stack of the
\* worker that runs it.
LEMMA EnsureStackFacts ==
    ASSUME TaskLifeInv, NEW w \in Workers, NEW s \in Slots, state[s] = "ready",
           EnsureStack(w, s)
    PROVE  /\ type' \in [Slots -> Types]
           /\ stack' \in [Slots -> Stacks \cup Workers \cup {NULL}]
           /\ pool' \subseteq Stacks
           /\ \A u \in Slots : u # s => stack'[u] = stack[u] /\ type'[u] = type[u]
           /\ \/ type'[s] = "NORMAL" /\ stack'[s] \in Stacks
              \/ type'[s] = "PTHREAD" /\ stack'[s] = w
           /\ Owned'
<1>1. /\ type \in [Slots -> Types] /\ pool \subseteq Stacks
      /\ stack \in [Slots -> Stacks \cup Workers \cup {NULL}] /\ Owned
  BY DEF TaskLifeInv, TypeOK, StackInv
<1>2. CASE stack[s] # NULL /\ UNCHANGED <<type, stack, pool>>
  BY <1>1, <1>2 DEF TaskLifeInv, StackInv, Owned
<1>3. CASE /\ stack[s] = NULL /\ type[s] = "NORMAL" /\ UNCHANGED type
           /\ \E k \in pool : pool' = pool \ {k} /\ stack' = [stack EXCEPT ![s] = k]
  <2>1. PICK k \in pool : pool' = pool \ {k} /\ stack' = [stack EXCEPT ![s] = k]
    BY <1>3
  <2>2. /\ k \in Stacks /\ stack'[s] = k /\ \A u \in Slots : u # s => stack'[u] = stack[u]
        /\ stack' \in [Slots -> Stacks \cup Workers \cup {NULL}]
    BY <1>1, <2>1
  <2>3. \A u \in Slots : stack[u] # k
    BY <1>1, <2>1, <2>2 DEF Owned
  <2>4. Owned'
    BY <1>1, <1>3, <2>1, <2>2, <2>3, Apart DEF Owned
  <2> QED BY <1>1, <1>3, <2>1, <2>2, <2>4
<1>4. CASE /\ stack[s] = NULL /\ UNCHANGED pool
           /\ type' = [type EXCEPT ![s] = "PTHREAD"] /\ stack' = [stack EXCEPT ![s] = w]
  <2>1. /\ type' \in [Slots -> Types] /\ type'[s] = "PTHREAD" /\ stack'[s] = w
        /\ stack' \in [Slots -> Stacks \cup Workers \cup {NULL}]
        /\ \A u \in Slots : u # s => stack'[u] = stack[u] /\ type'[u] = type[u]
    BY <1>1, <1>4 DEF Types
  <2>2. Owned'
    BY <1>1, <1>4, <2>1, Apart DEF Owned
  <2> QED BY <1>1, <1>4, <2>1, <2>2
<1> QED BY <1>2, <1>3, <1>4 DEF EnsureStack, get_stack

\* A worker begins to run a bthread: nobody else runs it or is on its stack.
LEMMA RunMainTaskKeeps ==
    ASSUME TaskLifeInv, NEW w \in Workers, NEW s \in Slots, run_main_task(w, s)
    PROVE  TaskLifeInv'
<1>1. /\ cur[w] = NULL /\ remained[w] = NULL /\ state[s] = "ready" /\ EnsureStack(w, s)
      /\ state' = [state EXCEPT ![s] = "running"]
      /\ cur' = [cur EXCEPT ![w] = s] /\ sp' = [sp EXCEPT ![w] = stack'[s]]
      /\ UNCHANGED <<version, stop, remained, joinVars, stopVars, lifeVars>>
  BY Apart DEF run_main_task, Jump
<1>2. /\ type' \in [Slots -> Types]
      /\ stack' \in [Slots -> Stacks \cup Workers \cup {NULL}] /\ pool' \subseteq Stacks
      /\ \A u \in Slots : u # s => stack'[u] = stack[u] /\ type'[u] = type[u]
      /\ \/ type'[s] = "NORMAL" /\ stack'[s] \in Stacks
         \/ type'[s] = "PTHREAD" /\ stack'[s] = w
      /\ Owned'
  BY <1>1, EnsureStackFacts
<1>3. /\ state' \in [Slots -> States] /\ state'[s] = "running"
      /\ \A u \in Slots : u # s => state'[u] = state[u]
  BY <1>1 DEF TaskLifeInv, TypeOK, States
<1>4. /\ cur' \in [Workers -> Slots \cup {NULL}] /\ cur'[w] = s
      /\ \A x \in Workers : x # w => cur'[x] = cur[x]
  BY <1>1 DEF TaskLifeInv, TypeOK
<1>5. /\ sp' \in [Workers -> Stacks \cup Workers] /\ sp'[w] = stack'[s]
      /\ \A x \in Workers : x # w => sp'[x] = sp[x]
  BY <1>1, <1>2 DEF TaskLifeInv, TypeOK
<1>6. TypeOK'
  BY <1>1, <1>2, <1>3, <1>4, <1>5 DEF TaskLifeInv, TypeOK, joinVars, stopVars, lifeVars
<1>7. StackInv'
  BY <1>2, <1>3 DEF TaskLifeInv, StackInv
<1>8. ASSUME NEW x \in Workers
      PROVE  /\ cur[x] # NULL => cur[x] \in Slots /\ cur[x] # s
             /\ remained[x] # NULL => remained[x] \in Slots /\ remained[x] # s
  <2>1. cur[x] # NULL => state[cur[x]] # "ready"
    BY DEF TaskLifeInv, WorkerInv, OnWorker
  <2>2. remained[x] # NULL => state[remained[x]] # "ready"
    BY DEF TaskLifeInv, WorkerInv
  <2> QED BY <1>1, <2>1, <2>2 DEF TaskLifeInv, TypeOK
<1>9. WorkerInv'
  <2>1. ASSUME NEW x \in Workers, cur'[x] # NULL
        PROVE  /\ state'[cur'[x]] \in OnWorker
               /\ state'[cur'[x]] # "running" => remained[x] = NULL
               /\ sp'[x] = stack'[cur'[x]]
               /\ \/ type'[cur'[x]] = "NORMAL" /\ sp'[x] \in Stacks
                  \/ type'[cur'[x]] = "PTHREAD" /\ sp'[x] = x
    <3>1. CASE x = w
      BY <1>2, <1>3, <1>4, <1>5, <3>1 DEF OnWorker
    <3>2. CASE x # w
      <4>1. cur'[x] = cur[x] /\ sp'[x] = sp[x] /\ cur[x] \in Slots /\ cur[x] # s
        BY <1>4, <1>5, <1>8, <2>1, <3>2
      <4>2. /\ state'[cur[x]] = state[cur[x]] /\ stack'[cur[x]] = stack[cur[x]]
            /\ type'[cur[x]] = type[cur[x]]
        BY <1>2, <1>3, <4>1
      <4> QED BY <2>1, <4>1, <4>2 DEF TaskLifeInv, WorkerInv
    <3> QED BY <3>1, <3>2
  <2>2. \A x \in Workers : cur'[x] = NULL => sp'[x] = x
    BY <1>4, <1>5, Apart DEF TaskLifeInv, WorkerInv
  <2>3. \A x, y \in Workers : cur'[x] = cur'[y] /\ cur'[x] # NULL => x = y
    BY <1>4, <1>8 DEF TaskLifeInv, WorkerInv
  <2>4. \A x \in Workers : remained[x] # NULL => state'[remained[x]] = "left"
    BY <1>3, <1>8 DEF TaskLifeInv, WorkerInv
  <2> QED BY <1>1, <2>1, <2>2, <2>3, <2>4 DEF TaskLifeInv, WorkerInv
<1>10. TidInv' /\ JoinInv' /\ StopInv'
  <2>1. \A u \in Slots : state'[u] \in Alives <=> state[u] \in Alives
    BY <1>1, <1>3 DEF Alives
  <2> QED BY <1>1, <2>1, TidsStay DEF joinVars
<1> QED BY <1>6, <1>7, <1>9, <1>10 DEF TaskLifeInv

\* A worker leaves bthread c, which is ready again or has ended, for bthread next or
\* for its main task.
LEMMA SwitchKeeps ==
    ASSUME TaskLifeInv, NEW w \in Workers, NEW c \in Slots, cur[w] = c, remained[w] = NULL,
           NEW next \in Slots \cup {NULL},
           next # NULL => state[next] = "ready",
           NEW a \in {"ready", "left"},
           a = "ready" => type[c] = "NORMAL",
           state' = IF next = NULL THEN [state EXCEPT ![c] = a]
                    ELSE [state EXCEPT ![c] = a, ![next] = "running"],
           type' \in [Slots -> Types],
           stack' \in [Slots -> Stacks \cup Workers \cup {NULL}],
           Owned',
           \A u \in Slots : u # c /\ u # next => stack'[u] = stack[u] /\ type'[u] = type[u],
           a = "ready" => stack'[c] = stack[c] /\ type'[c] = type[c],
           next # NULL => \/ type'[next] = "NORMAL" /\ stack'[next] \in Stacks
                          \/ type'[next] = "PTHREAD" /\ stack'[next] = w,
           Jump(w, next),
           remained' = [remained EXCEPT ![w] = IF a = "left" THEN c ELSE @]
    PROVE  /\ state' \in [Slots -> States]
           /\ cur' \in [Workers -> Slots \cup {NULL}]
           /\ sp' \in [Workers -> Stacks \cup Workers]
           /\ remained' \in [Workers -> Slots \cup {NULL}]
           /\ StackInv' /\ WorkerInv'
<1>1. /\ state[c] \in OnWorker /\ c # next /\ c # NULL
      /\ type[c] = "NORMAL" => stack[c] \in Stacks
  BY Apart DEF TaskLifeInv, WorkerInv, OnWorker
<1>2. /\ state' \in [Slots -> States] /\ state'[c] = a
      /\ next # NULL => state'[next] = "running"
      /\ \A u \in Slots : u # c /\ u # next => state'[u] = state[u]
  <2>1. state \in [Slots -> States] /\ a \in States /\ "running" \in States
    BY DEF TaskLifeInv, TypeOK, States
  <2>2. CASE next = NULL
    BY <1>1, <2>1, <2>2
  <2>3. CASE next # NULL
    BY <1>1, <2>1, <2>3
  <2> QED BY <2>2, <2>3
<1>3. /\ cur' \in [Workers -> Slots \cup {NULL}] /\ cur'[w] = next
      /\ \A x \in Workers : x # w => cur'[x] = cur[x]
  BY DEF TaskLifeInv, TypeOK, Jump
<1>4. /\ sp' \in [Workers -> Stacks \cup Workers]
      /\ next = NULL => sp'[w] = w
      /\ next # NULL => sp'[w] = stack'[next]
      /\ \A x \in Workers : x # w => sp'[x] = sp[x]
  <2>1. sp \in [Workers -> Stacks \cup Workers]
    BY DEF TaskLifeInv, TypeOK
  <2>2. CASE next = NULL
    BY <2>1, <2>2 DEF Jump
  <2>3. CASE next # NULL
    <3>1. stack'[next] \in Stacks \cup Workers
      BY <2>3
    <3> QED BY <2>1, <2>3, <3>1 DEF Jump
  <2> QED BY <2>2, <2>3
<1>5. /\ remained' \in [Workers -> Slots \cup {NULL}]
      /\ remained'[w] = IF a = "left" THEN c ELSE NULL
      /\ \A x \in Workers : x # w => remained'[x] = remained[x]
  BY DEF TaskLifeInv, TypeOK
<1>6. ASSUME NEW x \in Workers
      PROVE  /\ cur[x] # NULL => cur[x] \in Slots /\ cur[x] # next /\ (x # w => cur[x] # c)
             /\ remained[x] # NULL => /\ remained[x] \in Slots
                                      /\ remained[x] # next /\ remained[x] # c
  <2>1. cur[x] # NULL => state[cur[x]] # "ready" /\ (x # w => cur[x] # c)
    BY <1>1 DEF TaskLifeInv, WorkerInv, OnWorker
  <2>2. remained[x] # NULL => state[remained[x]] = "left"
    BY DEF TaskLifeInv, WorkerInv
  <2>3. state[c] # "left"
    BY <1>1 DEF OnWorker
  <2> QED BY <2>1, <2>2, <2>3 DEF TaskLifeInv, TypeOK
<1>7. StackInv'
  <2>1. ASSUME NEW u \in Slots
        PROVE  /\ state'[u] = "free" => stack'[u] = NULL
               /\ state'[u] = "ready" /\ stack'[u] # NULL =>
                     stack'[u] \in Stacks /\ type'[u] = "NORMAL"
    <3>1. CASE u = c
      BY <1>1, <1>2, <3>1
    <3>2. CASE u # c /\ u = next
      BY <1>2, <3>2, Apart
    <3>3. CASE u # c /\ u # next
      <4>1. state'[u] = state[u] /\ stack'[u] = stack[u] /\ type'[u] = type[u]
        BY <1>2, <3>3
      <4> QED BY <4>1 DEF TaskLifeInv, StackInv
    <3> QED BY <3>1, <3>2, <3>3
  <2> QED BY <2>1 DEF StackInv
<1>8. WorkerInv'
  <2>1. ASSUME NEW x \in Workers, cur'[x] # NULL
        PROVE  /\ state'[cur'[x]] \in OnWorker
               /\ state'[cur'[x]] # "running" => remained'[x] = NULL
               /\ sp'[x] = stack'[cur'[x]]
               /\ \/ type'[cur'[x]] = "NORMAL" /\ sp'[x] \in Stacks
                  \/ type'[cur'[x]] = "PTHREAD" /\ sp'[x] = x
    <3>1. CASE x = w
      BY <1>2, <1>3, <1>4, <2>1, <3>1 DEF OnWorker
    <3>2. CASE x # w
      <4>1. /\ cur'[x] = cur[x] /\ sp'[x] = sp[x] /\ remained'[x] = remained[x]
            /\ cur[x] \in Slots /\ cur[x] # c /\ cur[x] # next
        BY <1>3, <1>4, <1>5, <1>6, <2>1, <3>2
      <4>2. /\ state'[cur[x]] = state[cur[x]] /\ stack'[cur[x]] = stack[cur[x]]
            /\ type'[cur[x]] = type[cur[x]]
        BY <1>2, <4>1
      <4> QED BY <2>1, <4>1, <4>2 DEF TaskLifeInv, WorkerInv
    <3> QED BY <3>1, <3>2
  <2>2. \A x \in Workers : cur'[x] = NULL => sp'[x] = x
    BY <1>3, <1>4 DEF TaskLifeInv, WorkerInv
  <2>3. \A x, y \in Workers : cur'[x] = cur'[y] /\ cur'[x] # NULL => x = y
    BY <1>3, <1>6 DEF TaskLifeInv, WorkerInv
  <2>4. ASSUME NEW x \in Workers, remained'[x] # NULL PROVE state'[remained'[x]] = "left"
    <3>1. CASE x = w
      BY <1>2, <1>5, <2>4, <3>1
    <3>2. CASE x # w
      <4>1. /\ remained'[x] = remained[x] /\ remained[x] \in Slots
            /\ remained[x] # next /\ remained[x] # c
        BY <1>5, <1>6, <2>4, <3>2
      <4> QED BY <1>2, <2>4, <4>1 DEF TaskLifeInv, WorkerInv
    <3> QED BY <3>1, <3>2
  <2>5. ASSUME NEW x \in Workers, NEW y \in Workers,
               remained'[x] = remained'[y], remained'[x] # NULL
        PROVE  x = y
    <3>1. CASE x # w /\ y # w
      BY <1>5, <2>5, <3>1 DEF TaskLifeInv, WorkerInv
    <3>2. CASE x = w /\ y # w
      BY <1>5, <1>6, <2>5, <3>2
    <3>3. CASE x # w /\ y = w
      BY <1>5, <1>6, <2>5, <3>3
    <3> QED BY <3>1, <3>2, <3>3
  <2>6. \A x \in Workers : remained'[x] # NULL => state'[remained'[x]] = "left"
    BY <2>4
  <2>7. \A x, y \in Workers : remained'[x] = remained'[y] /\ remained'[x] # NULL => x = y
    BY <2>5
  <2> QED BY Zenon, <2>1, <2>2, <2>3, <2>6, <2>7 DEF WorkerInv
<1> QED BY <1>2, <1>3, <1>4, <1>5, <1>7, <1>8

\* sched: the bthread that is left keeps its stack.
LEMMA SchedKeeps ==
    ASSUME TaskLifeInv, NEW w \in Workers, NEW next \in Slots \cup {NULL}, sched(w, next)
    PROVE  TaskLifeInv'
<1> DEFINE c == cur[w]
<1>1. /\ c \in Slots /\ c # NULL /\ remained[w] = NULL /\ state[c] = "running"
      /\ type[c] = "NORMAL" /\ Jump(w, next)
      /\ UNCHANGED <<version, stop, remained, joinVars, stopVars, lifeVars>>
  BY DEF sched, Runs, TaskLifeInv, TypeOK
<1>2. /\ next # NULL => state[next] = "ready" /\ EnsureStack(w, next)
      /\ next = NULL => UNCHANGED <<type, stack, pool>>
      /\ state' = IF next = NULL THEN [state EXCEPT ![c] = "ready"]
                  ELSE [state EXCEPT ![c] = "ready", ![next] = "running"]
  BY DEF sched
<1>3. /\ type' \in [Slots -> Types]
      /\ stack' \in [Slots -> Stacks \cup Workers \cup {NULL}] /\ pool' \subseteq Stacks
      /\ Owned'
      /\ \A u \in Slots : u # next => stack'[u] = stack[u] /\ type'[u] = type[u]
      /\ next # NULL => \/ type'[next] = "NORMAL" /\ stack'[next] \in Stacks
                        \/ type'[next] = "PTHREAD" /\ stack'[next] = w
  <2>1. CASE next # NULL
    BY <1>2, <2>1, EnsureStackFacts
  <2>2. CASE next = NULL
    BY <1>2, <2>2 DEF TaskLifeInv, TypeOK, StackInv, Owned
  <2> QED BY <2>1, <2>2
<1>4. c # next
  BY <1>1, <1>2
<1> HIDE DEF c
<1>5. remained' = [remained EXCEPT ![w] = IF "ready" = "left" THEN c ELSE @]
  BY <1>1 DEF TaskLifeInv, TypeOK
<1>6. /\ state' \in [Slots -> States]
      /\ cur' \in [Workers -> Slots \cup {NULL}]
      /\ sp' \in [Workers -> Stacks \cup Workers]
      /\ remained' \in [Workers -> Slots \cup {NULL}]
      /\ StackInv' /\ WorkerInv'
  BY <1>1, <1>2, <1>3, <1>4, <1>5, SwitchKeeps DEF c
<1>7. TypeOK'
  BY <1>1, <1>3, <1>6 DEF TaskLifeInv, TypeOK, joinVars, stopVars, lifeVars
<1>8. TidInv' /\ JoinInv' /\ StopInv'
  <2>1. \A u \in Slots : state'[u] \in Alives <=> state[u] \in Alives
    BY <1>1, <1>2, <1>4 DEF Alives, TaskLifeInv, TypeOK
  <2> QED BY <1>1, <2>1, TidsStay DEF joinVars
<1> QED BY <1>6, <1>7, <1>8 DEF TaskLifeInv

-----------------------------------------------------------------------------
(* The invariant is inductive: the end of a bthread.                       *)

\* The version moves on by one when the bthread is over, and so does the distance to it
\* from the tids of this and the former bthreads of the slot.
LEMMA BumpVersionKeeps ==
    ASSUME TaskLifeInv, NEW w \in Workers, BumpVersion(w)
    PROVE  TaskLifeInv'
<1> DEFINE s == cur[w]
<1>1. /\ s \in Slots /\ s # NULL /\ remained[w] = NULL /\ state[s] = "running"
      /\ version' = [version EXCEPT ![s] = next_version(@)]
      /\ state' = [state EXCEPT ![s] = "ended"]
      /\ UNCHANGED <<type, stack, stop, pool, cur, sp, remained>>
      /\ UNCHANGED <<jpc, jslot, jver, jlife, spc, sslot, sver, asked, lives, given>>
  BY DEF BumpVersion, Runs, TaskLifeInv, TypeOK, workerVars, joinVars, stopVars, lifeVars
<1>2. cur[w] = s
  OBVIOUS
<1> HIDE DEF s
<1>3. version[s] \in Versions /\ version[s] # 0
  BY <1>1 DEF TaskLifeInv, TypeOK, TidInv
<1>4. next_version(version[s]) \in Versions /\ next_version(version[s]) # 0
  BY <1>3, NextVersion
<1>5. /\ version' \in [Slots -> Versions] /\ version'[s] = next_version(version[s])
      /\ \A u \in Slots : u # s => version'[u] = version[u]
  BY <1>1, <1>4 DEF TaskLifeInv, TypeOK
<1>6. /\ state' \in [Slots -> States] /\ state'[s] = "ended"
      /\ \A u \in Slots : u # s => state'[u] = state[u]
  BY <1>1 DEF TaskLifeInv, TypeOK, States
<1>7. TypeOK'
  BY <1>1, <1>5, <1>6 DEF TaskLifeInv, TypeOK
<1>8. StackInv'
  BY <1>1, <1>6 DEF TaskLifeInv, StackInv, Owned
<1>9. WorkerInv'
  <2>1. ASSUME NEW x \in Workers, cur[x] # NULL
        PROVE  state'[cur[x]] \in OnWorker /\ (state'[cur[x]] # "running" => remained[x] = NULL)
    <3>1. CASE x = w
      BY <1>1, <1>2, <1>6, <3>1 DEF OnWorker
    <3>2. CASE x # w
      <4>1. cur[x] # s /\ cur[x] \in Slots
        BY <1>1, <1>2, <2>1, <3>2 DEF TaskLifeInv, WorkerInv, TypeOK
      <4> QED BY <1>6, <2>1, <4>1 DEF TaskLifeInv, WorkerInv
    <3> QED BY <3>1, <3>2
  <2>2. \A x \in Workers : remained[x] # NULL => state'[remained[x]] = "left"
    BY <1>1, <1>6 DEF TaskLifeInv, WorkerInv, TypeOK
  <2> QED BY <1>1, <2>1, <2>2 DEF TaskLifeInv, WorkerInv
<1>10. TidInv'
  <2>1. ASSUME NEW u \in Slots, NEW n \in 1..lives[u]
        PROVE  /\ given[u][n] # 0
               /\ Moves(u, n)' < NVersions - 1 =>
                     Distance(given[u][n], version'[u]) = Moves(u, n)'
    <3>1. /\ given[u][n] # 0 /\ given[u][n] \in Versions
          /\ Moves(u, n) < NVersions - 1 =>
                Distance(given[u][n], version[u]) = Moves(u, n)
      <4>1. n \in 1..MaxStarts
        BY TaskLifeAssumption DEF TaskLifeInv, TypeOK
      <4> QED BY <4>1 DEF TaskLifeInv, TidInv, TypeOK
    <3>2. CASE u # s
      BY <1>1, <1>5, <1>6, <3>1, <3>2 DEF Moves
    <3>3. CASE u = s
      <4>1. PICK k \in Nat : Moves(u, n) = k /\ Moves(u, n)' = k + 1
        <5>1. PICK l \in Nat : l = lives[s]
          BY <1>1, TaskLifeAssumption DEF TaskLifeInv, TypeOK
        <5>2. Moves(u, n) = l - n /\ Moves(u, n)' = l - n + 1 /\ n \in 1..l
          BY <1>1, <1>6, <3>3, <5>1 DEF Moves, Alives
        <5>3. l - n \in Nat
          BY <5>2
        <5> QED BY <5>2, <5>3
      <4>2. SUFFICES ASSUME k + 1 < NVersions - 1
                     PROVE  Distance(given[u][n], version'[s]) = k + 1
        BY <3>1, <3>3, <4>1
      <4>3. Distance(given[u][n], version[s]) = k
        BY <3>1, <3>3, <4>1, <4>2, TaskLifeAssumption
      <4> QED BY <1>3, <1>5, <3>1, <4>2, <4>3, DistanceGrows
    <3> QED BY <3>2, <3>3
  <2>2. \A u \in Slots : version'[u] # 0
    BY <1>4, <1>5 DEF TaskLifeInv, TidInv
  <2>3. \A u \in Slots : state'[u] \in Alives =>
                            lives[u] > 0 /\ given[u][lives[u]] = version'[u]
    BY <1>5, <1>6 DEF TaskLifeInv, TidInv, Alives
  <2> QED BY <1>1, <2>1, <2>2, <2>3 DEF TidInv
<1>11. JoinInv'
  BY <1>1 DEF TaskLifeInv, JoinInv
<1>12. StopInv'
  <2>1. \A u \in Slots : state'[u] \in Alives => /\ u # s /\ state[u] \in Alives
                                                 /\ version'[u] = version[u]
    BY <1>5, <1>6 DEF Alives
  <2> QED BY <1>1, <2>1 DEF TaskLifeInv, StopInv
<1> QED BY <1>7, <1>8, <1>9, <1>10, <1>11, <1>12 DEF TaskLifeInv

\* Joiners are woken: they hold their tids and look at the version again.
LEMMA WakeJoinersKeeps ==
    ASSUME TaskLifeInv, NEW w \in Workers, WakeJoiners(w)
    PROVE  TaskLifeInv'
<1> DEFINE s == cur[w]
<1>1. /\ s \in Slots /\ s # NULL /\ state[s] = "ended"
      /\ state' = [state EXCEPT ![s] = "woken"]
      /\ UNCHANGED <<version, type, stack, stop, pool, cur, sp, remained>>
      /\ UNCHANGED <<jslot, jver, jlife, stopVars, lifeVars>>
  BY DEF WakeJoiners, TaskLifeInv, TypeOK, workerVars
<1>2. /\ jpc' \in [Joiners -> {"idle", "check", "queue", "blocked"}]
      /\ \A j \in Joiners : jpc'[j] # "idle" => jpc[j] # "idle"
  BY DEF WakeJoiners, TaskLifeInv, TypeOK
<1>3. cur[w] = s
  OBVIOUS
<1> HIDE DEF s
<1>4. /\ state' \in [Slots -> States] /\ state'[s] = "woken"
      /\ \A u \in Slots : u # s => state'[u] = state[u]
  BY <1>1 DEF TaskLifeInv, TypeOK, States
<1>5. TypeOK'
  BY <1>1, <1>2, <1>4 DEF TaskLifeInv, TypeOK, stopVars, lifeVars
<1>6. StackInv'
  BY <1>1, <1>4 DEF TaskLifeInv, StackInv, Owned
<1>7. WorkerInv'
  <2>1. ASSUME NEW x \in Workers, cur[x] # NULL
        PROVE  state'[cur[x]] \in OnWorker /\ (state'[cur[x]] # "running" => remained[x] = NULL)
    <3>1. state[cur[x]] \in OnWorker /\ (state[cur[x]] # "running" => remained[x] = NULL)
      BY <2>1 DEF TaskLifeInv, WorkerInv
    <3>2. cur[x] \in Slots
      BY <2>1 DEF TaskLifeInv, TypeOK
    <3>3. CASE cur[x] = s
      BY <1>1, <1>4, <3>1, <3>3 DEF OnWorker
    <3>4. CASE cur[x] # s
      BY <1>4, <3>1, <3>2, <3>4
    <3> QED BY <3>3, <3>4
  <2>2. \A x \in Workers : remained[x] # NULL => state'[remained[x]] = "left"
    BY <1>1, <1>4 DEF TaskLifeInv, WorkerInv, TypeOK
  <2> QED BY <1>1, <2>1, <2>2 DEF TaskLifeInv, WorkerInv
<1>8. TidInv' /\ JoinInv' /\ StopInv'
  <2>1. \A u \in Slots : state'[u] \in Alives <=> state[u] \in Alives
    BY <1>1, <1>4 DEF Alives
  <2> QED BY <1>1, <1>2, <2>1, TidsStay
<1> QED BY <1>5, <1>6, <1>7, <1>8 DEF TaskLifeInv

\* The bthread that ended may hand its stack to the next one.
LEMMA EndingSchedKeeps ==
    ASSUME TaskLifeInv, NEW w \in Workers, NEW next \in Slots \cup {NULL},
           ending_sched(w, next)
    PROVE  TaskLifeInv'
<1> DEFINE c == cur[w]
<1>1. /\ c \in Slots /\ c # NULL /\ state[c] = "woken" /\ Jump(w, next)
      /\ remained' = [remained EXCEPT ![w] = c]
      /\ UNCHANGED <<version, stop, joinVars, stopVars, lifeVars>>
      /\ cur[w] = c
  BY DEF ending_sched, TaskLifeInv, TypeOK
<1>2. /\ next # NULL => /\ state[next] = "ready"
                        /\ \/ /\ stack[next] = NULL /\ type[next] = type[c]
                              /\ hand_over(c, next) /\ UNCHANGED <<type, pool>>
                           \/ EnsureStack(w, next)
      /\ next = NULL => UNCHANGED <<type, stack, pool>>
      /\ state' = IF next = NULL THEN [state EXCEPT ![c] = "left"]
                  ELSE [state EXCEPT ![c] = "left", ![next] = "running"]
  BY DEF ending_sched
<1> HIDE DEF c
<1>3. /\ remained[w] = NULL /\ sp[w] = stack[c]
      /\ \/ type[c] = "NORMAL" /\ stack[c] \in Stacks
         \/ type[c] = "PTHREAD" /\ stack[c] = w
  BY <1>1 DEF TaskLifeInv, WorkerInv
<1>4. c # next
  BY <1>1, <1>2
<1>5. /\ type' \in [Slots -> Types]
      /\ stack' \in [Slots -> Stacks \cup Workers \cup {NULL}] /\ pool' \subseteq Stacks
      /\ Owned'
      /\ \A u \in Slots : u # c /\ u # next => stack'[u] = stack[u] /\ type'[u] = type[u]
      /\ next # NULL => \/ type'[next] = "NORMAL" /\ stack'[next] \in Stacks
                        \/ type'[next] = "PTHREAD" /\ stack'[next] = w
  <2>1. CASE next = NULL
    BY <1>2, <2>1 DEF TaskLifeInv, TypeOK, StackInv, Owned
  <2>2. CASE next # NULL /\ EnsureStack(w, next)
    BY <1>2, <2>2, EnsureStackFacts
  <2>3. CASE /\ next # NULL /\ stack[next] = NULL /\ type[next] = type[c]
             /\ hand_over(c, next) /\ UNCHANGED <<type, pool>>
    <3>1. /\ type \in [Slots -> Types] /\ pool \subseteq Stacks /\ next \in Slots
          /\ stack \in [Slots -> Stacks \cup Workers \cup {NULL}] /\ Owned
      BY <2>3 DEF TaskLifeInv, TypeOK, StackInv
    <3>2. /\ stack' \in [Slots -> Stacks \cup Workers \cup {NULL}]
          /\ stack'[c] = NULL /\ stack'[next] = stack[c]
          /\ \A u \in Slots : u # c /\ u # next => stack'[u] = stack[u]
      BY <1>1, <1>4, <2>3, <3>1 DEF hand_over
    <3>3. ASSUME NEW k \in Stacks
          PROVE  (\A u \in Slots : stack'[u] # k) <=> (\A u \in Slots : stack[u] # k)
      BY <1>1, <2>3, <3>1, <3>2, Apart
    <3>4. Owned'
      BY <1>1, <2>3, <3>1, <3>2, <3>3, Apart DEF Owned
    <3> QED BY <1>3, <2>3, <3>1, <3>2, <3>4
  <2> QED BY <1>2, <2>1, <2>2, <2>3
<1>6. remained' = [remained EXCEPT ![w] = IF "left" = "left" THEN c ELSE @]
  BY <1>1
<1>7. /\ state' \in [Slots -> States]
      /\ cur' \in [Workers -> Slots \cup {NULL}]
      /\ sp' \in [Workers -> Stacks \cup Workers]
      /\ remained' \in [Workers -> Slots \cup {NULL}]
      /\ StackInv' /\ WorkerInv'
  BY <1>1, <1>2, <1>3, <1>5, <1>6, SwitchKeeps
<1>8. TypeOK'
  BY <1>1, <1>5, <1>7 DEF TaskLifeInv, TypeOK, joinVars, stopVars, lifeVars
<1>9. TidInv' /\ JoinInv' /\ StopInv'
  <2>1. state \in [Slots -> States]
    BY DEF TaskLifeInv, TypeOK
  <2>2. \A u \in Slots : state'[u] \in Alives <=> state[u] \in Alives
    BY <1>1, <1>2, <1>4, <2>1 DEF Alives
  <2> QED BY <1>1, <2>2, TidsStay DEF joinVars
<1> QED BY <1>7, <1>8, <1>9 DEF TaskLifeInv

\* The stack that goes back to the pool is nobody else's, nor is the slot.
LEMMA ReleaseKeeps ==
    ASSUME TaskLifeInv, NEW w \in Workers, _release_last_context(w)
    PROVE  TaskLifeInv'
<1> DEFINE s == remained[w]
<1>1. /\ s \in Slots /\ s # NULL /\ state[s] = "left"
      /\ pool' = pool \cup ({stack[s]} \cap Stacks)
      /\ stack' = [stack EXCEPT ![s] = NULL]
      /\ state' = [state EXCEPT ![s] = "free"]
      /\ remained' = [remained EXCEPT ![w] = NULL]
      /\ UNCHANGED <<version, type, stop, cur, sp, joinVars, stopVars, lifeVars>>
      /\ remained[w] = s
  BY DEF _release_last_context, TaskLifeInv, TypeOK, WorkerInv
<1> HIDE DEF s
<1>2. /\ state' \in [Slots -> States] /\ state'[s] = "free"
      /\ \A u \in Slots : u # s => state'[u] = state[u]
  BY <1>1 DEF TaskLifeInv, TypeOK, States
<1>3. /\ stack' \in [Slots -> Stacks \cup Workers \cup {NULL}] /\ stack'[s] = NULL
      /\ \A u \in Slots : u # s => stack'[u] = stack[u]
  BY <1>1 DEF TaskLifeInv, TypeOK
<1>4. /\ remained' \in [Workers -> Slots \cup {NULL}] /\ remained'[w] = NULL
      /\ \A x \in Workers : x # w => remained'[x] = remained[x]
  BY <1>1 DEF TaskLifeInv, TypeOK
<1>5. TypeOK'
  BY <1>1, <1>2, <1>3, <1>4 DEF TaskLifeInv, TypeOK, joinVars, stopVars, lifeVars
<1>6. StackInv'
  <2>1. ASSUME NEW k \in Stacks PROVE k \in pool' <=> \A u \in Slots : stack'[u] # k
    <3>1. k \in pool <=> \A u \in Slots : stack[u] # k
      BY DEF TaskLifeInv, StackInv, Owned
    <3>2. CASE k = stack[s]
      <4>1. \A u \in Slots : stack[u] = k => u = s
        BY <1>1, <3>2 DEF TaskLifeInv, StackInv, Owned
      <4> QED BY <1>1, <1>3, <3>2, <4>1, Apart
    <3>3. CASE k # stack[s]
      BY <1>1, <1>3, <3>1, <3>3, Apart
    <3> QED BY <3>2, <3>3
  <2>2. \A u, v \in Slots : stack'[u] = stack'[v] /\ stack'[u] \in Stacks => u = v
    BY <1>3, Apart DEF TaskLifeInv, StackInv, Owned
  <2>3. /\ \A u \in Slots : state'[u] = "free" => stack'[u] = NULL
        /\ \A u \in Slots : state'[u] = "ready" /\ stack'[u] # NULL =>
                               stack'[u] \in Stacks /\ type[u] = "NORMAL"
    BY <1>2, <1>3 DEF TaskLifeInv, StackInv
  <2> QED BY <1>1, <2>1, <2>2, <2>3 DEF StackInv, Owned
<1>7. WorkerInv'
  <2>1. ASSUME NEW x \in Workers, cur[x] # NULL
        PROVE  /\ state'[cur[x]] \in OnWorker
               /\ state'[cur[x]] # "running" => remained'[x] = NULL
               /\ sp[x] = stack'[cur[x]]
    <3>1. /\ state[cur[x]] \in OnWorker /\ sp[x] = stack[cur[x]] /\ cur[x] \in Slots
          /\ state[cur[x]] # "running" => remained[x] = NULL
      BY <2>1 DEF TaskLifeInv, WorkerInv, TypeOK
    <3>2. cur[x] # s
      BY <1>1, <3>1 DEF OnWorker
    <3>3. state'[cur[x]] = state[cur[x]] /\ stack'[cur[x]] = stack[cur[x]]
      BY <1>2, <1>3, <3>1, <3>2
    <3> QED BY <1>4, <3>1, <3>3
  <2>2. ASSUME NEW x \in Workers, remained'[x] # NULL PROVE state'[remained'[x]] = "left"
    <3>1. x # w /\ remained'[x] = remained[x] /\ remained[x] \in Slots
      BY <1>4, <2>2 DEF TaskLifeInv, TypeOK
    <3>2. remained[x] # s
      BY <1>1, <3>1 DEF TaskLifeInv, WorkerInv
    <3> QED BY <1>2, <2>2, <3>1, <3>2 DEF TaskLifeInv, WorkerInv
  <2>3. \A x, y \in Workers : remained'[x] = remained'[y] /\ remained'[x] # NULL => x = y
    BY <1>4 DEF TaskLifeInv, WorkerInv
  <2> QED BY <1>1, <2>1, <2>2, <2>3 DEF TaskLifeInv, WorkerInv
<1>8. TidInv' /\ JoinInv' /\ StopInv'
  <2>1. \A u \in Slots : state'[u] \in Alives <=> state[u] \in Alives
    BY <1>1, <1>2 DEF Alives
  <2> QED BY <1>1, <2>1, TidsStay DEF joinVars
<1> QED BY <1>5, <1>6, <1>7, <1>8 DEF TaskLifeInv

-----------------------------------------------------------------------------
(* The invariant is inductive: join and stop.                              *)

\* Steps of joiners leave everything but the joiners alone.
LEMMA JoinersKeep ==
    ASSUME TaskLifeInv, UNCHANGED <<metaVars, workerVars, stopVars, lifeVars>>,
           jpc' \in [Joiners -> {"idle", "check", "queue", "blocked"}],
           jslot' \in [Joiners -> Slots \cup {NULL}], jver' \in [Joiners -> Versions],
           jlife' \in [Joiners -> 0..MaxStarts], JoinInv'
    PROVE  TaskLifeInv'
<1>1. /\ UNCHANGED <<state, version, type, stack, stop, pool, cur, sp, remained>>
      /\ UNCHANGED <<spc, sslot, sver, asked, lives, given>>
  BY DEF metaVars, workerVars, stopVars, lifeVars
<1>2. TypeOK'
  BY <1>1 DEF TaskLifeInv, TypeOK
<1>3. StackInv' /\ WorkerInv'
  BY <1>1, StacksStay DEF workerVars
<1>4. TidInv' /\ StopInv'
  BY <1>1 DEF TaskLifeInv, TidInv, Moves, StopInv
<1> QED BY <1>2, <1>3, <1>4 DEF TaskLifeInv

\* A joiner begins with a tid that was given out.
LEMMA JoinKeeps ==
    ASSUME TaskLifeInv, NEW j \in Joiners, NEW s \in Slots, NEW n \in 1..MaxStarts,
           NEW v \in Versions, join(j, s, n, v)
    PROVE  TaskLifeInv'
<1>1. /\ jpc' \in [Joiners -> {"idle", "check", "queue", "blocked"}]
      /\ jslot' \in [Joiners -> Slots \cup {NULL}] /\ jslot'[j] = s
      /\ jver' \in [Joiners -> Versions] /\ jver'[j] = v
      /\ jlife' \in [Joiners -> 0..MaxStarts] /\ jlife'[j] = n
      /\ \A i \in Joiners : i # j => /\ jpc'[i] = jpc[i] /\ jslot'[i] = jslot[i]
                                     /\ jver'[i] = jver[i] /\ jlife'[i] = jlife[i]
  BY TaskLifeAssumption DEF join, TaskLifeInv, TypeOK
<1>2. /\ n \in 1..lives[s] /\ v = given[s][n] /\ UNCHANGED <<lives, given>>
      /\ UNCHANGED <<metaVars, workerVars, stopVars, lifeVars>>
  BY DEF join, Tid, lifeVars
<1>3. JoinInv'
  BY <1>1, <1>2 DEF TaskLifeInv, JoinInv
<1> QED BY <1>1, <1>2, <1>3, JoinersKeep

\* A joiner that looks at the version, queues or is interrupted keeps its tid.
LEMMA JoinLoopKeeps ==
    ASSUME TaskLifeInv, NEW j \in Joiners,
           JoinCheck(j) \/ JoinQueue(j) \/ JoinInterrupted(j)
    PROVE  TaskLifeInv'
<1>1. UNCHANGED <<metaVars, workerVars, stopVars, lifeVars>> /\ UNCHANGED <<lives, given>>
  BY DEF JoinCheck, JoinQueue, JoinInterrupted, lifeVars
<1>2. /\ jpc \in [Joiners -> {"idle", "check", "queue", "blocked"}]
      /\ jslot \in [Joiners -> Slots \cup {NULL}] /\ jver \in [Joiners -> Versions]
      /\ jlife \in [Joiners -> 0..MaxStarts] /\ 0 \in 0..MaxStarts /\ 0 \in Versions
  BY TaskLifeAssumption DEF TaskLifeInv, TypeOK, Versions
<1>3. CASE JoinReturn(j)
  <2>1. /\ jpc' \in [Joiners -> {"idle", "check", "queue", "blocked"}] /\ jpc'[j] = "idle"
        /\ jslot' \in [Joiners -> Slots \cup {NULL}] /\ jver' \in [Joiners -> Versions]
        /\ jlife' \in [Joiners -> 0..MaxStarts]
        /\ \A i \in Joiners : i # j => /\ jpc'[i] = jpc[i] /\ jslot'[i] = jslot[i]
                                       /\ jver'[i] = jver[i] /\ jlife'[i] = jlife[i]
    BY <1>2, <1>3 DEF JoinReturn
  <2>2. JoinInv'
    BY <1>1, <2>1 DEF TaskLifeInv, JoinInv
  <2> QED BY <1>1, <2>1, <2>2, JoinersKeep
<1>4. CASE jpc[j] # "idle" /\ UNCHANGED <<jslot, jver, jlife>>
           /\ \E k \in {"check", "queue", "blocked"} : jpc' = [jpc EXCEPT ![j] = k]
  <2>1. /\ jpc' \in [Joiners -> {"idle", "check", "queue", "blocked"}]
        /\ \A i \in Joiners : jpc'[i] # "idle" => jpc[i] # "idle"
    BY <1>2, <1>4
  <2>2. JoinInv'
    BY <1>1, <1>4, <2>1 DEF TaskLifeInv, JoinInv
  <2> QED BY <1>1, <1>2, <1>4, <2>1, <2>2, JoinersKeep
<1> QED BY <1>3, <1>4 DEF JoinCheck, JoinQueue, JoinInterrupted

\* A stopper begins with a tid that was given out.
LEMMA StopKeeps ==
    ASSUME TaskLifeInv, NEW p \in Stoppers, NEW s \in Slots, NEW n \in 1..MaxStarts,
           NEW v \in Versions, bthread_stop(p, s, n, v)
    PROVE  TaskLifeInv'
<1>1. /\ spc' \in [Stoppers -> {"idle", "set"}] /\ spc'[p] = "set"
      /\ sslot' \in [Stoppers -> Slots \cup {NULL}] /\ sslot'[p] = s
      /\ sver' \in [Stoppers -> Versions] /\ sver'[p] = v
      /\ \A q \in Stoppers : q # p => /\ spc'[q] = spc[q] /\ sslot'[q] = sslot[q]
                                      /\ sver'[q] = sver[q]
      /\ spc[p] = "idle"
  BY DEF bthread_stop, TaskLifeInv, TypeOK
<1>2. /\ asked' \in [Slots -> SUBSET (1..MaxStarts)]
      /\ \A u \in Slots : asked'[u] = IF u = s THEN asked[s] \cup {n} ELSE asked[u]
  BY DEF bthread_stop, TaskLifeInv, TypeOK
<1>3. /\ UNCHANGED <<state, version, type, stack, stop, pool, cur, sp, remained>>
      /\ UNCHANGED <<jpc, jslot, jver, jlife, lives, given>>
      /\ n \in 1..lives[s] /\ v = given[s][n]
  BY DEF bthread_stop, Tid, metaVars, workerVars, joinVars, lifeVars
<1>4. TypeOK'
  BY <1>1, <1>2, <1>3 DEF TaskLifeInv, TypeOK
<1>5. StackInv' /\ WorkerInv'
  BY <1>3, StacksStay DEF workerVars
<1>6. TidInv' /\ JoinInv'
  BY <1>3 DEF TaskLifeInv, TidInv, Moves, JoinInv
<1>7. StopInv'
  <2>1. \A u \in Slots : asked'[u] \subseteq 1..lives[u]
    BY <1>2, <1>3 DEF TaskLifeInv, StopInv
  <2>2. ASSUME NEW q \in Stoppers, spc'[q] = "set"
        PROVE  /\ sslot'[q] \in Slots
               /\ \E m \in asked'[sslot'[q]] : given[sslot'[q]][m] = sver'[q]
    <3>1. CASE q = p
      BY <1>1, <1>2, <1>3, <3>1
    <3>2. CASE q # p
      <4>1. /\ sslot'[q] = sslot[q] /\ sver'[q] = sver[q] /\ sslot[q] \in Slots
            /\ \E m \in asked[sslot[q]] : given[sslot[q]][m] = sver[q]
        BY <1>1, <2>2, <3>2 DEF TaskLifeInv, StopInv
      <4> QED BY <1>2, <4>1
    <3> QED BY <3>1, <3>2
  <2>3. \A u \in Slots :
           state[u] \in Alives /\ stop[u] => \E m \in asked'[u] : given[u][m] = version[u]
    BY <1>2 DEF TaskLifeInv, StopInv
  <2>4. ASSUME NEW u \in Slots, state[u] \in Alives, lives[u] \in asked'[u]
        PROVE  stop[u] \/ \E q \in Stoppers : /\ spc'[q] = "set"
                                              /\ sslot'[q] = u /\ sver'[q] = version[u]
    <3>1. CASE lives[u] \in asked[u]
      <4>1. CASE stop[u]
        BY <4>1
      <4>2. CASE ~stop[u]
        <5>1. PICK q \in Stoppers : spc[q] = "set" /\ sslot[q] = u /\ sver[q] = version[u]
          BY <2>4, <3>1, <4>2 DEF TaskLifeInv, StopInv
        <5>2. q # p
          BY <1>1, <5>1
        <5> QED BY <1>1, <5>1, <5>2
      <4> QED BY <4>1, <4>2
    <3>2. CASE lives[u] \notin asked[u]
      <4>1. u = s /\ n = lives[u]
        BY <1>2, <2>4, <3>2
      <4>2. v = version[u]
        BY <1>3, <2>4, <4>1 DEF TaskLifeInv, TidInv
      <4> QED BY <1>1, <4>1, <4>2
    <3> QED BY <3>1, <3>2
  <2> QED BY <1>3, <2>1, <2>2, <2>3, <2>4 DEF StopInv
<1> QED BY <1>4, <1>5, <1>6, <1>7 DEF TaskLifeInv

\* The flag is set only for the bthread that bthread_stop was called for.
LEMMA SetStoppedKeeps ==
    ASSUME TaskLifeInv, NEW p \in Stoppers, set_stopped(p)
    PROVE  TaskLifeInv'
<1> DEFINE s == sslot[p]
<1>1. /\ s \in Slots /\ \E m \in asked[s] : given[s][m] = sver[p]
  BY DEF set_stopped, TaskLifeInv, StopInv
<1>2. /\ stop' = [stop EXCEPT ![s] = @ \/ version[s] = sver[p]]
      /\ UNCHANGED <<state, version, type, stack, pool, cur, sp, remained>>
      /\ UNCHANGED <<jpc, jslot, jver, jlife, asked, lives, given>>
      /\ sslot[p] = s
  BY DEF set_stopped, workerVars, joinVars, lifeVars
<1> HIDE DEF s
<1>3. stop' \in [Slots -> BOOLEAN]
  BY <1>2 DEF TaskLifeInv, TypeOK
<1>4. \A u \in Slots : stop'[u] <=> stop[u] \/ (u = s /\ version[s] = sver[p])
  BY <1>1, <1>2 DEF TaskLifeInv, TypeOK
<1>5. /\ spc' \in [Stoppers -> {"idle", "set"}] /\ spc'[p] = "idle"
      /\ sslot' \in [Stoppers -> Slots \cup {NULL}]
      /\ sver' \in [Stoppers -> Versions]
      /\ \A q \in Stoppers : q # p => /\ spc'[q] = spc[q] /\ sslot'[q] = sslot[q]
                                      /\ sver'[q] = sver[q]
  BY TaskLifeAssumption DEF set_stopped, StopReturn, TaskLifeInv, TypeOK, Versions
<1>6. TypeOK'
  BY <1>2, <1>3, <1>5 DEF TaskLifeInv, TypeOK
<1>7. StackInv' /\ WorkerInv'
  BY <1>2, StacksStay DEF workerVars
<1>8. TidInv' /\ JoinInv'
  BY <1>2 DEF TaskLifeInv, TidInv, Moves, JoinInv
<1>9. StopInv'
  <2>1. \A q \in Stoppers :
           spc'[q] = "set" => /\ sslot'[q] \in Slots
                              /\ \E m \in asked[sslot'[q]] : given[sslot'[q]][m] = sver'[q]
    BY <1>5 DEF TaskLifeInv, StopInv
  <2>2. \A u \in Slots :
           state[u] \in Alives /\ stop'[u] => \E m \in asked[u] : given[u][m] = version[u]
    BY <1>1, <1>4 DEF TaskLifeInv, StopInv
  <2>3. ASSUME NEW u \in Slots, state[u] \in Alives, lives[u] \in asked[u], ~stop'[u]
        PROVE  \E q \in Stoppers : spc'[q] = "set" /\ sslot'[q] = u /\ sver'[q] = version[u]
    <3>1. PICK q \in Stoppers : spc[q] = "set" /\ sslot[q] = u /\ sver[q] = version[u]
      BY <1>4, <2>3 DEF TaskLifeInv, StopInv
    <3>2. q # p
      BY <1>2, <1>4, <2>3, <3>1
    <3> QED BY <1>5, <3>1, <3>2
  <2> QED BY <1>2, <2>1, <2>2, <2>3 DEF TaskLifeInv, StopInv
<1> QED BY <1>6, <1>7, <1>8, <1>9 DEF TaskLifeInv

\* The steps together, and steps that change nothing.
LEMMA NextKeeps == TaskLifeInv /\ [Next]_vars => TaskLifeInv'
<1> SUFFICES ASSUME TaskLifeInv, [Next]_vars PROVE TaskLifeInv'
  OBVIOUS
<1>1. CASE \E s \in Slots, t \in Types : start(s, t)
  BY <1>1, StartKeeps
<1>2. CASE \E w \in Workers : EndStep(w)
  BY <1>2, BumpVersionKeeps, WakeJoinersKeeps, ReleaseKeeps, EndingSchedKeeps DEF EndStep
<1>3. CASE \E w \in Workers : \/ \E s \in Slots : run_main_task(w, s)
                              \/ \E s \in Slots \cup {NULL} : sched(w, s)
  BY <1>3, RunMainTaskKeeps, SchedKeeps
<1>4. CASE \E j \in Joiners : JoinCheck(j) \/ JoinQueue(j) \/ JoinInterrupted(j)
  BY <1>4, JoinLoopKeeps
<1>5. CASE \E p \in Stoppers : set_stopped(p)
  BY <1>5, SetStoppedKeeps
<1>6. CASE \E s \in Slots, n \in 1..MaxStarts, v \in Versions :
              \/ \E j \in Joiners : join(j, s, n, v)
              \/ \E p \in Stoppers : bthread_stop(p, s, n, v)
  BY <1>6, JoinKeeps, StopKeeps
<1>7. CASE UNCHANGED vars
  <2>1. UNCHANGED <<metaVars, workerVars, joinVars, stopVars, lifeVars>>
    BY <1>7 DEF vars
  <2>2. UNCHANGED <<jpc, jslot, jver, jlife, lives, given>>
    BY <2>1 DEF joinVars, lifeVars
  <2>3. JoinInv'
    BY <2>2 DEF TaskLifeInv, JoinInv
  <2> QED BY <2>1, <2>2, <2>3, JoinersKeep DEF TaskLifeInv, TypeOK
<1> QED BY <1>1, <1>2, <1>3, <1>4, <1>5, <1>6, <1>7 DEF Next

-----------------------------------------------------------------------------
(* The theorems.                                                           *)

\* The inductive invariant: in particular the state keeps its types.
THEOREM TaskLifeInvariant == Spec => []TaskLifeInv
<1>1. TaskLifeInv /\ [Next]_vars => TaskLifeInv'
  BY NextKeeps
<1> QED BY InitInv, <1>1, PTL DEF Spec

(***************************************************************************)
(* get_stack, the hand-over in ending_sched and _release_last_context      *)
(* neither share nor lose a stack, and a slot that is free has none.       *)
(***************************************************************************)
THEOREM StacksHaveOneOwner == Spec => []StacksOwned
<1>1. TaskLifeInv => StacksOwned
  <2> SUFFICES ASSUME TaskLifeInv PROVE StacksOwned
    OBVIOUS
  <2>1. ASSUME NEW k \in Stacks
        PROVE  Cardinality({s \in Slots : stack[s] = k}) = IF k \in pool THEN 0 ELSE 1
    <3>1. CASE k \in pool
      <4>1. {s \in Slots : stack[s] = k} = {}
        BY <3>1 DEF TaskLifeInv, StackInv, Owned
      <4> QED BY <3>1, <4>1, FS_EmptySet
    <3>2. CASE k \notin pool
      <4>1. PICK s \in Slots : stack[s] = k
        BY <3>2 DEF TaskLifeInv, StackInv, Owned
      <4>2. {u \in Slots : stack[u] = k} = {s}
        BY <4>1 DEF TaskLifeInv, StackInv, Owned
      <4> QED BY <3>2, <4>2, FS_Singleton
    <3> QED BY <3>1, <3>2
  <2> QED BY <2>1 DEF StacksOwned, TaskLifeInv, StackInv
<1> QED BY TaskLifeInvariant, <1>1, PTL

(***************************************************************************)
(* A worker is on its main stack or on the stack of the bthread it runs,   *)
(* and on no stack of another worker: the stack of a bthread that ended is *)
(* given away only when the worker has jumped to the next one.             *)
(***************************************************************************)
THEOREM WorkersAreApart == Spec => []ExecutesOnOwnStack
<1>1. TaskLifeInv => ExecutesOnOwnStack
  <2> SUFFICES ASSUME TaskLifeInv PROVE ExecutesOnOwnStack
    OBVIOUS
  <2>1. ASSUME NEW w \in Workers
        PROVE  /\ cur[w] = NULL => sp[w] = w
               /\ cur[w] # NULL => sp[w] = stack[cur[w]]
               /\ sp[w] = w \/ (/\ cur[w] # NULL /\ cur[w] \in Slots
                                /\ sp[w] \in Stacks)
    BY DEF TaskLifeInv, WorkerInv, TypeOK
  <2>2. ASSUME NEW w \in Workers, NEW v \in Workers, sp[w] = sp[v]
        PROVE  w = v
    <3>1. CASE sp[w] \notin Stacks
      BY <2>1, <2>2, <3>1
    <3>2. CASE sp[w] \in Stacks
      <4>1. /\ cur[w] \in Slots /\ cur[v] \in Slots /\ cur[w] # NULL
            /\ sp[w] = stack[cur[w]] /\ sp[v] = stack[cur[v]]
        BY <2>1, <2>2, <3>2, Apart
      <4>2. stack[cur[w]] = stack[cur[v]] /\ stack[cur[w]] \in Stacks
        BY <2>2, <3>2, <4>1
      <4>3. cur[w] = cur[v]
        BY <4>1, <4>2 DEF TaskLifeInv, StackInv, Owned
      <4> QED BY <4>1, <4>3 DEF TaskLifeInv, WorkerInv
    <3> QED BY <3>1, <3>2
  <2> QED BY <2>1, <2>2 DEF ExecutesOnOwnStack
<1> QED BY TaskLifeInvariant, <1>1, PTL

\* Two versions are the same when the version has moved on 0 times between them.
LEMMA DistanceZero ==
    ASSUME NEW b \in Versions, b # 0, NEW c \in Versions, c # 0
    PROVE  Distance(b, c) = 0 <=> b = c
<1>1. NVersions \in Nat /\ b \in 1..(NVersions - 1) /\ c \in 1..(NVersions - 1)
  BY TaskLifeAssumption DEF Versions
<1> QED BY <1>1 DEF Distance

\* A tid names the version of its slot exactly while its bthread lives.
LEMMA TidIsOfItsLife ==
    ASSUME TaskLifeInv, NEW s \in Slots, NEW v \in Versions, NEW n \in 1..lives[s],
           Tid(s, n, v), lives[s] - n < NVersions - 2
    PROVE  v # 0 /\ (v = version[s] <=> Alive(s, n))
<1>1. /\ v = given[s][n] /\ v # 0 /\ version[s] # 0 /\ version[s] \in Versions
      /\ Moves(s, n) < NVersions - 1 => Distance(v, version[s]) = Moves(s, n)
  BY DEF TaskLifeInv, TidInv, TypeOK, Tid
<1>2. PICK l \in Nat : l = lives[s] /\ n \in 1..l
  BY TaskLifeAssumption DEF TaskLifeInv, TypeOK
<1>3. NVersions \in Nat
  BY TaskLifeAssumption
<1>4. CASE state[s] \in Alives
  <2>1. Moves(s, n) = l - n /\ l - n < NVersions - 1
    BY <1>2, <1>3, <1>4 DEF Moves
  <2>2. v = version[s] <=> l - n = 0
    BY <1>1, <2>1, DistanceZero
  <2>3. l - n = 0 <=> n = l
    BY <1>2
  <2> QED BY <1>1, <1>2, <1>4, <2>2, <2>3 DEF Alive, Alives
<1>5. CASE state[s] \notin Alives
  <2>1. Moves(s, n) = l - n + 1 /\ l - n + 1 < NVersions - 1 /\ l - n + 1 # 0
    BY <1>2, <1>3, <1>5 DEF Moves
  <2>2. v # version[s]
    BY <1>1, <2>1, DistanceZero
  <2> QED BY <1>1, <1>5, <2>2 DEF Alive, Alives
<1> QED BY <1>4, <1>5

(***************************************************************************)
(* exists and is_stopped answer for the bthread the tid was given out for, *)
(* whatever has its slot now, until the version comes round, and no tid is *)
(* ever 0.                                                                 *)
(***************************************************************************)
THEOREM AnswersAreTrue == Spec => []TidsAnswerTruly
<1>1. TaskLifeInv => TidsAnswerTruly
  <2> SUFFICES ASSUME TaskLifeInv PROVE TidsAnswerTruly
    OBVIOUS
  <2>1. \A s \in Slots : version[s] # 0
    BY DEF TaskLifeInv, TidInv
  <2>2. ASSUME NEW s \in Slots, NEW v \in Versions, NEW n \in 1..lives[s],
               Tid(s, n, v), lives[s] - n < NVersions - 2
        PROVE  /\ exists(s, v) <=> Alive(s, n)
               /\ is_stopped(s, v) => ~Alive(s, n) \/ \E m \in asked[s] : Tid(s, m, v)
               /\ ~Alive(s, n) => is_stopped(s, v)
               /\ n \in asked[s] /\ (\A p \in Stoppers : <<sslot[p], sver[p]>> # <<s, v>>)
                     => is_stopped(s, v)
    <3>1. v # 0 /\ (v = version[s] <=> Alive(s, n))
      BY <2>2, TidIsOfItsLife
    <3>2. Alive(s, n) => n = lives[s] /\ state[s] \in Alives
      BY DEF Alive, Alives
    <3>3. exists(s, v) <=> Alive(s, n)
      BY <3>1 DEF exists
    <3>4. ~Alive(s, n) => is_stopped(s, v)
      BY <3>1 DEF is_stopped
    <3>5. ASSUME is_stopped(s, v), Alive(s, n)
          PROVE  \E m \in asked[s] : Tid(s, m, v)
      <4>1. stop[s] /\ v = version[s]
        BY <3>1, <3>5 DEF is_stopped
      <4>2. PICK m \in asked[s] : given[s][m] = version[s]
        BY <3>2, <3>5, <4>1 DEF TaskLifeInv, StopInv
      <4>3. m \in 1..lives[s]
        BY <4>2 DEF TaskLifeInv, StopInv
      <4> QED BY <4>1, <4>2, <4>3 DEF Tid
    <3>6. ASSUME n \in asked[s], \A p \in Stoppers : <<sslot[p], sver[p]>> # <<s, v>>,
                 v = version[s]
          PROVE  stop[s]
      <4>1. state[s] \in Alives /\ lives[s] \in asked[s]
        BY <3>1, <3>2, <3>6
      <4>2. ~\E p \in Stoppers : sslot[p] = s /\ sver[p] = version[s]
        BY <3>6
      <4> QED BY <4>1, <4>2 DEF TaskLifeInv, StopInv
    <3> QED BY <3>3, <3>4, <3>5, <3>6 DEF is_stopped
  <2> QED BY <2>1, <2>2 DEF TidsAnswerTruly
<1> QED BY TaskLifeInvariant, <1>1, PTL

(***************************************************************************)
(* join returns only after the end of the bthread it was called for:       *)
(* neither an interruption nor a bthread that has the slot later makes it  *)
(* return.                                                                 *)
(***************************************************************************)
THEOREM JoinWaitsForTheEnd == Spec => JoinIsSound
<1>1. ASSUME TaskLifeInv, [Next]_vars, NEW j \in Joiners, jpc[j] # "idle", jpc'[j] = "idle"
      PROVE  LifeOver(j)
  <2>1. jpc \in [Joiners -> {"idle", "check", "queue", "blocked"}]
    BY <1>1 DEF TaskLifeInv, TypeOK
  <2>2. jpc' # jpc
    BY <1>1
  <2>3. version[jslot[j]] # jver[j]
    <3>1. CASE \E i \in Joiners : JoinCheck(i) \/ JoinQueue(i) \/ JoinInterrupted(i)
      <4>1. PICK i \in Joiners : JoinCheck(i) \/ JoinQueue(i) \/ JoinInterrupted(i)
        BY <3>1
      <4>2. i = j
        BY <1>1, <2>1, <4>1 DEF JoinCheck, JoinQueue, JoinInterrupted, JoinReturn
      <4> QED BY <1>1, <2>1, <4>1, <4>2 DEF JoinCheck, JoinQueue, JoinInterrupted
    <3>2. CASE \E w \in Workers : WakeJoiners(w)
      BY <1>1, <2>1, <3>2 DEF WakeJoiners
    <3>3. CASE \E s \in Slots, n \in 1..MaxStarts, v \in Versions, i \in Joiners :
                  join(i, s, n, v)
      BY <1>1, <2>1, <3>3 DEF join
    <3>4. CASE UNCHANGED joinVars
      BY <2>2, <3>4 DEF joinVars
    <3> QED BY <1>1, <3>1, <3>2, <3>3, <3>4
        DEF Next, start, EndStep, BumpVersion, _release_last_context, ending_sched,
            run_main_task, sched, bthread_stop, set_stopped, vars
  <2>4. /\ jslot[j] \in Slots /\ jlife[j] \in 1..lives[jslot[j]]
        /\ jver[j] = given[jslot[j]][jlife[j]]
    BY <1>1 DEF TaskLifeInv, JoinInv
  <2>5. CASE jlife[j] = lives[jslot[j]]
    <3>1. state[jslot[j]] \notin Alives
      BY <1>1, <2>3, <2>4, <2>5 DEF TaskLifeInv, TidInv
    <3> QED BY <1>1, <2>4, <2>5, <3>1 DEF LifeOver, TaskLifeInv, TypeOK, States, Alives
  <2>6. CASE jlife[j] # lives[jslot[j]]
    <3>1. lives[jslot[j]] \in Nat
      BY <1>1, <2>4, TaskLifeAssumption DEF TaskLifeInv, TypeOK
    <3> QED BY <2>4, <2>6, <3>1 DEF LifeOver
  <2> QED BY <2>5, <2>6
<1>2. TaskLifeInv /\ [Next]_vars =>
         [\A j \in Joiners : jpc[j] # "idle" /\ jpc'[j] = "idle" => LifeOver(j)]_vars
  BY <1>1
<1> QED BY TaskLifeInvariant, <1>2, PTL DEF Spec, JoinIsSound

=============================================================================
