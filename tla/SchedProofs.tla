---------------------------- MODULE SchedProofs ----------------------------
(***************************************************************************)
(* Proofs about Sched: a tid is in one place of the scheduler, and workers *)
(* never all sleep while there is work that was signalled.                 *)
(***************************************************************************)
EXTENDS Sched, ListLemmas, FiniteSetTheorems, TLAPS

-----------------------------------------------------------------------------
(* The inductive invariant                                                 *)

\* Types of the state.  After a stop a non-worker may be at "null_group".
Types ==
    /\ control \in BOOLEAN /\ stop \in BOOLEAN
    /\ groups \subseteq Workers
    /\ stopped \in 0..NLots
    /\ lot \in [Threads -> Lots]
    /\ rq \in [Workers -> Seq(Tasks)]
    /\ remote_rq \in [Workers -> Seq(Tasks)]
    /\ num_nosignal \in [Workers -> Nat]
    /\ remote_num_nosignal \in [Workers -> Nat]
    /\ fresh \in [Workers -> BOOLEAN]
    /\ saw_stop \in [Workers -> BOOLEAN]
    /\ pc \in [Threads -> WorkerPCs \cup NonWorkerPCs \cup {"null_group"}]
    /\ cur \in [Workers -> Tasks \cup {NULL}]
    /\ args \in [Threads -> [task : Tasks, nosignal : BOOLEAN] \cup {NULL}]
    /\ scan \in [Workers -> SUBSET Workers]
    /\ at \in [Threads -> Workers \cup {NULL}]
    /\ tls_nosignal \in [NonWorkers -> Workers \cup {NULL}]
    /\ sig \in [Threads -> SigPCs]
    /\ num_task \in [Threads -> 0..2]
    /\ nlots \in [Threads -> 0..NLots]
    /\ calls \in 0..MaxCalls

\* What a worker has in hand at each point.
WorkerOK(w) ==
    /\ pc[w] \in WorkerPCs
    /\ pc[w] \in {"none", "created"} => Free(w) /\ rq[w] = <<>>
    /\ cur[w] # NULL => pc[w] \in {"run", "push"}
    /\ pc[w] = "run" => cur[w] # NULL /\ args[w] = NULL
    /\ pc[w] = "push" => args[w] # NULL
    /\ args[w] # NULL /\ cur[w] = NULL => ~args[w].nosignal
    /\ pc[w] = "scan_remote" => at[w] # NULL

WorkerInv == \A w \in Workers : WorkerOK(w)

\* What another thread has in hand at each point.
NonWorkerInv ==
    \A c \in NonWorkers :
        /\ pc[c] \in NonWorkerPCs \cup {"null_group"}
        /\ pc[c] = "push" => args[c] # NULL /\ at[c] # NULL

\* A thread that goes round the lots has a task left to signal.
SignalInv == \A a \in Threads : sig[a] \in {"add", "wake"} => num_task[a] # 0

\* Nothing moves before the first caller has taken g_task_control_mutex.
StartInv ==
    \/ control \/ ControlLocked
    \/ /\ \A a \in Threads : pc[a] \in {"none", "idle"} /\ Free(a)
       /\ \A c \in NonWorkers : tls_nosignal[c] = NULL

Kinds == {"rq", "remote", "cur", "args"}

\* Tid t is in the place of that kind that belongs to thread a.
Has(k, a, t) ==
    \/ k = "rq" /\ a \in Workers /\ t \in Range(rq[a])
    \/ k = "remote" /\ a \in Workers /\ t \in Range(remote_rq[a])
    \/ k = "cur" /\ a \in Workers /\ t = cur[a]
    \/ k = "args" /\ a \in Threads /\ args[a] # NULL /\ t = args[a].task

\* A tid is in one place, and once in a queue.
PlaceInv ==
    /\ \A w \in Workers : IsInjective(rq[w]) /\ IsInjective(remote_rq[w])
    /\ \A k, l \in Kinds : \A a, b \in Threads : \A t \in Tasks :
          Has(k, a, t) /\ Has(l, b, t) => k = l /\ a = b

\* Until a stop, the groups are those of the workers that have started, and no
\* remote push goes to another.
GroupInv ==
    /\ stopped = 0
    /\ control => groups # {}
    /\ \A w \in Workers :
          /\ ~saw_stop[w] /\ pc[w] # "exited"
          /\ w \in groups <=> pc[w] \notin {"none", "created"}
          /\ remote_rq[w] # <<>> => w \in groups
    /\ \A c \in NonWorkers :
          /\ pc[c] = "push" => at[c] \in groups
          /\ tls_nosignal[c] # NULL => tls_nosignal[c] \in groups
          /\ pc[c] # "null_group"

\* The thread is about to signal the lot of its own pthread id.
SignalsOwnLot(a) == sig[a] = "add" /\ nlots[a] = 0

\* A worker does not go to sleep on tasks of its own queue.
OwnQueueSeen(w) ==
    /\ pc[w] = "parked" => rq[w] = <<>>
    /\ pc[w] = "wait" => rq[w] = <<>> \/ ~fresh[w] \/ SignalsOwnLot(w)
    /\ pc[w] \in {"scan", "scan_remote"} => rq[w] = <<>> \/ w \in scan[w]

OwnQueueInv == \A w \in Workers : OwnQueueSeen(w)

\* Worker w will look into the remote queue of group g before it sleeps.
WillSee(w, g) ==
    \/ pc[w] \in {"created", "run", "pop", "push", "steal", "save"}
    \/ pc[w] \in {"scan", "scan_remote"} /\ (g \in scan[w] \/ ~fresh[w])
    \/ pc[w] = "scan_remote" /\ at[w] = g
    \/ pc[w] = "wait" /\ (~fresh[w] \/ SignalsOwnLot(w))

\* The lot of w is one that thread a has still to signal; in the lot that it has
\* marked already w is one of those it may wake.
WillSignal(a, w) ==
    \E j \in nlots[a]..(NLots - 1) :
        /\ lot[w] = (lot[a] + j) % NLots
        /\ sig[a] = "wake" /\ j = nlots[a] => pc[w] = "parked"

\* Thread a has still to signal every worker that will not look by itself.
Covers(a, g) ==
    /\ sig[a] \in {"add", "wake"}
    /\ \A w \in Created : WillSee(w, g) \/ WillSignal(a, w)

\* Tasks in a remote queue that nobody has to flush.
RemoteWork(g) == remote_rq[g] # <<>> /\ remote_num_nosignal[g] = 0

\* A task of a remote queue is seen by a worker on its way or by one that is woken.
RemoteInv ==
    \A g \in Workers :
        RemoteWork(g) => \/ \E w \in Workers : WillSee(w, g)
                         \/ \E a \in Threads : Covers(a, g)

SchedInv ==
    /\ Types /\ WorkerInv /\ NonWorkerInv /\ SignalInv /\ StartInv /\ PlaceInv
    /\ stop \/ (GroupInv /\ OwnQueueInv /\ RemoteInv)

-----------------------------------------------------------------------------
(* Types                                                                   *)

\* The ends of a queue and what is left without them.
LEMMA QueueEnds ==
    ASSUME NEW q \in Seq(Tasks), q # <<>>
    PROVE  /\ Head(q) \in Tasks /\ Tail(q) \in Seq(Tasks)
           /\ Last(q) \in Tasks /\ Front(q) \in Seq(Tasks)
<1>1. Len(q) \in 1..Len(q) /\ Head(q) \in Tasks /\ Tail(q) \in Seq(Tasks)
  OBVIOUS
<1>2. Last(q) \in Tasks
  BY <1>1 DEF Last
<1>3. \A i \in 1..(Len(q) - 1) : q[i] \in Tasks
  OBVIOUS
<1>4. Front(q) \in Seq(Tasks)
  BY <1>3, SubSeqProperties DEF Front
<1> QED BY <1>1, <1>2, <1>4

\* signal_task is entered with at least one task and keeps two at most.
LEMMA SignalTaskTypes ==
    ASSUME Types, NEW a \in Threads, NEW n \in Nat, signal_task(a, n)
    PROVE  /\ sig' \in [Threads -> SigPCs]
           /\ num_task' \in [Threads -> 0..2]
           /\ nlots' \in [Threads -> 0..NLots]
  BY SchedAssumption DEF signal_task, Types, SigPCs

\* The steps of signal_task keep the types.
LEMMA SignalTypes ==
    ASSUME Types, NEW a \in Threads, SignalStep(a)
    PROVE  Types'
<1>1. CASE SignalAdd(a)
  BY <1>1 DEF Types, SignalAdd, SigPCs, queueVars, controlVars, threadVars
<1>2. ASSUME NEW n \in -1..2, SignalNext(a, n)
      PROVE  /\ sig' \in [Threads -> SigPCs]
             /\ num_task' \in [Threads -> 0..2]
             /\ nlots' \in [Threads -> 0..NLots]
  <2>1. nlots[a] \in 0..NLots /\ NLots \in Nat
    BY SchedAssumption DEF Types
  <2>2. CASE n > 0 /\ nlots[a] + 1 < NLots
    BY <1>2, <2>1, <2>2 DEF SignalNext, Types, SigPCs
  <2>3. CASE ~(n > 0 /\ nlots[a] + 1 < NLots)
    BY <1>2, <2>1, <2>3 DEF SignalNext, Types, SigPCs
  <2> QED BY <2>2, <2>3
<1>3. CASE SignalWake(a)
  <2>1. num_task[a] \in -1..2 /\ num_task[a] - 1 \in -1..2
    BY DEF Types
  <2>2. pc' \in [Threads -> WorkerPCs \cup NonWorkerPCs \cup {"null_group"}]
    BY <1>3 DEF SignalWake, Goto, Types, WorkerPCs
  <2>3. /\ sig' \in [Threads -> SigPCs]
        /\ num_task' \in [Threads -> 0..2]
        /\ nlots' \in [Threads -> 0..NLots]
    BY <1>2, <1>3, <2>1 DEF SignalWake
  <2> QED BY <1>3, <2>2, <2>3 DEF Types, SignalWake, queueVars, controlVars, parkVars
<1>4. CASE SignalGrow(a)
  BY <1>4 DEF Types, SignalGrow, Goto, SigPCs, WorkerPCs, queueVars, controlVars, parkVars
<1> QED BY <1>1, <1>3, <1>4 DEF SignalStep

PCTypes == WorkerPCs \cup NonWorkerPCs \cup {"null_group"}

\* A worker that takes a task, or its main task.
LEMMA TakeTypes ==
    ASSUME Types, NEW w \in Workers, NEW t \in Tasks \cup {NULL}, Take(w, t)
    PROVE  /\ cur' \in [Workers -> Tasks \cup {NULL}]
           /\ pc' \in [Threads -> PCTypes]
<1>1. cur' \in [Workers -> Tasks \cup {NULL}]
  BY DEF Types, Take
<1>2. PICK q \in {"push", "wait", "run"} : q = AfterSwitch(w)
  BY DEF AfterSwitch
<1>3. pc' = [pc EXCEPT ![w] = q]
  BY <1>2 DEF Take, Goto
<1>4. q \in PCTypes
  BY <1>2 DEF PCTypes, WorkerPCs
<1> QED BY <1>1, <1>3, <1>4 DEF Types, PCTypes

\* wait_task, steal_task and the pops keep the types.
LEMMA LookTypes ==
    ASSUME Types, WorkerInv, NEW w \in Workers, LookStep(w)
    PROVE  Types'
<1> USE DEF Types, Goto, WorkerPCs
<1>1. w \in Threads
  BY DEF Threads
<1>2. CASE wait_task(w)
  BY <1>1, <1>2 DEF wait_task, queueVars, controlVars, parkVars, sigVars
<1>3. CASE Pop(w)
  <2>1. rq[w] # <<>> => Last(rq[w]) \in Tasks /\ Front(rq[w]) \in Seq(Tasks)
    BY QueueEnds
  <2>2. rq' \in [Workers -> Seq(Tasks)]
    BY <1>3, <2>1 DEF Pop
  <2>3. cur' \in [Workers -> Tasks \cup {NULL}] /\ pc' \in [Threads -> PCTypes]
    <3>1. CASE rq[w] # <<>>
      BY <1>3, <2>1, <3>1, TakeTypes DEF Pop
    <3>2. CASE rq[w] = <<>>
      BY <1>1, <1>3, <3>2 DEF Pop, PCTypes
    <3> QED BY <3>1, <3>2
  <2> QED BY <1>3, <2>2, <2>3 DEF Pop, PCTypes, controlVars, parkVars, sigVars
<1>4. CASE StealRemote(w)
  <2>1. remote_rq[w] # <<>> => Head(remote_rq[w]) \in Tasks /\ Tail(remote_rq[w]) \in Seq(Tasks)
    BY QueueEnds
  <2>2. remote_rq' \in [Workers -> Seq(Tasks)]
    BY <1>4, <2>1 DEF StealRemote
  <2>3. cur' \in [Workers -> Tasks \cup {NULL}] /\ pc' \in [Threads -> PCTypes]
    <3>1. CASE remote_rq[w] # <<>>
      BY <1>4, <2>1, <3>1, TakeTypes DEF StealRemote
    <3>2. CASE remote_rq[w] = <<>>
      BY <1>1, <1>4, <3>2 DEF StealRemote, PCTypes
    <3> QED BY <3>1, <3>2
  <2> QED BY <1>4, <2>2, <2>3 DEF StealRemote, PCTypes, controlVars, parkVars, sigVars
<1>5. CASE SaveState(w)
  BY <1>1, <1>5 DEF SaveState, queueVars, controlVars, sigVars
<1>6. CASE Scan(w)
  <2>1. \A g \in Workers : rq[g] # <<>> => Head(rq[g]) \in Tasks /\ Tail(rq[g]) \in Seq(Tasks)
    BY QueueEnds
  <2>2. PICK g \in scan[w] :
           \/ /\ rq[g] # <<>>
              /\ rq' = [rq EXCEPT ![g] = Tail(@)]
              /\ Stolen(w, Head(rq[g]))
           \/ /\ rq[g] = <<>>
              /\ at' = [at EXCEPT ![w] = g]
              /\ scan' = [scan EXCEPT ![w] = @ \ {g}]
              /\ Goto(w, "scan_remote")
              /\ UNCHANGED <<rq, cur>>
    BY <1>6 DEF Scan
  <2>3. g \in Workers
    OBVIOUS
  <2>4. /\ rq' \in [Workers -> Seq(Tasks)]
        /\ scan' \in [Workers -> SUBSET Workers]
        /\ at' \in [Threads -> Workers \cup {NULL}]
    <3>1. CASE rq[g] # <<>>
      <4>1. /\ rq' = [rq EXCEPT ![g] = Tail(rq[g])] /\ Tail(rq[g]) \in Seq(Tasks)
            /\ scan' = [scan EXCEPT ![w] = {}] /\ at' = [at EXCEPT ![w] = NULL]
        BY <2>1, <2>2, <2>3, <3>1 DEF Stolen
      <4> QED BY <1>1, <2>3, <4>1
    <3>2. CASE rq[g] = <<>>
      <4>1. /\ rq' = rq /\ scan' = [scan EXCEPT ![w] = scan[w] \ {g}]
            /\ at' = [at EXCEPT ![w] = g]
        BY <2>2, <3>2
      <4>2. scan[w] \ {g} \in SUBSET Workers
        OBVIOUS
      <4> QED BY <1>1, <2>3, <4>1, <4>2
    <3> QED BY <3>1, <3>2
  <2>5. cur' \in [Workers -> Tasks \cup {NULL}] /\ pc' \in [Threads -> PCTypes]
    <3>1. CASE rq[g] # <<>>
      BY <2>1, <2>2, <2>3, <3>1, TakeTypes DEF Stolen
    <3>2. CASE rq[g] = <<>>
      BY <1>1, <2>2, <3>2 DEF PCTypes
    <3> QED BY <3>1, <3>2
  <2> QED BY <1>6, <2>4, <2>5 DEF Scan, PCTypes, controlVars, parkVars, sigVars
<1>7. CASE ScanRemote(w)
  <2>1. at[w] \in Workers
    BY <1>1, <1>7 DEF ScanRemote, WorkerInv, WorkerOK
  <2>2. remote_rq[at[w]] # <<>> =>
           Head(remote_rq[at[w]]) \in Tasks /\ Tail(remote_rq[at[w]]) \in Seq(Tasks)
    BY <2>1, QueueEnds
  <2>3. /\ remote_rq' \in [Workers -> Seq(Tasks)]
        /\ scan' \in [Workers -> SUBSET Workers]
        /\ at' \in [Threads -> Workers \cup {NULL}]
    <3>1. CASE remote_rq[at[w]] # <<>>
      <4>1. /\ remote_rq' = [remote_rq EXCEPT ![at[w]] = Tail(remote_rq[at[w]])]
            /\ scan' = [scan EXCEPT ![w] = {}] /\ at' = [at EXCEPT ![w] = NULL]
        BY <1>7, <2>1, <3>1 DEF ScanRemote, Stolen
      <4> QED BY <1>1, <2>1, <2>2, <3>1, <4>1
    <3>2. CASE remote_rq[at[w]] = <<>>
      BY <1>1, <1>7, <3>2 DEF ScanRemote
    <3> QED BY <3>1, <3>2
  <2>4. cur' \in [Workers -> Tasks \cup {NULL}] /\ pc' \in [Threads -> PCTypes]
    <3>1. CASE remote_rq[at[w]] # <<>>
      BY <1>7, <2>2, <3>1, TakeTypes DEF ScanRemote, Stolen
    <3>2. CASE remote_rq[at[w]] = <<>>
      BY <1>1, <1>7, <3>2 DEF ScanRemote, PCTypes
    <3> QED BY <3>1, <3>2
  <2> QED BY <1>7, <2>3, <2>4 DEF ScanRemote, PCTypes, controlVars, parkVars, sigVars
<1>8. CASE ScanFails(w)
  <2>1. cur' \in [Workers -> Tasks \cup {NULL}] /\ pc' \in [Threads -> PCTypes]
    BY <1>8, TakeTypes DEF ScanFails
  <2> QED BY <1>8, <2>1 DEF ScanFails, PCTypes, queueVars, controlVars, parkVars, sigVars
<1> QED BY <1>2, <1>3, <1>4, <1>5, <1>6, <1>7, <1>8 DEF LookStep

\* The calls of the task that runs keep the types.
LEMMA TaskTypes ==
    ASSUME Types, WorkerInv, NEW w \in Workers,
           TaskCall(w) \/ FinishTask(w) \/ ready_to_run(w) \/ RqFull(w) \/ _add_group(w)
    PROVE  Types'
<1>1. w \in Threads
  BY DEF Threads
<1>2. \A next \in WorkerPCs : Goto(w, next) => pc' \in [Threads -> PCTypes]
  BY <1>1 DEF Goto, Types, PCTypes
<1>3. \A t \in Tasks, nosignal \in Flags :
         Args(t, nosignal) \in [task : Tasks, nosignal : BOOLEAN]
  BY SchedAssumption DEF Args
<1>4. Called => calls' \in 0..MaxCalls
  BY SchedAssumption DEF Called, Types
<1>5. pc[w] = "run" => cur[w] \in Tasks
  BY DEF WorkerInv, WorkerOK, Types
<1>6. FALSE \in BOOLEAN /\ \A nosignal \in Flags : nosignal \in BOOLEAN
  BY SchedAssumption
<1>7. ASSUME NEW t \in Tasks, NEW nosignal \in Flags, start_background(w, t, nosignal)
      PROVE  Types'
  <2>1. pc' \in [Threads -> PCTypes]
    BY <1>2, <1>7 DEF start_background, WorkerPCs
  <2>2. args' \in [Threads -> [task : Tasks, nosignal : BOOLEAN] \cup {NULL}]
    BY <1>1, <1>3, <1>7 DEF start_background, Types
  <2> QED BY <1>4, <1>7, <2>1, <2>2
          DEF Types, PCTypes, start_background, queueVars, controlVars, parkVars, sigVars
<1>8. ASSUME NEW t \in Tasks, NEW nosignal \in Flags, start_foreground(w, t, nosignal)
      PROVE  Types'
  <2>1. pc' \in [Threads -> PCTypes]
    BY <1>2, <1>8 DEF start_foreground, WorkerPCs
  <2>2. cur[w] \in Tasks
    BY <1>5, <1>8 DEF start_foreground, Running
  <2>3. args' \in [Threads -> [task : Tasks, nosignal : BOOLEAN] \cup {NULL}]
    <3>1. Args(t, nosignal) \in [task : Tasks, nosignal : BOOLEAN]
      BY <1>3
    <3>2. Args(cur[w], nosignal) \in [task : Tasks, nosignal : BOOLEAN]
      BY <1>3, <2>2
    <3> QED BY <1>1, <1>8, <3>1, <3>2 DEF start_foreground, Types
  <2>4. cur' \in [Workers -> Tasks \cup {NULL}]
    BY <1>8 DEF start_foreground, Types
  <2> QED BY <1>4, <1>8, <2>1, <2>3, <2>4
          DEF Types, PCTypes, start_foreground, queueVars, controlVars, parkVars, sigVars
<1>9. CASE yield(w)
  <2>1. pc' \in [Threads -> PCTypes]
    BY <1>2, <1>9 DEF yield, WorkerPCs
  <2>2. cur[w] \in Tasks
    BY <1>5, <1>9 DEF yield, Running
  <2>3. args' \in [Threads -> [task : Tasks, nosignal : BOOLEAN] \cup {NULL}]
    <3>1. Args(cur[w], FALSE) \in [task : Tasks, nosignal : BOOLEAN]
      BY <2>2 DEF Args
    <3> QED BY <1>1, <1>9, <3>1 DEF yield, Types
  <2>4. cur' \in [Workers -> Tasks \cup {NULL}]
    BY <1>9 DEF yield, Types
  <2> QED BY <1>4, <1>9, <2>1, <2>3, <2>4
          DEF Types, PCTypes, yield, queueVars, controlVars, parkVars, sigVars
<1>10. ASSUME flush_nosignal_tasks(w)
       PROVE  /\ num_nosignal' \in [Workers -> Nat]
              /\ sig' \in [Threads -> SigPCs]
              /\ num_task' \in [Threads -> 0..2]
              /\ nlots' \in [Threads -> 0..NLots]
  <2>1. num_nosignal[w] \in Nat
    BY DEF Types
  <2>2. num_nosignal' \in [Workers -> Nat] /\ signal_task(w, num_nosignal[w])
    BY <1>10 DEF flush_nosignal_tasks, Types
  <2> QED BY <1>1, <2>1, <2>2, SignalTaskTypes
<1>11. CASE FlushLocal(w)
  BY <1>4, <1>10, <1>11 DEF Types, FlushLocal, controlVars, parkVars, threadVars
<1>12. CASE FinishTask(w)
  <2>1. pc' \in [Threads -> PCTypes]
    BY <1>2, <1>12 DEF FinishTask, WorkerPCs
  <2>2. cur' \in [Workers -> Tasks \cup {NULL}]
    BY <1>12 DEF FinishTask, Types
  <2> QED BY <1>12, <2>1, <2>2
          DEF Types, PCTypes, FinishTask, queueVars, controlVars, parkVars, sigVars
<1>13. CASE ready_to_run(w)
  <2>1. args[w] \in [task : Tasks, nosignal : BOOLEAN] /\ num_nosignal[w] \in Nat
    BY <1>1, <1>13 DEF ready_to_run, WorkerInv, WorkerOK, Types
  <2>2. rq' \in [Workers -> Seq(Tasks)]
    <3>1. args[w].task \in Tasks /\ rq[w] \in Seq(Tasks)
      BY <2>1 DEF Types
    <3>2. Append(rq[w], args[w].task) \in Seq(Tasks)
      BY <3>1
    <3> QED BY <1>13, <3>2 DEF ready_to_run, Types
  <2>3. pc' \in [Threads -> PCTypes]
    <3>1. \E next \in {"wait", "run"} : Goto(w, next)
      BY <1>13 DEF ready_to_run
    <3> QED BY <1>2, <3>1 DEF WorkerPCs
  <2>4. args' \in [Threads -> [task : Tasks, nosignal : BOOLEAN] \cup {NULL}]
    BY <1>13 DEF ready_to_run, Types
  <2>5. /\ num_nosignal' \in [Workers -> Nat]
        /\ sig' \in [Threads -> SigPCs]
        /\ num_task' \in [Threads -> 0..2]
        /\ nlots' \in [Threads -> 0..NLots]
    <3>1. CASE args[w].nosignal
      <4>1. /\ num_nosignal' = [num_nosignal EXCEPT ![w] = num_nosignal[w] + 1]
            /\ UNCHANGED sigVars
        BY <1>13, <3>1 DEF ready_to_run
      <4> QED BY <2>1, <4>1 DEF Types, sigVars
    <3>2. CASE ~args[w].nosignal
      <4>1. 1 + num_nosignal[w] \in Nat /\ signal_task(w, 1 + num_nosignal[w])
        BY <1>13, <2>1, <3>2 DEF ready_to_run
      <4>2. num_nosignal' \in [Workers -> Nat]
        <5>1. num_nosignal' = [num_nosignal EXCEPT ![w] = 0]
          BY <1>13, <3>2 DEF ready_to_run
        <5> QED BY <5>1 DEF Types
      <4> QED BY <1>1, <4>1, <4>2, SignalTaskTypes
    <3> QED BY <3>1, <3>2
  <2> QED BY <1>13, <2>2, <2>3, <2>4, <2>5
          DEF Types, PCTypes, ready_to_run, controlVars, parkVars
<1>14. CASE RqFull(w)
  BY <1>10, <1>14 DEF Types, RqFull, controlVars, parkVars, threadVars
<1>15. CASE _add_group(w)
  <2>1. pc' \in [Threads -> PCTypes]
    BY <1>2, <1>15 DEF _add_group, WorkerPCs
  <2>2. groups' \subseteq Workers
    BY <1>15 DEF _add_group, Types
  <2>3. /\ sig' \in [Threads -> SigPCs]
        /\ num_task' \in [Threads -> 0..2]
        /\ nlots' \in [Threads -> 0..NLots]
    <3>1. CASE UNCHANGED sigVars
      BY <3>1 DEF sigVars, Types
    <3>2. CASE signal_task(w, 65536)
      BY <1>1, <3>2, SignalTaskTypes
    <3> QED BY <1>15, <3>1, <3>2 DEF _add_group
  <2>4. UNCHANGED <<queueVars, parkVars, control, stop, stopped, lot, cur, args, scan, at,
                    tls_nosignal, calls>>
    BY <1>15 DEF _add_group
  <2> QED BY <2>1, <2>2, <2>3, <2>4 DEF Types, PCTypes, queueVars, parkVars
<1> QED BY <1>7, <1>8, <1>9, <1>11, <1>12, <1>13, <1>14, <1>15 DEF TaskCall

\* A start gets a group, the remembered one or another, or finds that there is none.
LEMMA StartShape ==
    ASSUME NEW c \in NonWorkers, NEW t \in Tasks, NEW nosignal \in Flags,
           start_from_non_worker(c, t, nosignal)
    PROVE  \/ /\ \E g \in groups \cup ({tls_nosignal[c]} \ {NULL}) :
                    /\ at' = [at EXCEPT ![c] = g]
                    /\ \E v \in {g, tls_nosignal[c]} :
                          tls_nosignal' = [tls_nosignal EXCEPT ![c] = v]
                          \/ tls_nosignal' = tls_nosignal
              /\ Goto(c, "push")
           \/ groups = {} /\ Goto(c, "null_group") /\ UNCHANGED <<at, tls_nosignal>>
<1>1. CASE nosignal /\ tls_nosignal[c] # NULL
  <2>1. /\ at' = [at EXCEPT ![c] = tls_nosignal[c]] /\ tls_nosignal' = tls_nosignal
        /\ Goto(c, "push")
    BY <1>1 DEF start_from_non_worker
  <2> QED BY <1>1, <2>1
<1>2. CASE ~(nosignal /\ tls_nosignal[c] # NULL)
  <2>1. CASE groups = {} /\ Goto(c, "null_group") /\ UNCHANGED <<at, tls_nosignal>>
    BY <2>1
  <2>2. CASE /\ \E g \in groups :
                   /\ at' = [at EXCEPT ![c] = g]
                   /\ tls_nosignal' = [tls_nosignal EXCEPT ![c] = IF nosignal THEN g ELSE @]
             /\ Goto(c, "push")
    <3>1. PICK g \in groups :
             /\ at' = [at EXCEPT ![c] = g]
             /\ tls_nosignal' = [tls_nosignal EXCEPT ![c] = IF nosignal THEN g ELSE @]
      BY <2>2
    <3>2. \E v \in {g, tls_nosignal[c]} : tls_nosignal' = [tls_nosignal EXCEPT ![c] = v]
      BY <3>1
    <3> QED BY <2>2, <3>1, <3>2
  <2> QED BY <1>2, <2>1, <2>2 DEF start_from_non_worker
<1> QED BY <1>1, <1>2

\* The steps of the other threads keep the types.
LEMMA OtherTypes ==
    ASSUME Types, NonWorkerInv, NEW c \in NonWorkers,
           \/ InitReturns(c) \/ ready_to_run_remote(c) \/ RemoteFull(c)
           \/ bthread_flush(c) \/ get_or_new_task_control(c)
           \/ \E t \in Tasks, nosignal \in Flags : start_from_non_worker(c, t, nosignal)
           \/ stop_and_join \/ StopLot
    PROVE  Types'
<1>1. c \in Threads
  BY DEF Threads
<1>2. \A next \in PCTypes : Goto(c, next) => pc' \in [Threads -> PCTypes]
  BY <1>1 DEF Goto, Types, PCTypes
<1>3. {"idle", "init", "push", "null_group", "created", "steal"} \subseteq PCTypes
  BY DEF PCTypes, WorkerPCs, NonWorkerPCs
<1>4. ASSUME NEW g \in Workers, flush_nosignal_tasks_remote(c, g)
      PROVE  /\ remote_num_nosignal' \in [Workers -> Nat]
             /\ sig' \in [Threads -> SigPCs]
             /\ num_task' \in [Threads -> 0..2]
             /\ nlots' \in [Threads -> 0..NLots]
  <2>1. remote_num_nosignal[g] \in Nat
    BY DEF Types
  <2>2. /\ remote_num_nosignal' \in [Workers -> Nat]
        /\ signal_task(c, remote_num_nosignal[g])
    BY <1>4 DEF flush_nosignal_tasks_remote, Types
  <2> QED BY <1>1, <2>1, <2>2, SignalTaskTypes
<1>5. CASE InitReturns(c)
  <2>1. pc' \in [Threads -> PCTypes]
    BY <1>2, <1>3, <1>5 DEF InitReturns
  <2> QED BY <1>5, <2>1 DEF Types, PCTypes, InitReturns, queueVars, parkVars, sigVars
<1>6. CASE ready_to_run_remote(c)
  <2>1. /\ args[c] \in [task : Tasks, nosignal : BOOLEAN] /\ at[c] \in Workers
        /\ remote_num_nosignal[at[c]] \in Nat
    BY <1>1, <1>6 DEF ready_to_run_remote, NonWorkerInv, Types
  <2>2. remote_rq' \in [Workers -> Seq(Tasks)]
    <3>1. args[c].task \in Tasks /\ remote_rq[at[c]] \in Seq(Tasks)
      BY <2>1 DEF Types
    <3>2. Append(remote_rq[at[c]], args[c].task) \in Seq(Tasks)
      BY <3>1
    <3> QED BY <1>6, <3>2 DEF ready_to_run_remote, Types
  <2>3. pc' \in [Threads -> PCTypes]
    BY <1>2, <1>3, <1>6 DEF ready_to_run_remote
  <2>4. /\ args' \in [Threads -> [task : Tasks, nosignal : BOOLEAN] \cup {NULL}]
        /\ at' \in [Threads -> Workers \cup {NULL}]
    BY <1>6 DEF ready_to_run_remote, Types
  <2>5. /\ remote_num_nosignal' \in [Workers -> Nat]
        /\ sig' \in [Threads -> SigPCs]
        /\ num_task' \in [Threads -> 0..2]
        /\ nlots' \in [Threads -> 0..NLots]
    <3>1. CASE args[c].nosignal
      <4>1. /\ remote_num_nosignal' =
                  [remote_num_nosignal EXCEPT ![at[c]] = remote_num_nosignal[at[c]] + 1]
            /\ UNCHANGED sigVars
        BY <1>6, <3>1 DEF ready_to_run_remote
      <4>2. remote_num_nosignal[at[c]] + 1 \in Nat
        BY <2>1
      <4> QED BY <4>1, <4>2 DEF Types, sigVars
    <3>2. CASE ~args[c].nosignal
      <4>1. /\ 1 + remote_num_nosignal[at[c]] \in Nat
            /\ signal_task(c, 1 + remote_num_nosignal[at[c]])
        BY <1>6, <2>1, <3>2 DEF ready_to_run_remote
      <4>2. remote_num_nosignal' \in [Workers -> Nat]
        <5>1. remote_num_nosignal' = [remote_num_nosignal EXCEPT ![at[c]] = 0]
          BY <1>6, <3>2 DEF ready_to_run_remote
        <5> QED BY <5>1 DEF Types
      <4> QED BY <1>1, <4>1, <4>2, SignalTaskTypes
    <3> QED BY <3>1, <3>2
  <2> QED BY <1>6, <2>2, <2>3, <2>4, <2>5
          DEF Types, PCTypes, ready_to_run_remote, controlVars, parkVars
<1>7. CASE RemoteFull(c)
  <2>1. at[c] \in Workers
    BY <1>1, <1>7 DEF RemoteFull, NonWorkerInv, Types
  <2> QED BY <1>4, <1>7, <2>1 DEF Types, RemoteFull, controlVars, parkVars, threadVars
<1>8. CASE bthread_flush(c)
  <2>1. tls_nosignal[c] \in Workers /\ tls_nosignal' \in [NonWorkers -> Workers \cup {NULL}]
    BY <1>8 DEF bthread_flush, Types
  <2>2. /\ remote_num_nosignal' \in [Workers -> Nat]
        /\ sig' \in [Threads -> SigPCs]
        /\ num_task' \in [Threads -> 0..2]
        /\ nlots' \in [Threads -> 0..NLots]
    BY <1>4, <1>8, <2>1 DEF bthread_flush, Types, sigVars
  <2> QED BY <1>8, <2>1, <2>2 DEF Types, bthread_flush, controlVars, parkVars
<1>9. CASE get_or_new_task_control(c)
  <2>1. pc' \in [Threads -> PCTypes]
    BY <1>3, <1>9 DEF get_or_new_task_control, Types, PCTypes
  <2> QED BY <1>9, <2>1
          DEF Types, PCTypes, get_or_new_task_control, queueVars, controlVars, parkVars, sigVars
<1>10. ASSUME NEW t \in Tasks, NEW nosignal \in Flags, start_from_non_worker(c, t, nosignal)
       PROVE  Types'
  <2>1. pc' \in [Threads -> PCTypes]
    BY <1>2, <1>3, <1>10 DEF start_from_non_worker
  <2>2. calls' \in 0..MaxCalls
    BY <1>10, SchedAssumption DEF start_from_non_worker, Called, Types
  <2>3. /\ Args(t, nosignal) \in [task : Tasks, nosignal : BOOLEAN]
        /\ Args(t, TRUE) \in [task : Tasks, nosignal : BOOLEAN]
    BY SchedAssumption DEF Args
  <2>4. args' \in [Threads -> [task : Tasks, nosignal : BOOLEAN] \cup {NULL}]
    BY <1>1, <1>10, <2>3 DEF start_from_non_worker, Types
  <2>5. /\ at' \in [Threads -> Workers \cup {NULL}]
        /\ tls_nosignal' \in [NonWorkers -> Workers \cup {NULL}]
    <3>1. tls_nosignal[c] \in Workers \cup {NULL} /\ groups \subseteq Workers
      BY DEF Types
    <3>2. CASE UNCHANGED <<at, tls_nosignal>>
      BY <3>2 DEF Types
    <3>3. ASSUME NEW g \in Workers, NEW v \in Workers \cup {NULL},
                 at' = [at EXCEPT ![c] = g],
                 tls_nosignal' = [tls_nosignal EXCEPT ![c] = v] \/ tls_nosignal' = tls_nosignal
          PROVE  /\ at' \in [Threads -> Workers \cup {NULL}]
                 /\ tls_nosignal' \in [NonWorkers -> Workers \cup {NULL}]
      BY <3>3 DEF Types
    <3>4. CASE \E g \in groups \cup ({tls_nosignal[c]} \ {NULL}) :
                  /\ at' = [at EXCEPT ![c] = g]
                  /\ \E v \in {g, tls_nosignal[c]} :
                        tls_nosignal' = [tls_nosignal EXCEPT ![c] = v]
                        \/ tls_nosignal' = tls_nosignal
      <4>1. PICK g \in groups \cup ({tls_nosignal[c]} \ {NULL}) :
                  /\ at' = [at EXCEPT ![c] = g]
                  /\ \E v \in {g, tls_nosignal[c]} :
                        tls_nosignal' = [tls_nosignal EXCEPT ![c] = v]
                        \/ tls_nosignal' = tls_nosignal
        BY <3>4
      <4>2. PICK v \in {g, tls_nosignal[c]} :
                  tls_nosignal' = [tls_nosignal EXCEPT ![c] = v]
                  \/ tls_nosignal' = tls_nosignal
        BY <4>1
      <4>3. g \in Workers /\ v \in Workers \cup {NULL}
        BY <3>1, <4>1, <4>2
      <4> QED BY <3>3, <4>1, <4>2, <4>3
    <3> QED BY <1>10, <3>2, <3>4, StartShape
  <2> QED BY <1>10, <2>1, <2>2, <2>4, <2>5
          DEF Types, PCTypes, start_from_non_worker, queueVars, controlVars, parkVars, sigVars
<1>11. CASE stop_and_join
  BY <1>11 DEF Types, stop_and_join, queueVars, parkVars, threadVars, sigVars
<1>12. CASE StopLot
  <2>1. pc' \in [Threads -> PCTypes]
    BY <1>3, <1>12 DEF StopLot, Types, PCTypes
  <2>2. stopped' \in 0..NLots
    BY <1>12, SchedAssumption DEF StopLot, Types
  <2> QED BY <1>12, <2>1, <2>2 DEF Types, PCTypes, StopLot, queueVars, sigVars
<1> QED BY <1>5, <1>6, <1>7, <1>8, <1>9, <1>10, <1>11, <1>12

-----------------------------------------------------------------------------
(* What the threads have in hand                                           *)

\* What another thread does leaves a worker in order.
LEMMA WorkerFrame ==
    ASSUME NEW x \in Workers, WorkerOK(x),
           pc'[x] = pc[x], cur'[x] = cur[x], args'[x] = args[x], at'[x] = at[x],
           sig'[x] = sig[x], rq[x] = <<>> => rq'[x] = <<>>
    PROVE  WorkerOK(x)'
  BY DEF WorkerOK, Free

\* So does waking it.
LEMMA WorkerWoken ==
    ASSUME NEW x \in Workers, WorkerOK(x), pc[x] = "parked", pc'[x] = "steal",
           cur'[x] = cur[x], args'[x] = args[x]
    PROVE  WorkerOK(x)'
  BY DEF WorkerOK, WorkerPCs

\* Workers are threads and not NULL; what is to be pushed is not NULL either.
LEMMA Apart ==
    /\ Workers \subseteq Threads /\ NonWorkers \subseteq Threads
    /\ \A w \in Workers : w \notin NonWorkers /\ w # NULL
    /\ \A t \in Tasks : t # NULL
    /\ \A t \in Tasks, nosignal \in BOOLEAN :
          /\ Args(t, nosignal) # NULL
          /\ Args(t, nosignal).task = t /\ Args(t, nosignal).nosignal = nosignal
    /\ Flags \subseteq BOOLEAN
<1>1. \A t \in Tasks, nosignal \in BOOLEAN :
          Args(t, nosignal) \in [task : Tasks, nosignal : BOOLEAN]
  BY DEF Args
<1>2. \A t \in Tasks, nosignal \in BOOLEAN :
          Args(t, nosignal).task = t /\ Args(t, nosignal).nosignal = nosignal
  BY DEF Args
<1> QED BY <1>1, <1>2, SchedAssumption DEF Threads

\* signal_task leaves what a worker has in hand; one it wakes goes to steal.
LEMMA SignalWorkers ==
    ASSUME Types, WorkerInv, NEW a \in Threads, SignalStep(a)
    PROVE  WorkerInv'
<1> SUFFICES ASSUME NEW x \in Workers PROVE WorkerOK(x)'
  BY DEF WorkerInv
<1>1. WorkerOK(x) /\ x \in Threads
  BY Apart DEF WorkerInv
<1>2. rq' = rq /\ cur' = cur /\ args' = args /\ at' = at
  BY DEF SignalStep, SignalAdd, SignalWake, SignalGrow, queueVars, threadVars
<1>3. x # a => sig'[x] = sig[x]
  <2>1. \E v : sig' = [sig EXCEPT ![a] = v]
    BY DEF SignalStep, SignalAdd, SignalWake, SignalGrow, SignalNext
  <2> QED BY <1>1, <2>1 DEF Types
<1>4. x = a => pc[x] \notin {"none", "created"}
  BY <1>1 DEF SignalStep, SignalAdd, SignalWake, SignalGrow, WorkerOK, Free
<1>5. CASE pc'[x] = pc[x]
  BY <1>1, <1>2, <1>3, <1>4, <1>5 DEF WorkerOK, Free
<1>6. CASE pc'[x] # pc[x]
  <2>1. \/ pc[x] = "parked" /\ pc'[x] = "steal"
        \/ pc[x] = "none" /\ pc'[x] = "created"
    BY <1>1, <1>6 DEF SignalStep, SignalAdd, SignalWake, SignalGrow, Goto, Parked, threadVars, Types
  <2>2. CASE pc[x] = "parked"
    BY <1>1, <1>2, <2>1, <2>2, WorkerWoken
  <2>3. CASE pc[x] = "none" /\ pc'[x] = "created"
    BY <1>1, <1>2, <1>3, <1>4, <2>3 DEF WorkerOK, Free, WorkerPCs
  <2> QED BY <2>1, <2>2, <2>3
<1> QED BY <1>5, <1>6

\* A worker that takes a task has no other, and goes on with what it has to push.
LEMMA TakeKeepsOrder ==
    ASSUME Types, NEW w \in Workers, WorkerOK(w), NEW t \in Tasks \cup {NULL},
           pc[w] \in {"pop", "steal", "scan", "scan_remote"}, Take(w, t),
           args' = args, sig' = sig
    PROVE  WorkerOK(w)'
<1>1. cur'[w] = t /\ pc'[w] = AfterSwitch(w)
  BY Apart DEF Take, Goto, Types
<1>2. cur[w] = NULL /\ (args[w] # NULL => ~args[w].nosignal)
  BY DEF WorkerOK
<1>3. CASE args[w] # NULL
  BY <1>1, <1>2, <1>3 DEF WorkerOK, WorkerPCs, AfterSwitch
<1>4. CASE args[w] = NULL
  BY <1>1, <1>4 DEF WorkerOK, WorkerPCs, AfterSwitch
<1> QED BY <1>3, <1>4

\* A worker that looks for a task has nothing in hand until it takes one.
LEMMA LookWorkers ==
    ASSUME Types, WorkerInv, NEW w \in Workers, LookStep(w)
    PROVE  WorkerInv'
<1>1. w \in Threads /\ WorkerOK(w) /\ args' = args /\ sig' = sig /\ cur[w] = NULL
  BY Apart DEF LookStep, wait_task, Pop, StealRemote, SaveState, Scan, ScanRemote, ScanFails,
     sigVars, WorkerInv, WorkerOK
<1>2. ASSUME NEW x \in Workers, x # w PROVE WorkerOK(x)'
  <2>1. WorkerOK(x) /\ x \in Threads
    BY Apart DEF WorkerInv
  <2>2. pc'[x] = pc[x] /\ cur'[x] = cur[x] /\ at'[x] = at[x]
    BY <1>2, <2>1 DEF LookStep, wait_task, Pop, StealRemote, SaveState, Scan, ScanRemote,
       ScanFails, Take, Stolen, Goto, Types
  <2>3. rq[x] = <<>> => rq'[x] = <<>>
    BY <1>2, <2>1 DEF LookStep, wait_task, Pop, StealRemote, SaveState, Scan, ScanRemote,
       ScanFails, queueVars, Types
  <2> QED BY <1>1, <2>1, <2>2, <2>3, WorkerFrame
<1>3. \A next \in WorkerPCs \ {"none", "created", "run", "push", "scan_remote"} :
         Goto(w, next) /\ cur' = cur => WorkerOK(w)'
  BY <1>1 DEF Goto, WorkerOK, Types, Free
<1>4. WorkerOK(w)'
  <2>1. CASE wait_task(w)
    <3>1. \E next \in {"exited", "parked", "steal"} : Goto(w, next) /\ cur' = cur
      BY <2>1 DEF wait_task
    <3> QED BY <1>3, <3>1 DEF WorkerPCs
  <2>2. CASE Pop(w)
    <3>1. CASE rq[w] # <<>>
      <4>1. Last(rq[w]) \in Tasks /\ Take(w, Last(rq[w])) /\ pc[w] = "pop"
        BY <2>2, <3>1, QueueEnds DEF Pop, Types
      <4> QED BY <1>1, <4>1, TakeKeepsOrder
    <3>2. CASE rq[w] = <<>>
      BY <1>3, <2>2, <3>2 DEF Pop, WorkerPCs
    <3> QED BY <3>1, <3>2
  <2>3. CASE StealRemote(w)
    <3>1. CASE remote_rq[w] # <<>>
      <4>1. Head(remote_rq[w]) \in Tasks /\ Take(w, Head(remote_rq[w])) /\ pc[w] = "steal"
        BY <2>3, <3>1, QueueEnds DEF StealRemote, Types
      <4> QED BY <1>1, <4>1, TakeKeepsOrder
    <3>2. CASE remote_rq[w] = <<>>
      BY <1>3, <2>3, <3>2 DEF StealRemote, WorkerPCs
    <3> QED BY <3>1, <3>2
  <2>4. CASE SaveState(w)
    BY <1>3, <2>4 DEF SaveState, WorkerPCs
  <2>5. CASE Scan(w)
    <3>1. PICK g \in Workers :
             \/ rq[g] # <<>> /\ Stolen(w, Head(rq[g]))
             \/ /\ at' = [at EXCEPT ![w] = g]
                /\ Goto(w, "scan_remote")
                /\ cur' = cur
      BY <2>5 DEF Scan, Types
    <3>2. CASE rq[g] # <<>> /\ Stolen(w, Head(rq[g]))
      <4>1. Head(rq[g]) \in Tasks /\ Take(w, Head(rq[g])) /\ pc[w] = "scan"
        BY <2>5, <3>2, QueueEnds DEF Scan, Stolen, Types
      <4> QED BY <1>1, <4>1, TakeKeepsOrder
    <3>3. CASE /\ at' = [at EXCEPT ![w] = g]
               /\ Goto(w, "scan_remote")
               /\ cur' = cur
      <4>1. pc'[w] = "scan_remote" /\ at'[w] # NULL
        BY <1>1, <3>3, Apart DEF Goto, Types
      <4> QED BY <1>1, <3>3, <4>1 DEF WorkerOK, WorkerPCs
    <3> QED BY <3>1, <3>2, <3>3
  <2>6. CASE ScanRemote(w)
    <3>1. at[w] \in Workers
      BY <1>1, <2>6 DEF ScanRemote, WorkerOK, Types
    <3>2. CASE remote_rq[at[w]] # <<>>
      <4>1. /\ Head(remote_rq[at[w]]) \in Tasks /\ Take(w, Head(remote_rq[at[w]]))
            /\ pc[w] = "scan_remote"
        BY <2>6, <3>1, <3>2, QueueEnds DEF ScanRemote, Stolen, Types
      <4> QED BY <1>1, <4>1, TakeKeepsOrder
    <3>3. CASE remote_rq[at[w]] = <<>>
      BY <1>3, <2>6, <3>3 DEF ScanRemote, WorkerPCs
    <3> QED BY <3>2, <3>3
  <2>7. CASE ScanFails(w)
    <3>1. Take(w, NULL) /\ pc[w] = "scan"
      BY <2>7 DEF ScanFails
    <3> QED BY <1>1, <3>1, TakeKeepsOrder
  <2> QED BY <2>1, <2>2, <2>3, <2>4, <2>5, <2>6, <2>7 DEF LookStep
<1> QED BY <1>2, <1>4 DEF WorkerInv

\* A step of thread a changes nothing in another thread's hands, and where another thread
\* is only when it wakes or starts a worker.
Alone(a) ==
    /\ \A x \in Threads \ {a} :
          /\ args'[x] = args[x] /\ at'[x] = at[x]
          /\ sig'[x] = sig[x] /\ num_task'[x] = num_task[x] /\ nlots'[x] = nlots[x]
    /\ \A x \in Workers \ {a} : cur'[x] = cur[x] /\ scan'[x] = scan[x]
    /\ \A x \in NonWorkers \ {a} : tls_nosignal'[x] = tls_nosignal[x]

PcAlone(a) == \A x \in Threads \ {a} : pc'[x] = pc[x]

\* What never changes in a step of a worker.
WorkerKeeps ==
    /\ control' = control /\ stop' = stop /\ stopped' = stopped /\ lot' = lot
    /\ tls_nosignal' = tls_nosignal

\* The entry of signal_task writes the locals of its caller.
LEMMA SignalTaskAlone ==
    ASSUME Types, NEW a \in Threads, NEW n, signal_task(a, n)
    PROVE  \A x \in Threads \ {a} :
              sig'[x] = sig[x] /\ num_task'[x] = num_task[x] /\ nlots'[x] = nlots[x]
  BY DEF signal_task, Types

\* A worker that looks for a task writes its own locals only.
LEMMA LookAlone ==
    ASSUME Types, NEW w \in Workers, LookStep(w)
    PROVE  Alone(w) /\ PcAlone(w) /\ WorkerKeeps /\ groups' = groups
<1> USE DEF Types, Alone, PcAlone, WorkerKeeps, Goto, controlVars, sigVars, Take
<1>0. w \in Threads
  BY Apart
<1>1. CASE wait_task(w)
  BY <1>0, <1>1 DEF wait_task
<1>2. CASE Pop(w)
  BY <1>0, <1>2 DEF Pop
<1>3. CASE StealRemote(w)
  BY <1>0, <1>3 DEF StealRemote
<1>4. CASE SaveState(w)
  BY <1>0, <1>4 DEF SaveState
<1>5. CASE Scan(w)
  BY <1>0, <1>5 DEF Scan, Stolen
<1>6. CASE ScanRemote(w)
  BY <1>0, <1>6 DEF ScanRemote, Stolen
<1>7. CASE ScanFails(w)
  BY <1>0, <1>7 DEF ScanFails
<1> QED BY <1>1, <1>2, <1>3, <1>4, <1>5, <1>6, <1>7 DEF LookStep

\* The calls of a task write the locals of their worker only.
LEMMA TaskAlone ==
    ASSUME Types, NEW w \in Workers,
           TaskCall(w) \/ FinishTask(w) \/ ready_to_run(w) \/ RqFull(w) \/ _add_group(w)
    PROVE  Alone(w) /\ PcAlone(w) /\ WorkerKeeps /\ at' = at /\ scan' = scan
<1> USE DEF Types, Alone, PcAlone, WorkerKeeps, Goto, controlVars, sigVars, threadVars
<1>0. w \in Threads
  BY Apart
<1>1. ASSUME NEW t \in Tasks, NEW nosignal \in Flags, start_background(w, t, nosignal)
       PROVE  Alone(w) /\ PcAlone(w) /\ WorkerKeeps /\ at' = at /\ scan' = scan
  BY <1>0, <1>1 DEF start_background
<1>2. ASSUME NEW t \in Tasks, NEW nosignal \in Flags, start_foreground(w, t, nosignal)
       PROVE  Alone(w) /\ PcAlone(w) /\ WorkerKeeps /\ at' = at /\ scan' = scan
  BY <1>0, <1>2 DEF start_foreground
<1>3. CASE yield(w)
  BY <1>0, <1>3 DEF yield
<1>4. CASE FinishTask(w)
  BY <1>0, <1>4 DEF FinishTask
<1>5. CASE FlushLocal(w)
  <2>1. \A x \in Threads \ {w} :
           sig'[x] = sig[x] /\ num_task'[x] = num_task[x] /\ nlots'[x] = nlots[x]
    BY <1>0, <1>5, SignalTaskAlone DEF FlushLocal, flush_nosignal_tasks
  <2> QED BY <1>0, <1>5, <2>1 DEF FlushLocal
<1>6. CASE ready_to_run(w)
  <2>1. \A x \in Threads \ {w} :
           sig'[x] = sig[x] /\ num_task'[x] = num_task[x] /\ nlots'[x] = nlots[x]
    BY <1>0, <1>6, SignalTaskAlone DEF ready_to_run
  <2> QED BY <1>0, <1>6, <2>1 DEF ready_to_run
<1>7. CASE RqFull(w)
  <2>1. \A x \in Threads \ {w} :
           sig'[x] = sig[x] /\ num_task'[x] = num_task[x] /\ nlots'[x] = nlots[x]
    BY <1>0, <1>7, SignalTaskAlone DEF RqFull, flush_nosignal_tasks
  <2> QED BY <1>0, <1>7, <2>1 DEF RqFull
<1>8. CASE _add_group(w)
  <2>1. \A x \in Threads \ {w} :
           sig'[x] = sig[x] /\ num_task'[x] = num_task[x] /\ nlots'[x] = nlots[x]
    BY <1>0, <1>8, SignalTaskAlone DEF _add_group
  <2> QED BY <1>0, <1>8, <2>1 DEF _add_group
<1> QED BY <1>1, <1>2, <1>3, <1>4, <1>5, <1>6, <1>7, <1>8 DEF TaskCall

\* signal_task writes the locals of its caller only.
LEMMA SignalAlone ==
    ASSUME Types, NEW a \in Threads, SignalStep(a)
    PROVE  Alone(a) /\ WorkerKeeps /\ groups' = groups /\ args' = args /\ at' = at /\ cur' = cur
           /\ scan' = scan
<1> USE DEF Types, Alone, WorkerKeeps, controlVars, threadVars
<1>1. CASE SignalAdd(a)
  BY <1>1 DEF SignalAdd
<1>2. CASE SignalWake(a)
  <2>1. \A n : SignalNext(a, n) =>
           \A x \in Threads \ {a} :
              sig'[x] = sig[x] /\ num_task'[x] = num_task[x] /\ nlots'[x] = nlots[x]
    BY DEF SignalNext
  <2>2. \E n : SignalNext(a, n)
    BY <1>2 DEF SignalWake
  <2> QED BY <1>2, <2>1, <2>2 DEF SignalWake
<1>3. CASE SignalGrow(a)
  BY <1>3 DEF SignalGrow
<1> QED BY <1>1, <1>2, <1>3 DEF SignalStep

\* The worker that signal_task wakes or adds.
LEMMA SignalMoves ==
    ASSUME Types, NEW a \in Threads, SignalStep(a), NEW x \in Threads, pc'[x] # pc[x]
    PROVE  /\ x \in Workers
           /\ \/ pc[x] = "parked" /\ pc'[x] = "steal"
              \/ pc[x] = "none" /\ pc'[x] = "created"
  BY DEF SignalStep, SignalAdd, SignalWake, SignalGrow, Goto, Parked, threadVars, Types

\* A thread that is no worker writes its own locals only.
LEMMA OtherAlone ==
    ASSUME Types, NEW c \in NonWorkers,
           \/ InitReturns(c) \/ ready_to_run_remote(c) \/ RemoteFull(c)
           \/ bthread_flush(c)
           \/ \E t \in Tasks, nosignal \in Flags : start_from_non_worker(c, t, nosignal)
    PROVE  Alone(c) /\ PcAlone(c) /\ stop' = stop /\ stopped' = stopped /\ lot' = lot
           /\ groups' = groups /\ rq' = rq /\ cur' = cur /\ scan' = scan /\ fresh' = fresh
           /\ saw_stop' = saw_stop
<1> USE DEF Types, Alone, PcAlone, Goto, controlVars, sigVars, threadVars, queueVars, parkVars
<1>0. c \in Threads /\ c \notin Workers
  BY Apart
<1>1. CASE InitReturns(c)
  BY <1>0, <1>1 DEF InitReturns
<1>2. CASE ready_to_run_remote(c)
  <2>1. \A x \in Threads \ {c} :
           sig'[x] = sig[x] /\ num_task'[x] = num_task[x] /\ nlots'[x] = nlots[x]
    BY <1>0, <1>2, SignalTaskAlone DEF ready_to_run_remote
  <2> QED BY <1>0, <1>2, <2>1 DEF ready_to_run_remote
<1>3. CASE RemoteFull(c)
  <2>1. \A x \in Threads \ {c} :
           sig'[x] = sig[x] /\ num_task'[x] = num_task[x] /\ nlots'[x] = nlots[x]
    BY <1>0, <1>3, SignalTaskAlone DEF RemoteFull, flush_nosignal_tasks_remote
  <2> QED BY <1>0, <1>3, <2>1 DEF RemoteFull
<1>4. CASE bthread_flush(c)
  <2>1. \A x \in Threads \ {c} :
           sig'[x] = sig[x] /\ num_task'[x] = num_task[x] /\ nlots'[x] = nlots[x]
    BY <1>0, <1>4, SignalTaskAlone DEF bthread_flush, flush_nosignal_tasks_remote
  <2> QED BY <1>0, <1>4, <2>1 DEF bthread_flush
<1>5. ASSUME NEW t \in Tasks, NEW nosignal \in Flags, start_from_non_worker(c, t, nosignal)
      PROVE  Alone(c) /\ PcAlone(c) /\ stop' = stop /\ stopped' = stopped /\ lot' = lot
             /\ groups' = groups /\ rq' = rq /\ cur' = cur /\ scan' = scan /\ fresh' = fresh
             /\ saw_stop' = saw_stop
  <2>1. /\ \A x \in Threads \ {c} : at'[x] = at[x] /\ pc'[x] = pc[x]
        /\ \A x \in NonWorkers \ {c} : tls_nosignal'[x] = tls_nosignal[x]
    BY <1>0, <1>5, StartShape
  <2>2. \A x \in Threads \ {c} : args'[x] = args[x]
    BY <1>0, <1>5 DEF start_from_non_worker
  <2>3. UNCHANGED <<queueVars, controlVars, parkVars, cur, scan, sigVars>>
    BY <1>5 DEF start_from_non_worker
  <2> QED BY <1>0, <2>1, <2>2, <2>3
<1> QED BY <1>1, <1>2, <1>3, <1>4, <1>5

\* The calls of a task leave the worker with what its next step needs.
LEMMA TaskWorkers ==
    ASSUME Types, WorkerInv, NEW w \in Workers,
           TaskCall(w) \/ FinishTask(w) \/ ready_to_run(w) \/ RqFull(w) \/ _add_group(w)
    PROVE  WorkerInv'
<1>1. w \in Threads /\ WorkerOK(w)
  BY Apart DEF WorkerInv
<1>2. Alone(w) /\ PcAlone(w) /\ at' = at
  BY TaskAlone
<1>3. ASSUME NEW x \in Workers, x # w PROVE WorkerOK(x)'
  <2>1. WorkerOK(x) /\ x \in Threads
    BY Apart DEF WorkerInv
  <2>2. rq'[x] = rq[x]
    <3>1. rq' = rq \/ ready_to_run(w)
      <4>1. TaskCall(w) => rq' = rq
        BY DEF TaskCall, start_background, start_foreground, yield, FlushLocal, queueVars
      <4>2. FinishTask(w) \/ RqFull(w) \/ _add_group(w) => rq' = rq
        BY DEF FinishTask, RqFull, _add_group, queueVars
      <4> QED BY <4>1, <4>2
    <3>2. ready_to_run(w) => rq'[x] = rq[x]
      BY <1>3, <2>1 DEF ready_to_run, Types
    <3> QED BY <3>1, <3>2
  <2> QED BY <1>2, <1>3, <2>1, <2>2, WorkerFrame DEF Alone, PcAlone
<1>4. WorkerOK(w)'
  <2>1. ASSUME NEW t \in Tasks, NEW nosignal \in Flags, start_background(w, t, nosignal)
        PROVE  WorkerOK(w)'
    <3>1. /\ pc'[w] = "push" /\ args'[w] = Args(t, nosignal) /\ cur'[w] = cur[w]
          /\ cur[w] # NULL
      BY <1>1, <2>1 DEF start_background, Running, Goto, WorkerOK, Types
    <3> QED BY <3>1, Apart DEF WorkerOK, WorkerPCs
  <2>2. ASSUME NEW t \in Tasks, NEW nosignal \in Flags, start_foreground(w, t, nosignal)
        PROVE  WorkerOK(w)'
    <3>1. pc'[w] = "push" /\ cur[w] \in Tasks /\ cur'[w] \in {t, cur[w]}
      BY <1>1, <2>2 DEF start_foreground, Running, Goto, WorkerOK, Types
    <3>2. args'[w] = Args(t, nosignal) \/ args'[w] = Args(cur[w], nosignal)
      BY <1>1, <2>2 DEF start_foreground, Types
    <3> QED BY <3>1, <3>2, Apart DEF WorkerOK, WorkerPCs
  <2>3. CASE yield(w)
    <3>1. /\ pc'[w] = "pop" /\ cur[w] \in Tasks /\ cur'[w] = NULL
          /\ args'[w] = Args(cur[w], FALSE)
      BY <1>1, <2>3 DEF yield, Running, Goto, WorkerOK, Types
    <3> QED BY <3>1, Apart DEF WorkerOK, WorkerPCs
  <2>4. CASE FlushLocal(w)
    BY <1>1, <2>4 DEF FlushLocal, Running, WorkerOK, threadVars
  <2>5. CASE FinishTask(w)
    <3>1. /\ pc'[w] = "pop" /\ cur'[w] = NULL /\ args'[w] = NULL
      BY <1>1, <2>5 DEF FinishTask, Running, Goto, WorkerOK, Types
    <3> QED BY <3>1 DEF WorkerOK, WorkerPCs
  <2>6. CASE ready_to_run(w)
    <3>1. /\ cur'[w] = cur[w] /\ args'[w] = NULL
          /\ pc'[w] = IF cur[w] = NULL THEN "wait" ELSE "run"
      BY <1>1, <2>6 DEF ready_to_run, Goto, Types
    <3> QED BY <3>1 DEF WorkerOK, WorkerPCs
  <2>7. CASE RqFull(w)
    BY <1>1, <2>7 DEF RqFull, WorkerOK, threadVars
  <2>8. CASE _add_group(w)
    <3>1. pc'[w] \in {"wait", "exited"} /\ cur'[w] = NULL /\ args'[w] = args[w] /\ cur[w] = NULL
      BY <1>1, <2>8 DEF _add_group, Goto, WorkerOK, Types
    <3> QED BY <1>1, <3>1 DEF WorkerOK, WorkerPCs
  <2> QED BY <2>1, <2>2, <2>3, <2>4, <2>5, <2>6, <2>7, <2>8 DEF TaskCall
<1> QED BY <1>3, <1>4 DEF WorkerInv

\* The steps of the other threads leave what a worker has in hand.
LEMMA OtherWorkers ==
    ASSUME Types, WorkerInv, StartInv, NEW c \in NonWorkers,
           \/ InitReturns(c) \/ ready_to_run_remote(c) \/ RemoteFull(c)
           \/ bthread_flush(c) \/ get_or_new_task_control(c)
           \/ \E t \in Tasks, nosignal \in Flags : start_from_non_worker(c, t, nosignal)
           \/ stop_and_join \/ StopLot
    PROVE  WorkerInv'
<1> SUFFICES ASSUME NEW x \in Workers PROVE WorkerOK(x)'
  BY DEF WorkerInv
<1>1. WorkerOK(x) /\ x \in Threads /\ c \in Threads /\ x # c
  BY Apart DEF WorkerInv
<1>2. CASE get_or_new_task_control(c)
  <2>1. pc[x] = "none" /\ pc'[x] \in {"none", "created"}
    BY <1>1, <1>2 DEF get_or_new_task_control, StartInv, WorkerOK, WorkerPCs
  <2>2. rq' = rq /\ cur' = cur /\ args' = args /\ at' = at /\ sig' = sig
    BY <1>2 DEF get_or_new_task_control, queueVars, sigVars
  <2> QED BY <1>1, <2>1, <2>2 DEF WorkerOK, WorkerPCs, Free
<1>3. CASE StopLot
  <2>1. pc'[x] = pc[x] \/ (pc[x] = "parked" /\ pc'[x] = "steal")
    BY <1>1, <1>3 DEF StopLot
  <2>2. rq' = rq /\ cur' = cur /\ args' = args /\ at' = at /\ sig' = sig
    BY <1>3 DEF StopLot, queueVars, sigVars
  <2> QED BY <1>1, <2>1, <2>2, WorkerWoken, WorkerFrame
<1>4. CASE stop_and_join
  BY <1>1, <1>4, WorkerFrame DEF stop_and_join, queueVars, threadVars, sigVars
<1>5. CASE ~get_or_new_task_control(c) /\ ~StopLot /\ ~stop_and_join
  <2>1. Alone(c) /\ PcAlone(c) /\ rq' = rq /\ cur' = cur
    BY <1>5, OtherAlone
  <2> QED BY <1>1, <2>1, WorkerFrame DEF Alone, PcAlone
<1> QED BY <1>2, <1>3, <1>4, <1>5

\* A step of a worker leaves what the other threads have in hand.
LEMMA WorkerStepAlone ==
    ASSUME Types, NEW w \in Workers, WorkerStep(w) \/ TaskCall(w)
    PROVE  Alone(w) /\ WorkerKeeps
  BY LookAlone, TaskAlone, SignalAlone, Apart DEF WorkerStep

\* A step of a worker leaves the locals of the other threads.
LEMMA WorkerStepNonWorkers ==
    ASSUME Types, NonWorkerInv, NEW w \in Workers, WorkerStep(w) \/ TaskCall(w)
    PROVE  /\ NonWorkerInv' /\ tls_nosignal' = tls_nosignal /\ control' = control
           /\ \A c \in NonWorkers : /\ pc'[c] = pc[c] /\ sig'[c] = sig[c]
                                    /\ args'[c] = args[c] /\ at'[c] = at[c]
<1>1. tls_nosignal' = tls_nosignal /\ control' = control
  BY WorkerStepAlone DEF WorkerKeeps
<1>2. ASSUME NEW c \in NonWorkers
      PROVE  /\ pc'[c] = pc[c] /\ sig'[c] = sig[c]
             /\ args'[c] = args[c] /\ at'[c] = at[c]
  <2>1. c \in Threads \ {w} /\ c \notin Workers /\ w \in Threads
    BY Apart
  <2>2. pc'[c] = pc[c]
    <3>1. CASE LookStep(w)
      BY <2>1, <3>1, LookAlone DEF PcAlone
    <3>2. CASE SignalStep(w)
      BY <2>1, <3>2, SignalMoves
    <3>3. CASE TaskCall(w) \/ FinishTask(w) \/ ready_to_run(w) \/ RqFull(w) \/ _add_group(w)
      BY <2>1, <3>3, TaskAlone DEF PcAlone
    <3> QED BY <3>1, <3>2, <3>3 DEF WorkerStep
  <2> QED BY <2>1, <2>2, WorkerStepAlone DEF Alone
<1> QED BY <1>1, <1>2 DEF NonWorkerInv

\* Signalling from another thread.
LEMMA SignalNonWorkers ==
    ASSUME Types, NonWorkerInv, NEW a \in Threads, SignalStep(a)
    PROVE  NonWorkerInv'
<1> SUFFICES ASSUME NEW c \in NonWorkers
             PROVE  /\ pc'[c] \in NonWorkerPCs \cup {"null_group"}
                    /\ pc'[c] = "push" => args'[c] # NULL /\ at'[c] # NULL
  BY DEF NonWorkerInv
<1>1. c \in Threads /\ c \notin Workers
  BY Apart
<1>2. pc'[c] = pc[c]
  BY <1>1, SignalMoves
<1> QED BY <1>1, <1>2, SignalAlone DEF NonWorkerInv

\* A thread that pushes has a task and a group to push it to.
LEMMA OtherNonWorkers ==
    ASSUME Types, NonWorkerInv, NEW c \in NonWorkers,
           \/ InitReturns(c) \/ ready_to_run_remote(c) \/ RemoteFull(c)
           \/ bthread_flush(c) \/ get_or_new_task_control(c)
           \/ \E t \in Tasks, nosignal \in Flags : start_from_non_worker(c, t, nosignal)
           \/ stop_and_join \/ StopLot
    PROVE  NonWorkerInv'
<1> SUFFICES ASSUME NEW d \in NonWorkers
             PROVE  /\ pc'[d] \in NonWorkerPCs \cup {"null_group"}
                    /\ pc'[d] = "push" => args'[d] # NULL /\ at'[d] # NULL
  BY DEF NonWorkerInv
<1>1. d \in Threads /\ c \in Threads /\ d \notin Workers
  BY Apart
<1>2. CASE get_or_new_task_control(c)
  <2>1. pc'[d] \in {"init", pc[d]} /\ args' = args /\ at' = at
    BY <1>1, <1>2, SchedAssumption DEF get_or_new_task_control
  <2> QED BY <2>1 DEF NonWorkerInv, NonWorkerPCs
<1>3. CASE StopLot
  BY <1>1, <1>3 DEF StopLot, NonWorkerInv
<1>4. CASE stop_and_join
  BY <1>4 DEF stop_and_join, threadVars, NonWorkerInv
<1>5. CASE ~get_or_new_task_control(c) /\ ~StopLot /\ ~stop_and_join
  <2>1. Alone(c) /\ PcAlone(c)
    BY <1>5, OtherAlone
  <2>2. CASE d # c
    BY <1>1, <2>1, <2>2 DEF Alone, PcAlone, NonWorkerInv
  <2>3. CASE InitReturns(c) \/ ready_to_run_remote(c)
    <3>1. pc'[c] = "idle"
      BY <1>1, <2>3 DEF InitReturns, ready_to_run_remote, Goto, Types
    <3>2. CASE d = c
      BY <3>1, <3>2 DEF NonWorkerPCs
    <3> QED BY <2>2, <3>2
  <2>4. CASE RemoteFull(c)
    BY <2>4 DEF RemoteFull, threadVars, NonWorkerInv
  <2>5. CASE bthread_flush(c)
    BY <2>5 DEF bthread_flush, NonWorkerInv
  <2>6. ASSUME NEW t \in Tasks, NEW nosignal \in Flags, start_from_non_worker(c, t, nosignal), d = c
        PROVE  /\ pc'[d] \in NonWorkerPCs \cup {"null_group"}
               /\ pc'[d] = "push" => args'[d] # NULL /\ at'[d] # NULL
    <3>1. Args(t, nosignal) # NULL /\ Args(t, TRUE) # NULL /\ NULL \notin groups
      BY Apart DEF Types
    <3>2. pc'[c] \in {"push", "null_group"}
      BY <1>1, <2>6 DEF start_from_non_worker, Goto, Types
    <3>3. pc'[c] = "push" => args'[c] # NULL /\ at'[c] # NULL
      BY <1>1, <2>6, <3>1 DEF start_from_non_worker, Goto, Types
    <3> QED BY <2>6, <3>2, <3>3 DEF NonWorkerPCs
  <2> QED BY <1>5, <2>2, <2>3, <2>4, <2>5, <2>6
<1> QED BY <1>2, <1>3, <1>4, <1>5

-----------------------------------------------------------------------------
(* Signals and the start                                                   *)

\* signal_task is entered with a task to signal.
LEMMA SignalTaskKeeps ==
    ASSUME Types, SignalInv, NEW a \in Threads, NEW n \in Nat \ {0}, signal_task(a, n)
    PROVE  SignalInv'
<1> SUFFICES ASSUME NEW b \in Threads PROVE sig'[b] \in {"add", "wake"} => num_task'[b] # 0
  BY DEF SignalInv
<1>1. CASE b # a
  BY <1>1, SignalTaskAlone DEF SignalInv
<1>2. CASE b = a
  <2>1. num_task'[a] = IF n > 2 THEN 2 ELSE n
    BY DEF signal_task, Types
  <2> QED BY <1>2, <2>1
<1> QED BY <1>1, <1>2

\* A step that does not touch signal_task.
LEMMA SameSignals ==
    ASSUME SignalInv, UNCHANGED sigVars
    PROVE  SignalInv'
  BY DEF SignalInv, sigVars

\* signal_task goes on only while a task is left to signal.
LEMMA SignalStepKeeps ==
    ASSUME Types, SignalInv, NEW a \in Threads, SignalStep(a)
    PROVE  SignalInv'
<1> SUFFICES ASSUME NEW b \in Threads PROVE sig'[b] \in {"add", "wake"} => num_task'[b] # 0
  BY DEF SignalInv
<1>1. CASE b # a
  BY <1>1, SignalAlone DEF SignalInv, Alone
<1>2. CASE b = a /\ SignalAdd(a)
  <2>1. num_task' = num_task /\ sig[a] = "add"
    BY <1>2 DEF SignalAdd
  <2> QED BY <1>2, <2>1 DEF SignalInv
<1>3. CASE b = a /\ SignalWake(a)
  <2>1. PICK n \in Int : SignalNext(a, n)
    <3>1. num_task[a] \in Int /\ num_task[a] - 1 \in Int
      <4>1. num_task[a] \in 0..2
        BY DEF Types
      <4> QED BY <4>1
    <3>2. SignalNext(a, num_task[a]) \/ SignalNext(a, num_task[a] - 1)
      BY <1>3 DEF SignalWake
    <3> QED BY <3>1, <3>2
  <2>2. CASE n > 0 /\ nlots[a] + 1 < NLots
    BY <1>3, <2>1, <2>2 DEF SignalNext, Types
  <2>3. CASE ~(n > 0 /\ nlots[a] + 1 < NLots)
    <3>1. sig'[a] \in {"none", "grow"}
      BY <2>1, <2>3 DEF SignalNext, Types
    <3> QED BY <1>3, <3>1
  <2> QED BY <2>2, <2>3
<1>4. CASE b = a /\ SignalGrow(a)
  <2>1. sig'[a] = "none"
    BY <1>4 DEF SignalGrow, Types
  <2> QED BY <1>4, <2>1
<1> QED BY <1>1, <1>2, <1>3, <1>4 DEF SignalStep

\* A step of a worker enters signal_task with at least one task.
LEMMA WorkerSignals ==
    ASSUME Types, SignalInv, NEW w \in Workers, WorkerStep(w) \/ TaskCall(w)
    PROVE  SignalInv'
<1>1. w \in Threads /\ num_nosignal[w] \in Nat
  BY Apart DEF Types
<1>2. CASE LookStep(w)
  <2>1. UNCHANGED sigVars
    BY <1>2 DEF LookStep, wait_task, Pop, StealRemote, SaveState, Scan, ScanRemote, ScanFails
  <2> QED BY <2>1, SameSignals
<1>3. CASE SignalStep(w)
  BY <1>1, <1>3, SignalStepKeeps
<1>4. CASE flush_nosignal_tasks(w)
  <2>1. num_nosignal[w] \in Nat \ {0} /\ signal_task(w, num_nosignal[w])
    BY <1>1, <1>4 DEF flush_nosignal_tasks
  <2> QED BY <1>1, <2>1, SignalTaskKeeps
<1>5. CASE _add_group(w)
  <2>1. signal_task(w, 65536) \/ UNCHANGED sigVars
    BY <1>5 DEF _add_group
  <2> QED BY <1>1, <2>1, SignalTaskKeeps, SameSignals
<1>6. CASE ready_to_run(w)
  <2>1. signal_task(w, 1 + num_nosignal[w]) \/ UNCHANGED sigVars
    BY <1>6 DEF ready_to_run
  <2>2. 1 + num_nosignal[w] \in Nat \ {0}
    BY <1>1
  <2> QED BY <1>1, <2>1, <2>2, SignalTaskKeeps, SameSignals
<1>7. CASE FinishTask(w) \/ yield(w)
  BY <1>7, SameSignals DEF FinishTask, yield
<1>8. CASE \E t \in Tasks, nosignal \in Flags :
              start_background(w, t, nosignal) \/ start_foreground(w, t, nosignal)
  <2>1. UNCHANGED sigVars
    BY <1>8 DEF start_background, start_foreground
  <2> QED BY <2>1, SameSignals
<1> QED BY <1>2, <1>3, <1>4, <1>5, <1>6, <1>7, <1>8
        DEF WorkerStep, TaskCall, FlushLocal, RqFull

\* A step of another thread enters signal_task with at least one task.
LEMMA OtherSignals ==
    ASSUME Types, NonWorkerInv, SignalInv, NEW c \in NonWorkers,
           \/ InitReturns(c) \/ ready_to_run_remote(c) \/ RemoteFull(c)
           \/ bthread_flush(c) \/ get_or_new_task_control(c)
           \/ \E t \in Tasks, nosignal \in Flags : start_from_non_worker(c, t, nosignal)
           \/ stop_and_join \/ StopLot
    PROVE  SignalInv'
<1>1. c \in Threads
  BY Apart
<1>2. ASSUME NEW g \in Workers, flush_nosignal_tasks_remote(c, g) PROVE SignalInv'
  <2>1. remote_num_nosignal[g] \in Nat \ {0} /\ signal_task(c, remote_num_nosignal[g])
    BY <1>2 DEF flush_nosignal_tasks_remote, Types
  <2> QED BY <1>1, <2>1, SignalTaskKeeps
<1>3. CASE ready_to_run_remote(c)
  <2>1. at[c] \in Workers
    BY <1>1, <1>3 DEF ready_to_run_remote, NonWorkerInv, Types
  <2>2. signal_task(c, 1 + remote_num_nosignal[at[c]]) \/ UNCHANGED sigVars
    BY <1>3 DEF ready_to_run_remote
  <2>3. 1 + remote_num_nosignal[at[c]] \in Nat \ {0}
    BY <2>1 DEF Types
  <2> QED BY <1>1, <2>2, <2>3, SignalTaskKeeps, SameSignals
<1>4. CASE RemoteFull(c)
  <2>1. at[c] \in Workers
    BY <1>1, <1>4 DEF RemoteFull, NonWorkerInv, Types
  <2> QED BY <1>2, <1>4, <2>1 DEF RemoteFull
<1>5. CASE bthread_flush(c)
  <2>1. tls_nosignal[c] \in Workers
    BY <1>5 DEF bthread_flush, Types
  <2> QED BY <1>2, <1>5, <2>1, SameSignals DEF bthread_flush
<1>6. CASE InitReturns(c) \/ get_or_new_task_control(c) \/ stop_and_join \/ StopLot
  <2>1. UNCHANGED sigVars
    BY <1>6 DEF InitReturns, get_or_new_task_control, stop_and_join, StopLot
  <2> QED BY <2>1, SameSignals
<1>7. CASE \E t \in Tasks, nosignal \in Flags : start_from_non_worker(c, t, nosignal)
  <2>1. UNCHANGED sigVars
    BY <1>7 DEF start_from_non_worker
  <2> QED BY <2>1, SameSignals
<1> QED BY <1>3, <1>4, <1>5, <1>6, <1>7

\* Once the first caller has the mutex, the control is there when it gives it back.
LEMMA StartedStays ==
    ASSUME control \/ ControlLocked, control' = control,
           \A c \in NonWorkers : pc[c] = "init" => pc'[c] = "init"
    PROVE  StartInv'
  BY DEF StartInv, ControlLocked

\* No worker steps before the control is being made.
LEMMA WorkerStarted ==
    ASSUME Types, WorkerInv, NonWorkerInv, StartInv, NEW w \in Workers,
           WorkerStep(w) \/ TaskCall(w)
    PROVE  StartInv'
<1>1. w \in Threads /\ pc[w] \in WorkerPCs
  BY Apart DEF WorkerInv, WorkerOK
<1>2. pc[w] # "none" \/ ~Free(w)
  <2>1. LookStep(w) => pc[w] # "none"
    BY DEF LookStep, wait_task, Pop, StealRemote, SaveState, Scan, ScanRemote, ScanFails
  <2>2. SignalStep(w) => ~Free(w)
    BY DEF SignalStep, SignalAdd, SignalWake, SignalGrow, Free
  <2>3. TaskCall(w) \/ FinishTask(w) => pc[w] = "run"
    BY DEF TaskCall, start_background, start_foreground, yield, FlushLocal, FinishTask, Running
  <2>4. ready_to_run(w) \/ RqFull(w) \/ _add_group(w) => pc[w] \in {"push", "created"}
    BY DEF ready_to_run, RqFull, _add_group
  <2> QED BY <2>1, <2>2, <2>3, <2>4 DEF WorkerStep
<1>3. control \/ ControlLocked
  BY <1>1, <1>2 DEF StartInv, WorkerPCs
<1> QED BY <1>3, StartedStays, WorkerStepNonWorkers

\* Another thread starts with g_task_control_mutex, or finds the control made.
LEMMA OtherStarted ==
    ASSUME Types, NonWorkerInv, StartInv, NEW c \in NonWorkers,
           \/ InitReturns(c) \/ ready_to_run_remote(c) \/ RemoteFull(c)
           \/ bthread_flush(c) \/ get_or_new_task_control(c)
           \/ \E t \in Tasks, nosignal \in Flags : start_from_non_worker(c, t, nosignal)
           \/ stop_and_join \/ StopLot \/ SignalStep(c)
    PROVE  StartInv'
<1>1. c \in Threads /\ c \notin Workers /\ c \notin InitialWorkers
  BY Apart, SchedAssumption
<1>2. CASE InitReturns(c)
  BY <1>2 DEF InitReturns, StartInv
<1>3. CASE get_or_new_task_control(c)
  <2>1. pc'[c] = "init"
    BY <1>1, <1>3 DEF get_or_new_task_control
  <2> QED BY <2>1 DEF StartInv, ControlLocked
<1>4. CASE stop_and_join
  BY <1>4 DEF stop_and_join, StartInv
<1>5. CASE StopLot
  <2>1. control' = control /\ tls_nosignal' = tls_nosignal /\ sig' = sig
    BY <1>5 DEF StopLot, sigVars
  <2>2. \A d \in NonWorkers : pc'[d] = pc[d]
    BY <1>5, Apart DEF StopLot
  <2>3. CASE control \/ ControlLocked
    BY <2>1, <2>2, <2>3, StartedStays
  <2>4. CASE ~(control \/ ControlLocked)
    <3>1. \A a \in Threads : pc'[a] = pc[a]
      BY <1>5, <2>4 DEF StopLot, StartInv
    <3> QED BY <2>1, <2>4, <3>1 DEF StartInv, Free
  <2> QED BY <2>3, <2>4
<1>6. CASE ready_to_run_remote(c) \/ RemoteFull(c) \/ bthread_flush(c) \/ SignalStep(c)
           \/ \E t \in Tasks, nosignal \in Flags : start_from_non_worker(c, t, nosignal)
  <2>1. control' = control /\ (pc[c] = "push" \/ ~Free(c) \/ control \/ tls_nosignal[c] # NULL)
    BY <1>6 DEF ready_to_run_remote, RemoteFull, bthread_flush, SignalStep, SignalAdd,
       SignalWake, SignalGrow, start_from_non_worker, controlVars, Free
  <2>2. control \/ ControlLocked
    BY <1>1, <2>1 DEF StartInv
  <2>3. \A d \in NonWorkers : pc[d] = "init" => pc'[d] = "init"
    <3> SUFFICES ASSUME NEW d \in NonWorkers, pc[d] = "init" PROVE pc'[d] = "init"
      OBVIOUS
    <3>1. CASE SignalStep(c)
      BY <1>1, <3>1, Apart, SignalMoves
    <3>2. CASE d # c /\ ~SignalStep(c)
      BY <1>6, <3>2, Apart, OtherAlone DEF PcAlone
    <3>3. CASE d = c /\ ~SignalStep(c)
      BY <1>6, <3>3 DEF ready_to_run_remote, RemoteFull, bthread_flush, start_from_non_worker,
         threadVars
    <3> QED BY <3>1, <3>2, <3>3
  <2> QED BY <2>1, <2>2, <2>3, StartedStays
<1> QED BY <1>2, <1>3, <1>4, <1>5, <1>6

-----------------------------------------------------------------------------
(* A tid is in one place                                                   *)

QueuesOnce == \A w \in Workers : IsInjective(rq[w]) /\ IsInjective(remote_rq[w])

\* No tid comes to a new place.
LEMMA NoMove ==
    ASSUME PlaceInv, QueuesOnce',
           \A k \in Kinds, a \in Threads, t \in Tasks : Has(k, a, t)' => Has(k, a, t)
    PROVE  PlaceInv'
  BY DEF PlaceInv, QueuesOnce

\* One tid comes to a new place and is nowhere else.
LEMMA OneMove ==
    ASSUME PlaceInv, QueuesOnce', NEW t \in Tasks, NEW l \in Kinds, NEW b \in Threads,
           \A k \in Kinds, a \in Threads, x \in Tasks :
              Has(k, a, x)' => \/ x # t /\ Has(k, a, x)
                               \/ x = t /\ k = l /\ a = b
    PROVE  PlaceInv'
<1> SUFFICES ASSUME NEW k1 \in Kinds, NEW k2 \in Kinds, NEW a1 \in Threads, NEW a2 \in Threads,
                    NEW x \in Tasks, Has(k1, a1, x)', Has(k2, a2, x)'
             PROVE  k1 = k2 /\ a1 = a2
  BY DEF PlaceInv, QueuesOnce
<1>1. CASE x = t
  BY <1>1
<1>2. CASE x # t
  BY <1>2 DEF PlaceInv
<1> QED BY <1>1, <1>2

\* Nothing moves.
LEMMA SamePlaces ==
    ASSUME PlaceInv, rq' = rq, remote_rq' = remote_rq, cur' = cur, args' = args
    PROVE  PlaceInv'
  BY DEF PlaceInv, Has

\* A worker leaves its task.
LEMMA TaskLeft ==
    ASSUME Types, PlaceInv, NEW w \in Workers, rq' = rq, remote_rq' = remote_rq,
           cur' = [cur EXCEPT ![w] = NULL], args' = args
    PROVE  PlaceInv'
<1>1. QueuesOnce'
  BY DEF PlaceInv, QueuesOnce
<1>2. \A k \in Kinds, a \in Threads, t \in Tasks : Has(k, a, t)' => Has(k, a, t)
  BY Apart DEF Has, Types
<1> QED BY <1>1, <1>2, NoMove

\* A worker takes a tid from a local queue ...
LEMMA TakenFromRq ==
    ASSUME Types, PlaceInv, NEW w \in Workers, NEW g \in Workers, NEW t \in Range(rq[g]),
           NEW q \in Seq(Tasks), IsInjective(q), Range(q) = Range(rq[g]) \ {t}, t \in Tasks,
           rq' = [rq EXCEPT ![g] = q], remote_rq' = remote_rq,
           cur' = [cur EXCEPT ![w] = t], args' = args
    PROVE  PlaceInv'
<1>1. QueuesOnce'
  BY DEF PlaceInv, QueuesOnce, Types
<1>2. Has("rq", g, t) /\ g \in Threads /\ w \in Threads /\ "rq" \in Kinds /\ "cur" \in Kinds
  BY Apart DEF Has, Kinds
<1>3. \A k \in Kinds, a \in Threads : Has(k, a, t) => k = "rq" /\ a = g
  BY <1>2 DEF PlaceInv
<1>4. ASSUME NEW k \in Kinds, NEW a \in Threads, NEW x \in Tasks, Has(k, a, x)'
      PROVE  \/ x # t /\ Has(k, a, x)
             \/ x = t /\ k = "cur" /\ a = w
  <2>1. CASE k = "rq"
    <3>1. a \in Workers /\ x \in Range(rq'[a])
      BY <1>4, <2>1 DEF Has
    <3>2. CASE a = g
      <4>1. x \in Range(q)
        BY <3>1, <3>2 DEF Types
      <4> QED BY <2>1, <3>1, <3>2, <4>1 DEF Has
    <3>3. CASE a # g
      <4>1. rq'[a] = rq[a]
        BY <3>1, <3>3 DEF Types
      <4>2. Has(k, a, x)
        BY <2>1, <3>1, <4>1 DEF Has
      <4> QED BY <1>3, <3>3, <4>2
    <3> QED BY <3>2, <3>3
  <2>2. CASE k = "remote"
    <3>1. Has(k, a, x)
      BY <1>4, <2>2 DEF Has
    <3> QED BY <1>3, <2>2, <3>1
  <2>3. CASE k = "cur"
    <3>1. a \in Workers /\ x = cur'[a]
      BY <1>4, <2>3 DEF Has
    <3>2. CASE a = w
      BY <2>3, <3>1, <3>2 DEF Types
    <3>3. CASE a # w
      <4>1. Has(k, a, x)
        BY <2>3, <3>1, <3>3 DEF Has, Types
      <4> QED BY <1>3, <2>3, <4>1
    <3> QED BY <3>2, <3>3
  <2>4. CASE k = "args"
    <3>1. Has(k, a, x)
      BY <1>4, <2>4 DEF Has
    <3> QED BY <1>3, <2>4, <3>1
  <2> QED BY <2>1, <2>2, <2>3, <2>4 DEF Kinds
<1> QED BY <1>1, <1>2, <1>4, OneMove

\* ... or from a remote queue.
LEMMA TakenFromRemote ==
    ASSUME Types, PlaceInv, NEW w \in Workers, NEW g \in Workers, NEW t \in Range(remote_rq[g]),
           NEW q \in Seq(Tasks), IsInjective(q), Range(q) = Range(remote_rq[g]) \ {t}, t \in Tasks,
           remote_rq' = [remote_rq EXCEPT ![g] = q], rq' = rq,
           cur' = [cur EXCEPT ![w] = t], args' = args
    PROVE  PlaceInv'
<1>1. QueuesOnce'
  BY DEF PlaceInv, QueuesOnce, Types
<1>2. Has("remote", g, t) /\ g \in Threads /\ w \in Threads /\ "remote" \in Kinds /\ "cur" \in Kinds
  BY Apart DEF Has, Kinds
<1>3. \A k \in Kinds, a \in Threads : Has(k, a, t) => k = "remote" /\ a = g
  BY <1>2 DEF PlaceInv
<1>4. ASSUME NEW k \in Kinds, NEW a \in Threads, NEW x \in Tasks, Has(k, a, x)'
      PROVE  \/ x # t /\ Has(k, a, x)
             \/ x = t /\ k = "cur" /\ a = w
  <2>1. CASE k = "remote"
    <3>1. a \in Workers /\ x \in Range(remote_rq'[a])
      BY <1>4, <2>1 DEF Has
    <3>2. CASE a = g
      <4>1. x \in Range(q)
        BY <3>1, <3>2 DEF Types
      <4> QED BY <2>1, <3>1, <3>2, <4>1 DEF Has
    <3>3. CASE a # g
      <4>1. remote_rq'[a] = remote_rq[a]
        BY <3>1, <3>3 DEF Types
      <4>2. Has(k, a, x)
        BY <2>1, <3>1, <4>1 DEF Has
      <4> QED BY <1>3, <3>3, <4>2
    <3> QED BY <3>2, <3>3
  <2>2. CASE k = "rq"
    <3>1. Has(k, a, x)
      BY <1>4, <2>2 DEF Has
    <3> QED BY <1>3, <2>2, <3>1
  <2>3. CASE k = "cur"
    <3>1. a \in Workers /\ x = cur'[a]
      BY <1>4, <2>3 DEF Has
    <3>2. CASE a = w
      BY <2>3, <3>1, <3>2 DEF Types
    <3>3. CASE a # w
      <4>1. Has(k, a, x)
        BY <2>3, <3>1, <3>3 DEF Has, Types
      <4> QED BY <1>3, <2>3, <4>1
    <3> QED BY <3>2, <3>3
  <2>4. CASE k = "args"
    <3>1. Has(k, a, x)
      BY <1>4, <2>4 DEF Has
    <3> QED BY <1>3, <2>4, <3>1
  <2> QED BY <2>1, <2>2, <2>3, <2>4 DEF Kinds
<1> QED BY <1>1, <1>2, <1>4, OneMove

\* steal_task and the pops take a tid out of its queue into the hand of the worker.
LEMMA LookPlaces ==
    ASSUME Types, WorkerInv, PlaceInv, NEW w \in Workers, LookStep(w)
    PROVE  PlaceInv'
<1>1. args' = args /\ w \in Threads
  BY Apart DEF LookStep, wait_task, Pop, StealRemote, SaveState, Scan, ScanRemote, ScanFails
<1>2. ASSUME NEW g \in Workers, rq[g] # <<>>
      PROVE  /\ Head(rq[g]) \in Tasks /\ Head(rq[g]) \in Range(rq[g])
             /\ Tail(rq[g]) \in Seq(Tasks) /\ IsInjective(Tail(rq[g]))
             /\ Range(Tail(rq[g])) = Range(rq[g]) \ {Head(rq[g])}
             /\ Last(rq[g]) \in Tasks /\ Last(rq[g]) \in Range(rq[g])
             /\ Front(rq[g]) \in Seq(Tasks) /\ IsInjective(Front(rq[g]))
             /\ Range(Front(rq[g])) = Range(rq[g]) \ {Last(rq[g])}
  <2>1. rq[g] \in Seq(Tasks) /\ IsInjective(rq[g])
    BY DEF Types, PlaceInv
  <2> QED BY <1>2, <2>1, QueueEnds, TailRange, FrontRange, SmallRange
<1>3. ASSUME NEW g \in Workers, remote_rq[g] # <<>>
      PROVE  /\ Head(remote_rq[g]) \in Tasks /\ Head(remote_rq[g]) \in Range(remote_rq[g])
             /\ Tail(remote_rq[g]) \in Seq(Tasks) /\ IsInjective(Tail(remote_rq[g]))
             /\ Range(Tail(remote_rq[g])) = Range(remote_rq[g]) \ {Head(remote_rq[g])}
  <2>1. remote_rq[g] \in Seq(Tasks) /\ IsInjective(remote_rq[g])
    BY DEF Types, PlaceInv
  <2> QED BY <1>3, <2>1, QueueEnds, TailRange, SmallRange
<1>4. CASE wait_task(w) \/ SaveState(w)
  BY <1>1, <1>4, SamePlaces DEF wait_task, SaveState, queueVars
<1>5. CASE ScanFails(w)
  BY <1>1, <1>5, TaskLeft DEF ScanFails, Take, queueVars
<1>6. CASE Pop(w)
  <2>1. CASE rq[w] # <<>>
    <3>1. /\ rq' = [rq EXCEPT ![w] = Front(rq[w])] /\ remote_rq' = remote_rq
          /\ cur' = [cur EXCEPT ![w] = Last(rq[w])]
      BY <1>6, <2>1 DEF Pop, Take
    <3> QED BY <1>1, <1>2, <2>1, <3>1, TakenFromRq
  <2>2. CASE rq[w] = <<>>
    BY <1>1, <1>6, <2>2, SamePlaces DEF Pop
  <2> QED BY <2>1, <2>2
<1>7. CASE StealRemote(w)
  <2>1. CASE remote_rq[w] # <<>>
    <3>1. /\ remote_rq' = [remote_rq EXCEPT ![w] = Tail(remote_rq[w])] /\ rq' = rq
          /\ cur' = [cur EXCEPT ![w] = Head(remote_rq[w])]
      BY <1>7, <2>1 DEF StealRemote, Take
    <3> QED BY <1>1, <1>3, <2>1, <3>1, TakenFromRemote
  <2>2. CASE remote_rq[w] = <<>>
    BY <1>1, <1>7, <2>2, SamePlaces DEF StealRemote
  <2> QED BY <2>1, <2>2
<1>8. CASE Scan(w)
  <2>1. remote_rq' = remote_rq
    BY <1>8 DEF Scan
  <2>2. PICK g \in Workers :
           \/ /\ rq[g] # <<>>
              /\ rq' = [rq EXCEPT ![g] = Tail(rq[g])]
              /\ cur' = [cur EXCEPT ![w] = Head(rq[g])]
           \/ UNCHANGED <<rq, cur>>
    BY <1>8 DEF Scan, Stolen, Take, Types
  <2>3. CASE UNCHANGED <<rq, cur>>
    BY <1>1, <2>1, <2>3, SamePlaces
  <2>4. CASE /\ rq[g] # <<>>
             /\ rq' = [rq EXCEPT ![g] = Tail(rq[g])]
             /\ cur' = [cur EXCEPT ![w] = Head(rq[g])]
    BY <1>1, <1>2, <2>1, <2>4, TakenFromRq
  <2> QED BY <2>2, <2>3, <2>4
<1>9. CASE ScanRemote(w)
  <2>1. at[w] \in Workers
    BY <1>1, <1>9 DEF ScanRemote, WorkerInv, WorkerOK, Types
  <2>2. CASE remote_rq[at[w]] # <<>>
    <3>1. /\ remote_rq' = [remote_rq EXCEPT ![at[w]] = Tail(remote_rq[at[w]])] /\ rq' = rq
          /\ cur' = [cur EXCEPT ![w] = Head(remote_rq[at[w]])]
      BY <1>9, <2>2 DEF ScanRemote, Stolen, Take
    <3> QED BY <1>1, <1>3, <2>1, <2>2, <3>1, TakenFromRemote
  <2>3. CASE remote_rq[at[w]] = <<>>
    BY <1>1, <1>9, <2>3, SamePlaces DEF ScanRemote
  <2> QED BY <2>2, <2>3
<1> QED BY <1>4, <1>5, <1>6, <1>7, <1>8, <1>9 DEF LookStep

\* A tid that is nowhere, or that its worker leaves, is to be pushed by thread a.
LEMMA Handed ==
    ASSUME Types, PlaceInv, NEW a \in Threads, NEW t \in Tasks, NEW n \in BOOLEAN,
           rq' = rq, remote_rq' = remote_rq, args' = [args EXCEPT ![a] = Args(t, n)],
           \/ cur' = cur /\ \A k \in Kinds, b \in Threads : ~Has(k, b, t)
           \/ a \in Workers /\ cur[a] = t /\ cur' = [cur EXCEPT ![a] = NULL]
    PROVE  PlaceInv'
<1>1. QueuesOnce'
  BY DEF PlaceInv, QueuesOnce
<1>2. "args" \in Kinds /\ "cur" \in Kinds
  BY DEF Kinds
<1>3. \A k \in Kinds, b \in Threads :
         Has(k, b, t) => k = "cur" /\ b = a /\ cur' = [cur EXCEPT ![a] = NULL]
  <2>1. CASE cur' = cur /\ \A k \in Kinds, b \in Threads : ~Has(k, b, t)
    BY <2>1
  <2>2. CASE a \in Workers /\ cur[a] = t /\ cur' = [cur EXCEPT ![a] = NULL]
    <3>1. Has("cur", a, t)
      BY <2>2 DEF Has
    <3> QED BY <1>2, <2>2, <3>1 DEF PlaceInv
  <2> QED BY <2>1, <2>2
<1>4. ASSUME NEW k \in Kinds, NEW b \in Threads, NEW x \in Tasks, Has(k, b, x)'
      PROVE  \/ x # t /\ Has(k, b, x)
             \/ x = t /\ k = "args" /\ b = a
  <2>1. CASE k = "args" /\ b = a
    <3>1. x = Args(t, n).task
      BY <1>4, <2>1 DEF Has, Types
    <3> QED BY <2>1, <3>1, Apart
  <2>2. CASE k = "args" /\ b # a
    <3>1. Has(k, b, x)
      BY <1>4, <2>2 DEF Has, Types
    <3> QED BY <1>3, <2>2, <3>1
  <2>3. CASE k \in {"rq", "remote"}
    <3>1. Has(k, b, x)
      BY <1>4, <2>3 DEF Has
    <3> QED BY <1>3, <2>3, <3>1
  <2>4. CASE k = "cur"
    <3>1. b \in Workers /\ x = cur'[b]
      BY <1>4, <2>4 DEF Has
    <3>2. CASE cur' = cur
      <4>1. Has(k, b, x)
        BY <2>4, <3>1, <3>2 DEF Has
      <4>2. CASE x # t
        BY <4>1, <4>2
      <4>3. CASE x = t
        <5>1. b = a /\ cur' = [cur EXCEPT ![a] = NULL]
          BY <1>3, <4>1, <4>3
        <5> QED BY <3>1, <5>1, Apart DEF Types
      <4> QED BY <4>2, <4>3
    <3>3. CASE cur' = [cur EXCEPT ![a] = NULL] /\ a \in Workers
      <4>1. b # a /\ Has(k, b, x)
        BY <2>4, <3>1, <3>3, Apart DEF Has, Types
      <4> QED BY <1>3, <4>1
    <3> QED BY <3>2, <3>3
  <2> QED BY <2>1, <2>2, <2>3, <2>4 DEF Kinds
<1> QED BY <1>1, <1>2, <1>4, OneMove

\* A worker switches to a new task and its old one is to be pushed.
LEMMA Swapped ==
    ASSUME Types, PlaceInv, NEW w \in Workers, NEW t \in Tasks, NEW n \in BOOLEAN,
           cur[w] \in Tasks, rq' = rq, remote_rq' = remote_rq,
           args' = [args EXCEPT ![w] = Args(cur[w], n)], cur' = [cur EXCEPT ![w] = t],
           \A k \in Kinds, b \in Threads : ~Has(k, b, t)
    PROVE  PlaceInv'
<1>1. QueuesOnce'
  BY DEF PlaceInv, QueuesOnce
<1>2. w \in Threads /\ "cur" \in Kinds /\ Has("cur", w, cur[w])
  BY Apart DEF Has, Kinds
<1>3. \A k \in Kinds, b \in Threads : Has(k, b, cur[w]) => k = "cur" /\ b = w
  BY <1>2 DEF PlaceInv
<1>4. t # cur[w]
  BY <1>2
<1>5. ASSUME NEW k \in Kinds, NEW b \in Threads, NEW x \in Tasks, Has(k, b, x)'
      PROVE  \/ x # t /\ x # cur[w] /\ Has(k, b, x)
             \/ x = t /\ k = "cur" /\ b = w
             \/ x = cur[w] /\ k = "args" /\ b = w
  <2>1. CASE k = "args" /\ b = w
    <3>1. x = Args(cur[w], n).task
      BY <1>2, <1>5, <2>1 DEF Has, Types
    <3> QED BY <2>1, <3>1, Apart
  <2>2. CASE k = "cur" /\ b = w
    BY <1>5, <2>2 DEF Has, Types
  <2>3. CASE ~(k \in {"args", "cur"} /\ b = w)
    <3>1. Has(k, b, x)
      BY <1>5, <2>3 DEF Has, Types
    <3>2. k # "cur" \/ b # w
      BY <2>3
    <3> QED BY <1>3, <3>1, <3>2
  <2> QED BY <2>1, <2>2, <2>3
<1> SUFFICES ASSUME NEW k1 \in Kinds, NEW k2 \in Kinds, NEW a1 \in Threads, NEW a2 \in Threads,
                    NEW x \in Tasks, Has(k1, a1, x)', Has(k2, a2, x)'
             PROVE  k1 = k2 /\ a1 = a2
  BY <1>1 DEF PlaceInv, QueuesOnce
<1>6. CASE x # t /\ x # cur[w]
  <2>1. Has(k1, a1, x) /\ Has(k2, a2, x)
    BY <1>5, <1>6
  <2> QED BY <2>1 DEF PlaceInv
<1>7. CASE x = t
  BY <1>4, <1>5, <1>7
<1>8. CASE x = cur[w]
  BY <1>4, <1>5, <1>8
<1> QED BY <1>6, <1>7, <1>8

\* A tid that a thread had to push is in a local queue ...
LEMMA PushedToRq ==
    ASSUME Types, PlaceInv, NEW a \in Threads, NEW g \in Workers, args[a] # NULL,
           rq' = [rq EXCEPT ![g] = Append(@, args[a].task)], remote_rq' = remote_rq,
           cur' = cur, args' = [args EXCEPT ![a] = NULL]
    PROVE  PlaceInv'
<1>1. PICK t \in Tasks : t = args[a].task
  BY DEF Types
<1>2. Has("args", a, t) /\ "args" \in Kinds /\ "rq" \in Kinds /\ g \in Threads
  BY <1>1, Apart DEF Has, Kinds
<1>3. \A k \in Kinds, b \in Threads : Has(k, b, t) => k = "args" /\ b = a
  BY <1>2 DEF PlaceInv
<1>4. t \notin Range(rq[g])
  <2>1. t \in Range(rq[g]) => Has("rq", g, t)
    BY DEF Has
  <2> QED BY <1>2, <1>3, <2>1
<1>5. rq[g] \in Seq(Tasks) /\ IsInjective(rq[g]) /\ rq'[g] = Append(rq[g], t)
  BY <1>1 DEF Types, PlaceInv
<1>6. IsInjective(rq'[g]) /\ Range(rq'[g]) = Range(rq[g]) \cup {t}
  BY <1>4, <1>5, AppendRange
<1>7. QueuesOnce'
  BY <1>6 DEF PlaceInv, QueuesOnce, Types
<1>8. ASSUME NEW k \in Kinds, NEW b \in Threads, NEW x \in Tasks, Has(k, b, x)'
      PROVE  \/ x # t /\ Has(k, b, x)
             \/ x = t /\ k = "rq" /\ b = g
  <2>1. CASE k = "rq" /\ b = g
    BY <1>6, <1>8, <2>1 DEF Has
  <2>2. CASE k = "args"
    <3>1. b # a /\ Has(k, b, x)
      BY <1>8, <2>2 DEF Has, Types
    <3> QED BY <1>3, <3>1
  <2>3. CASE k # "args" /\ ~(k = "rq" /\ b = g)
    <3>1. Has(k, b, x)
      BY <1>8, <2>3 DEF Has, Types
    <3> QED BY <1>3, <2>3, <3>1
  <2> QED BY <2>1, <2>2, <2>3
<1> QED BY <1>2, <1>7, <1>8, OneMove

\* ... or in a remote queue.
LEMMA PushedToRemote ==
    ASSUME Types, PlaceInv, NEW a \in Threads, NEW g \in Workers, args[a] # NULL,
           remote_rq' = [remote_rq EXCEPT ![g] = Append(@, args[a].task)], rq' = rq,
           cur' = cur, args' = [args EXCEPT ![a] = NULL]
    PROVE  PlaceInv'
<1>1. PICK t \in Tasks : t = args[a].task
  BY DEF Types
<1>2. Has("args", a, t) /\ "args" \in Kinds /\ "remote" \in Kinds /\ g \in Threads
  BY <1>1, Apart DEF Has, Kinds
<1>3. \A k \in Kinds, b \in Threads : Has(k, b, t) => k = "args" /\ b = a
  BY <1>2 DEF PlaceInv
<1>4. t \notin Range(remote_rq[g])
  <2>1. t \in Range(remote_rq[g]) => Has("remote", g, t)
    BY DEF Has
  <2> QED BY <1>2, <1>3, <2>1
<1>5. /\ remote_rq[g] \in Seq(Tasks) /\ IsInjective(remote_rq[g])
      /\ remote_rq'[g] = Append(remote_rq[g], t)
  BY <1>1 DEF Types, PlaceInv
<1>6. /\ IsInjective(remote_rq'[g])
      /\ Range(remote_rq'[g]) = Range(remote_rq[g]) \cup {t}
  BY <1>4, <1>5, AppendRange
<1>7. QueuesOnce'
  BY <1>6 DEF PlaceInv, QueuesOnce, Types
<1>8. ASSUME NEW k \in Kinds, NEW b \in Threads, NEW x \in Tasks, Has(k, b, x)'
      PROVE  \/ x # t /\ Has(k, b, x)
             \/ x = t /\ k = "remote" /\ b = g
  <2>1. CASE k = "remote" /\ b = g
    BY <1>6, <1>8, <2>1 DEF Has
  <2>2. CASE k = "args"
    <3>1. b # a /\ Has(k, b, x)
      BY <1>8, <2>2 DEF Has, Types
    <3> QED BY <1>3, <3>1
  <2>3. CASE k # "args" /\ ~(k = "remote" /\ b = g)
    <3>1. Has(k, b, x)
      BY <1>8, <2>3 DEF Has, Types
    <3> QED BY <1>3, <2>3, <3>1
  <2> QED BY <2>1, <2>2, <2>3
<1> QED BY <1>2, <1>7, <1>8, OneMove

\* An idle tid is nowhere.
LEMMA IdleNowhere ==
    ASSUME NEW t \in Tasks, Idle(t)
    PROVE  \A k \in Kinds, a \in Threads : ~Has(k, a, t)
  BY DEF Idle, Has

\* A task that starts another, yields or ends leaves each tid in one place.
LEMMA TaskPlaces ==
    ASSUME Types, WorkerInv, PlaceInv, NEW w \in Workers,
           TaskCall(w) \/ FinishTask(w) \/ ready_to_run(w) \/ RqFull(w) \/ _add_group(w)
    PROVE  PlaceInv'
<1>1. w \in Threads /\ WorkerOK(w) /\ FALSE \in BOOLEAN
  BY Apart DEF WorkerInv
<1>2. ASSUME NEW t \in Tasks, NEW nosignal \in Flags, start_background(w, t, nosignal)
      PROVE  PlaceInv'
  <2>1. /\ rq' = rq /\ remote_rq' = remote_rq /\ cur' = cur /\ Idle(t)
        /\ args' = [args EXCEPT ![w] = Args(t, nosignal)]
    BY <1>2 DEF start_background, queueVars
  <2>2. nosignal \in BOOLEAN
    BY Apart
  <2> QED BY <1>1, <2>1, <2>2, IdleNowhere, Handed
<1>3. ASSUME NEW t \in Tasks, NEW nosignal \in Flags, start_foreground(w, t, nosignal)
      PROVE  PlaceInv'
  <2>1. rq' = rq /\ remote_rq' = remote_rq /\ Idle(t) /\ cur[w] \in Tasks
    BY <1>1, <1>3 DEF start_foreground, queueVars, Running, WorkerOK, Types
  <2>2. nosignal \in BOOLEAN /\ \A k \in Kinds, a \in Threads : ~Has(k, a, t)
    BY <2>1, Apart, IdleNowhere
  <2>3. CASE args' = [args EXCEPT ![w] = Args(t, nosignal)] /\ cur' = cur
    BY <1>1, <2>1, <2>2, <2>3, Handed
  <2>4. CASE /\ args' = [args EXCEPT ![w] = Args(cur[w], nosignal)]
             /\ cur' = [cur EXCEPT ![w] = t]
    BY <2>1, <2>2, <2>4, Swapped
  <2> QED BY <1>3, <2>3, <2>4 DEF start_foreground
<1>4. CASE yield(w)
  <2>1. /\ rq' = rq /\ remote_rq' = remote_rq /\ cur[w] \in Tasks
        /\ args' = [args EXCEPT ![w] = Args(cur[w], FALSE)]
        /\ cur' = [cur EXCEPT ![w] = NULL]
    BY <1>1, <1>4 DEF yield, queueVars, Running, WorkerOK, Types
  <2> QED BY <1>1, <2>1, Handed
<1>5. CASE FinishTask(w)
  BY <1>5, TaskLeft DEF FinishTask, queueVars
<1>6. CASE ready_to_run(w)
  <2>1. /\ args[w] # NULL /\ rq' = [rq EXCEPT ![w] = Append(@, args[w].task)]
        /\ remote_rq' = remote_rq /\ cur' = cur /\ args' = [args EXCEPT ![w] = NULL]
    BY <1>1, <1>6 DEF ready_to_run, WorkerOK
  <2> QED BY <1>1, <2>1, PushedToRq
<1>7. CASE FlushLocal(w)
  BY <1>7, SamePlaces DEF FlushLocal, threadVars
<1>8. CASE RqFull(w)
  BY <1>8, SamePlaces DEF RqFull, threadVars
<1>9. CASE _add_group(w)
  BY <1>9, SamePlaces DEF _add_group, queueVars
<1> QED BY <1>2, <1>3, <1>4, <1>5, <1>6, <1>7, <1>8, <1>9 DEF TaskCall

\* start_from_non_worker and ready_to_run_remote move a tid from hand to queue.
LEMMA OtherPlaces ==
    ASSUME Types, NonWorkerInv, PlaceInv, NEW c \in NonWorkers,
           \/ InitReturns(c) \/ ready_to_run_remote(c) \/ RemoteFull(c)
           \/ bthread_flush(c) \/ get_or_new_task_control(c)
           \/ \E t \in Tasks, nosignal \in Flags : start_from_non_worker(c, t, nosignal)
           \/ stop_and_join \/ StopLot
    PROVE  PlaceInv'
<1>1. c \in Threads /\ TRUE \in BOOLEAN
  BY Apart
<1>2. CASE ready_to_run_remote(c)
  <2>1. /\ args[c] # NULL /\ at[c] \in Workers
        /\ remote_rq' = [remote_rq EXCEPT ![at[c]] = Append(@, args[c].task)]
        /\ rq' = rq /\ cur' = cur /\ args' = [args EXCEPT ![c] = NULL]
    BY <1>1, <1>2 DEF ready_to_run_remote, NonWorkerInv, Types
  <2> QED BY <1>1, <2>1, PushedToRemote
<1>3. ASSUME NEW t \in Tasks, NEW nosignal \in Flags, start_from_non_worker(c, t, nosignal)
      PROVE  PlaceInv'
  <2>1. /\ rq' = rq /\ remote_rq' = remote_rq /\ cur' = cur /\ Idle(t)
        /\ \/ args' = args
           \/ \E n \in BOOLEAN : args' = [args EXCEPT ![c] = Args(t, n)]
    BY <1>1, <1>3, Apart DEF start_from_non_worker, queueVars
  <2> QED BY <1>1, <2>1, IdleNowhere, Handed, SamePlaces
<1>4. CASE InitReturns(c)
  BY <1>4, SamePlaces DEF InitReturns, queueVars
<1>5. CASE RemoteFull(c)
  BY <1>5, SamePlaces DEF RemoteFull, threadVars
<1>6. CASE bthread_flush(c)
  BY <1>6, SamePlaces DEF bthread_flush
<1>7. CASE get_or_new_task_control(c)
  BY <1>7, SamePlaces DEF get_or_new_task_control, queueVars
<1>8. CASE stop_and_join
  BY <1>8, SamePlaces DEF stop_and_join, queueVars, threadVars
<1>9. CASE StopLot
  BY <1>9, SamePlaces DEF StopLot, queueVars
<1> QED BY <1>2, <1>3, <1>4, <1>5, <1>6, <1>7, <1>8, <1>9

\* signal_task moves no tid.
LEMMA SignalPlaces ==
    ASSUME PlaceInv, NEW a \in Threads, SignalStep(a)
    PROVE  PlaceInv'
<1>1. rq' = rq /\ remote_rq' = remote_rq /\ cur' = cur /\ args' = args
  BY DEF SignalStep, SignalAdd, SignalWake, SignalGrow, queueVars, threadVars
<1> QED BY <1>1, SamePlaces

-----------------------------------------------------------------------------
(* Groups                                                                  *)

\* Steps that leave the other threads alone and add a group at most.
LEMMA GroupFrame ==
    ASSUME GroupInv, stopped' = stopped, groups \subseteq groups', control' = control,
           \A c \in NonWorkers : pc'[c] = pc[c] /\ at'[c] = at[c] /\ tls_nosignal'[c] = tls_nosignal[c],
           \A w \in Workers :
              /\ ~saw_stop'[w] /\ pc'[w] # "exited"
              /\ w \in groups' <=> pc'[w] \notin {"none", "created"}
              /\ remote_rq'[w] # <<>> => remote_rq[w] # <<>>
    PROVE  GroupInv'
<1>1. stopped' = 0 /\ (control' => groups' # {})
  BY DEF GroupInv
<1>2. \A w \in Workers : remote_rq'[w] # <<>> => w \in groups'
  BY DEF GroupInv
<1>3. \A c \in NonWorkers :
          /\ pc'[c] = "push" => at'[c] \in groups'
          /\ tls_nosignal'[c] # NULL => tls_nosignal'[c] \in groups'
          /\ pc'[c] # "null_group"
  BY DEF GroupInv
<1> QED BY <1>1, <1>2, <1>3 DEF GroupInv

\* Before a stop a worker that looks for a task stays in its group.
LEMMA LookGroups ==
    ASSUME Types, WorkerInv, NonWorkerInv, GroupInv, NEW w \in Workers, LookStep(w)
    PROVE  GroupInv'
<1>1. w \in Threads /\ WorkerOK(w)
  BY Apart DEF WorkerInv
<1>2. Alone(w) /\ PcAlone(w) /\ WorkerKeeps /\ groups' = groups
  BY LookAlone
<1>3. \A c \in NonWorkers : pc'[c] = pc[c] /\ at'[c] = at[c] /\ tls_nosignal'[c] = tls_nosignal[c]
  BY WorkerStepNonWorkers DEF WorkerStep
<1>4. /\ pc[w] \notin {"none", "created"}
      /\ pc'[w] \notin {"none", "created", "exited"}
  <2>1. CASE wait_task(w)
    BY <1>1, <2>1 DEF wait_task, GroupInv, Goto, Types
  <2>2. CASE Pop(w)
    BY <1>1, <2>2 DEF Pop, Take, AfterSwitch, Goto, Types
  <2>3. CASE StealRemote(w)
    BY <1>1, <2>3 DEF StealRemote, Take, AfterSwitch, Goto, Types
  <2>4. CASE SaveState(w)
    BY <1>1, <2>4 DEF SaveState, Goto, Types
  <2>5. CASE Scan(w)
    BY <1>1, <2>5 DEF Scan, Stolen, Take, AfterSwitch, Goto, Types
  <2>6. CASE ScanRemote(w)
    BY <1>1, <2>6 DEF ScanRemote, Stolen, Take, AfterSwitch, Goto, Types
  <2>7. CASE ScanFails(w)
    BY <1>1, <2>7 DEF ScanFails, Take, AfterSwitch, Goto, Types
  <2> QED BY <2>1, <2>2, <2>3, <2>4, <2>5, <2>6, <2>7 DEF LookStep
<1>5. ASSUME NEW x \in Workers
      PROVE  /\ ~saw_stop'[x] /\ pc'[x] # "exited"
             /\ x \in groups' <=> pc'[x] \notin {"none", "created"}
             /\ remote_rq'[x] # <<>> => remote_rq[x] # <<>>
  <2>1. ~saw_stop'[x]
    <3>1. CASE SaveState(w)
      <4>1. saw_stop' = [saw_stop EXCEPT ![w] = lot[w] < 0]
        BY <3>1 DEF SaveState, GroupInv
      <4>2. ~(lot[w] < 0)
        BY <1>1, SchedAssumption DEF Types, Lots
      <4> QED BY <4>1, <4>2 DEF GroupInv, Types
    <3>2. CASE ~SaveState(w)
      <4>1. saw_stop' = saw_stop
        BY <3>2 DEF LookStep, wait_task, Pop, StealRemote, Scan, ScanRemote, ScanFails, parkVars
      <4> QED BY <4>1 DEF GroupInv
    <3> QED BY <3>1, <3>2
  <2>2. pc'[x] # "exited" /\ (x \in groups' <=> pc'[x] \notin {"none", "created"})
    <3>1. CASE x = w
      BY <1>2, <1>4, <3>1 DEF GroupInv
    <3>2. CASE x # w
      BY <1>2, <3>2, Apart DEF GroupInv, PcAlone
    <3> QED BY <3>1, <3>2
  <2>3. remote_rq'[x] # <<>> => remote_rq[x] # <<>>
    <3>1. CASE StealRemote(w)
      BY <3>1 DEF StealRemote, Types
    <3>2. CASE ScanRemote(w)
      BY <3>2 DEF ScanRemote, Types
    <3>3. CASE ~StealRemote(w) /\ ~ScanRemote(w)
      BY <3>3 DEF LookStep, wait_task, Pop, SaveState, Scan, ScanFails, queueVars
    <3> QED BY <3>1, <3>2, <3>3
  <2> QED BY <2>1, <2>2, <2>3
<1> QED BY <1>2, <1>3, <1>5, GroupFrame DEF WorkerKeeps

\* Before a stop a group is added by its own worker and none is removed.
LEMMA TaskGroups ==
    ASSUME Types, WorkerInv, NonWorkerInv, GroupInv, ~stop, NEW w \in Workers,
           TaskCall(w) \/ FinishTask(w) \/ ready_to_run(w) \/ RqFull(w) \/ _add_group(w)
    PROVE  GroupInv'
<1>1. w \in Threads /\ Alone(w) /\ PcAlone(w) /\ WorkerKeeps
  BY Apart, TaskAlone
<1>2. \A c \in NonWorkers : pc'[c] = pc[c] /\ at'[c] = at[c] /\ tls_nosignal'[c] = tls_nosignal[c]
  BY WorkerStepNonWorkers DEF WorkerStep
<1>3. saw_stop' = saw_stop /\ remote_rq' = remote_rq
  <2>1. TaskCall(w) => saw_stop' = saw_stop /\ remote_rq' = remote_rq
    BY DEF TaskCall, start_background, start_foreground, yield, FlushLocal, queueVars, parkVars
  <2>2. FinishTask(w) \/ ready_to_run(w) => saw_stop' = saw_stop /\ remote_rq' = remote_rq
    BY DEF FinishTask, ready_to_run, queueVars, parkVars
  <2>3. RqFull(w) \/ _add_group(w) => saw_stop' = saw_stop /\ remote_rq' = remote_rq
    BY DEF RqFull, _add_group, queueVars, parkVars
  <2> QED BY <2>1, <2>2, <2>3
<1>4. /\ groups \subseteq groups' /\ groups' \subseteq groups \cup {w}
      /\ pc'[w] \notin {"none", "created", "exited"} /\ w \in groups'
  <2>1. CASE _add_group(w)
    BY <1>1, <2>1 DEF _add_group, Goto, Types
  <2>2. groups' = groups /\ pc[w] \in {"run", "push"} /\ pc'[w] \in {"run", "push", "pop", "wait"} =>
           w \in groups'
    BY DEF GroupInv
  <2>3. CASE TaskCall(w)
    <3>1. groups' = groups
      BY <2>3 DEF TaskCall, start_background, start_foreground, yield, FlushLocal, controlVars
    <3>2. pc[w] = "run" /\ pc'[w] \in {"run", "push", "pop", "wait"}
      BY <1>1, <2>3 DEF TaskCall, start_background, start_foreground, yield, FlushLocal, Running,
         threadVars, Goto, Types
    <3> QED BY <2>2, <3>1, <3>2
  <2>4. CASE FinishTask(w) \/ ready_to_run(w) \/ RqFull(w)
    <3>1. groups' = groups
      BY <2>4 DEF FinishTask, ready_to_run, RqFull, controlVars
    <3>2. pc[w] \in {"run", "push"} /\ pc'[w] \in {"run", "push", "pop", "wait"}
      BY <1>1, <2>4 DEF FinishTask, ready_to_run, RqFull, Running, threadVars, Goto, Types
    <3> QED BY <2>2, <3>1, <3>2
  <2> QED BY <2>1, <2>3, <2>4
<1>5. ASSUME NEW x \in Workers
      PROVE  /\ ~saw_stop'[x] /\ pc'[x] # "exited"
             /\ x \in groups' <=> pc'[x] \notin {"none", "created"}
  <2>1. CASE x = w
    BY <1>3, <1>4, <2>1 DEF GroupInv
  <2>2. CASE x # w
    BY <1>1, <1>3, <1>4, <2>2, Apart DEF GroupInv, PcAlone
  <2> QED BY <2>1, <2>2
<1> QED BY <1>1, <1>2, <1>3, <1>4, <1>5, GroupFrame DEF WorkerKeeps

\* signal_task creates a worker thread but not yet its group.
LEMMA SignalGroups ==
    ASSUME Types, GroupInv, NEW a \in Threads, SignalStep(a)
    PROVE  GroupInv'
<1>1. WorkerKeeps /\ groups' = groups /\ at' = at
  BY SignalAlone
<1>2. saw_stop' = saw_stop /\ remote_rq' = remote_rq
  BY DEF SignalStep, SignalAdd, SignalWake, SignalGrow, queueVars, parkVars
<1>3. \A c \in NonWorkers : pc'[c] = pc[c]
  BY SignalMoves, Apart
<1>4. ASSUME NEW x \in Workers
      PROVE  pc'[x] # "exited" /\ (x \in groups' <=> pc'[x] \notin {"none", "created"})
  <2>1. \/ pc'[x] = pc[x]
        \/ pc[x] = "parked" /\ pc'[x] = "steal"
        \/ pc[x] = "none" /\ pc'[x] = "created"
    BY SignalMoves, Apart
  <2> QED BY <1>1, <2>1 DEF GroupInv
<1> QED BY <1>1, <1>2, <1>3, <1>4, GroupFrame DEF WorkerKeeps, GroupInv

\* Before a stop a remote push goes to a group that was added.
LEMMA OtherGroups ==
    ASSUME Types, WorkerInv, NonWorkerInv, StartInv, GroupInv, ~stop, ~stop', NEW c \in NonWorkers,
           \/ InitReturns(c) \/ ready_to_run_remote(c) \/ RemoteFull(c)
           \/ bthread_flush(c) \/ get_or_new_task_control(c)
           \/ \E t \in Tasks, nosignal \in Flags : start_from_non_worker(c, t, nosignal)
           \/ stop_and_join \/ StopLot
    PROVE  GroupInv'
<1>1. c \in Threads /\ c \notin Workers /\ \A x \in Workers : x \in Threads /\ x # c /\ x # NULL
  BY Apart
<1>2. ~stop_and_join /\ ~StopLot
  BY DEF stop_and_join, StopLot
<1>3. CASE get_or_new_task_control(c)
  <2>1. /\ stopped' = stopped /\ groups' = groups /\ control' = control /\ at' = at
        /\ tls_nosignal' = tls_nosignal /\ saw_stop' = saw_stop /\ remote_rq' = remote_rq
    BY <1>3 DEF get_or_new_task_control, controlVars, parkVars, queueVars
  <2>2. ASSUME NEW x \in Workers PROVE pc[x] = "none" /\ pc'[x] \in {"none", "created"}
    BY <1>1, <1>3, <2>2 DEF get_or_new_task_control, StartInv, WorkerInv, WorkerOK, WorkerPCs
  <2>3. ASSUME NEW d \in NonWorkers PROVE pc'[d] \in {"init", pc[d]}
    BY <1>3, <2>3, Apart, SchedAssumption DEF get_or_new_task_control
  <2>4. \A x \in Workers :
          /\ ~saw_stop'[x] /\ pc'[x] # "exited"
          /\ x \in groups' <=> pc'[x] \notin {"none", "created"}
          /\ remote_rq'[x] # <<>> => x \in groups'
    BY <2>1, <2>2 DEF GroupInv
  <2>5. \A d \in NonWorkers :
          /\ pc'[d] = "push" => at'[d] \in groups'
          /\ tls_nosignal'[d] # NULL => tls_nosignal'[d] \in groups'
          /\ pc'[d] # "null_group"
    BY <2>1, <2>3 DEF GroupInv
  <2> QED BY <2>1, <2>4, <2>5 DEF GroupInv
<1>4. CASE ~get_or_new_task_control(c)
  <2>1. /\ Alone(c) /\ PcAlone(c) /\ stopped' = stopped /\ groups' = groups /\ saw_stop' = saw_stop
    BY <1>2, <1>4, OtherAlone
  <2>2. control' => groups' # {}
    BY <1>2, <1>4, <2>1 DEF InitReturns, ready_to_run_remote, RemoteFull, bthread_flush,
       start_from_non_worker, controlVars, GroupInv
  <2>3. ASSUME NEW x \in Workers
        PROVE  /\ ~saw_stop'[x] /\ pc'[x] # "exited"
               /\ x \in groups' <=> pc'[x] \notin {"none", "created"}
    BY <1>1, <2>1 DEF PcAlone, GroupInv
  <2>4. ASSUME NEW x \in Workers, remote_rq'[x] # <<>> PROVE x \in groups'
    <3>1. CASE remote_rq'[x] = remote_rq[x]
      BY <2>1, <2>4, <3>1 DEF GroupInv
    <3>2. CASE ready_to_run_remote(c) /\ x = at[c]
      BY <2>1, <3>2 DEF ready_to_run_remote, GroupInv
    <3>3. CASE ready_to_run_remote(c) /\ x # at[c]
      <4>1. remote_rq'[x] = remote_rq[x]
        BY <3>3 DEF ready_to_run_remote, Types
      <4> QED BY <3>1, <4>1
    <3>4. ~ready_to_run_remote(c) => remote_rq' = remote_rq
      BY <1>2, <1>4 DEF InitReturns, RemoteFull, bthread_flush, start_from_non_worker, queueVars
    <3> QED BY <3>1, <3>2, <3>3, <3>4
  <2>5. ASSUME NEW d \in NonWorkers
        PROVE  /\ pc'[d] = "push" => at'[d] \in groups'
               /\ tls_nosignal'[d] # NULL => tls_nosignal'[d] \in groups'
               /\ pc'[d] # "null_group"
    <3>1. CASE d # c
      BY <2>1, <3>1, Apart DEF Alone, PcAlone, GroupInv
    <3>2. CASE InitReturns(c)
      BY <1>1, <2>1, <3>1, <3>2 DEF InitReturns, Goto, GroupInv, Types
    <3>3. CASE ready_to_run_remote(c)
      BY <1>1, <2>1, <3>1, <3>3 DEF ready_to_run_remote, Goto, GroupInv, Types
    <3>4. CASE RemoteFull(c)
      BY <1>1, <2>1, <3>1, <3>4 DEF RemoteFull, threadVars, GroupInv
    <3>5. CASE bthread_flush(c)
      BY <1>1, <2>1, <3>1, <3>5 DEF bthread_flush, GroupInv, Types
    <3>6. ASSUME NEW t \in Tasks, NEW nosignal \in Flags, start_from_non_worker(c, t, nosignal), d = c
          PROVE  /\ pc'[c] = "push" /\ at'[c] \in groups
                 /\ tls_nosignal'[c] # NULL => tls_nosignal'[c] \in groups
      <4>1. groups # {} /\ (tls_nosignal[c] # NULL => tls_nosignal[c] \in groups)
        BY <3>6 DEF start_from_non_worker, GroupInv
      <4>5. /\ Goto(c, "push")
            /\ \E g \in groups \cup ({tls_nosignal[c]} \ {NULL}) :
                  /\ at' = [at EXCEPT ![c] = g]
                  /\ \E v \in {g, tls_nosignal[c]} :
                        tls_nosignal' = [tls_nosignal EXCEPT ![c] = v]
                        \/ tls_nosignal' = tls_nosignal
        BY <3>6, <4>1, StartShape
      <4>6. PICK g \in groups \cup ({tls_nosignal[c]} \ {NULL}) :
                  /\ at' = [at EXCEPT ![c] = g]
                  /\ \E v \in {g, tls_nosignal[c]} :
                        tls_nosignal' = [tls_nosignal EXCEPT ![c] = v]
                        \/ tls_nosignal' = tls_nosignal
        BY <4>5
      <4>7. PICK v \in {g, tls_nosignal[c]} :
                  tls_nosignal' = [tls_nosignal EXCEPT ![c] = v]
                  \/ tls_nosignal' = tls_nosignal
        BY <4>6
      <4>8. g \in groups /\ (v # NULL => v \in groups)
        BY <4>1, <4>6, <4>7
      <4>2. pc'[c] = "push"
        BY <1>1, <4>5 DEF Goto, Types
      <4>3. at'[c] \in groups
        BY <1>1, <4>6, <4>8 DEF Types
      <4>4. tls_nosignal'[c] # NULL => tls_nosignal'[c] \in groups
        BY <1>1, <4>1, <4>7, <4>8 DEF Types
      <4> QED BY <4>2, <4>3, <4>4
    <3>7. CASE d = c /\ \E t \in Tasks, nosignal \in Flags : start_from_non_worker(c, t, nosignal)
      BY <2>1, <3>6, <3>7
    <3> QED BY <1>2, <1>4, <3>1, <3>2, <3>3, <3>4, <3>5, <3>7
  <2>6. stopped' = 0
    BY <2>1 DEF GroupInv
  <2> QED BY <2>2, <2>3, <2>4, <2>5, <2>6 DEF GroupInv
<1> QED BY <1>3, <1>4

-----------------------------------------------------------------------------
(* The worker's own queue                                                  *)

\* A worker that stands still while its queue gains nothing and its state no waiter.
LEMMA OwnQueueFrame ==
    ASSUME NEW x \in Workers, OwnQueueSeen(x), pc'[x] = pc[x], scan'[x] = scan[x],
           rq[x] = <<>> => rq'[x] = <<>>, ~fresh[x] => ~fresh'[x],
           SignalsOwnLot(x) => SignalsOwnLot(x)' \/ ~fresh'[x]
    PROVE  OwnQueueSeen(x)'
  BY DEF OwnQueueSeen

\* A worker that is somewhere else.
LEMMA OwnQueueElsewhere ==
    ASSUME NEW x \in Workers, pc'[x] \notin {"parked", "wait", "scan", "scan_remote"}
    PROVE  OwnQueueSeen(x)'
  BY DEF OwnQueueSeen

\* A signaller starts with the lot of its own pthread id.
LEMMA OwnLotFirst ==
    ASSUME Types, NEW a \in Threads, nlots[a] = 0
    PROVE  SignalledLot(a) = lot[a]
<1>1. lot[a] \in 0..(NLots - 1) /\ NLots \in Nat \ {0}
  BY SchedAssumption DEF Types, Lots
<1>2. (lot[a] + 0) % NLots = lot[a]
  BY <1>1
<1> QED BY <1>2 DEF SignalledLot

\* Marking a lot only makes saved states stale, and that of the signaller first.
LEMMA AddIsSeen ==
    ASSUME Types, NEW a \in Threads, SignalAdd(a), NEW x \in Workers
    PROVE  /\ ~fresh[x] => ~fresh'[x]
           /\ lot[x] = SignalledLot(a) => ~fresh'[x]
           /\ SignalsOwnLot(x) => SignalsOwnLot(x)' \/ ~fresh'[x]
<1>1. x \in Threads /\ fresh'[x] = (fresh[x] /\ lot[x] # SignalledLot(a))
  BY Apart DEF SignalAdd, Types
<1>2. CASE x # a
  <2>1. sig'[x] = sig[x] /\ nlots'[x] = nlots[x]
    BY <1>1, <1>2, SignalAlone DEF Alone, SignalStep
  <2> QED BY <1>1, <2>1 DEF SignalsOwnLot
<1>3. CASE x = a
  BY <1>1, <1>3, OwnLotFirst DEF SignalsOwnLot
<1> QED BY <1>1, <1>2, <1>3

\* A signal leaves a worker that is going to sleep with a state that is not fresh.
LEMMA SignalOwnQueue ==
    ASSUME Types, OwnQueueInv, NEW a \in Threads, SignalStep(a)
    PROVE  OwnQueueInv'
<1> SUFFICES ASSUME NEW x \in Workers PROVE OwnQueueSeen(x)'
  BY DEF OwnQueueInv
<1>1. /\ x \in Threads /\ OwnQueueSeen(x) /\ scan' = scan
      /\ x # a => sig'[x] = sig[x] /\ nlots'[x] = nlots[x]
  BY Apart, SignalAlone DEF OwnQueueInv, Alone
<1>2. rq' = rq
  BY DEF SignalStep, SignalAdd, SignalWake, SignalGrow, queueVars
<1>3. CASE pc'[x] # pc[x]
  <2>1. pc'[x] \in {"steal", "created"}
    BY <1>1, <1>3, SignalMoves
  <2> QED BY <2>1, OwnQueueElsewhere
<1>4. CASE pc'[x] = pc[x] /\ SignalAdd(a)
  BY <1>1, <1>2, <1>4, AddIsSeen, OwnQueueFrame
<1>5. CASE pc'[x] = pc[x] /\ ~SignalAdd(a)
  <2>1. fresh' = fresh /\ sig[a] # "add"
    BY <1>5 DEF SignalStep, SignalWake, SignalGrow, parkVars
  <2>2. SignalsOwnLot(x) => SignalsOwnLot(x)'
    BY <1>1, <2>1 DEF SignalsOwnLot
  <2> QED BY <1>1, <1>2, <1>5, <2>1, <2>2, OwnQueueFrame
<1> QED BY <1>3, <1>4, <1>5

\* The worker goes to sleep only after its own pop has failed or its lot was signalled.
LEMMA LookOwnQueue ==
    ASSUME Types, GroupInv, WorkerInv, OwnQueueInv, NEW w \in Workers, LookStep(w)
    PROVE  OwnQueueInv'
<1>1. w \in Threads /\ OwnQueueSeen(w) /\ Alone(w) /\ PcAlone(w)
  BY Apart, LookAlone DEF OwnQueueInv
<1>2. UNCHANGED sigVars
  BY DEF LookStep, wait_task, Pop, StealRemote, SaveState, Scan, ScanRemote, ScanFails
<1>3. ASSUME NEW x \in Workers, x # w PROVE OwnQueueSeen(x)'
  <2>1. x \in Threads /\ OwnQueueSeen(x)
    BY Apart DEF OwnQueueInv
  <2>2. fresh'[x] = fresh[x]
    BY <1>3 DEF LookStep, wait_task, Pop, StealRemote, SaveState, Scan, ScanRemote, ScanFails,
       parkVars, Types
  <2>3. rq[x] = <<>> => rq'[x] = <<>>
    <3>1. CASE Pop(w)
      BY <1>3, <3>1 DEF Pop, Types
    <3>2. CASE Scan(w)
      BY <3>2 DEF Scan, Types
    <3>3. CASE ~Pop(w) /\ ~Scan(w)
      BY <3>3 DEF LookStep, wait_task, StealRemote, SaveState, ScanRemote, ScanFails, queueVars
    <3> QED BY <3>1, <3>2, <3>3
  <2> QED BY <1>1, <1>2, <1>3, <2>1, <2>2, <2>3, OwnQueueFrame
          DEF Alone, PcAlone, SignalsOwnLot, sigVars
<1>4. OwnQueueSeen(w)'
  <2>1. CASE wait_task(w)
    <3>1. rq' = rq /\ pc'[w] = IF fresh[w] THEN "parked" ELSE "steal"
      BY <1>1, <2>1 DEF wait_task, queueVars, GroupInv, Goto, Types
    <3>2. fresh[w] => rq[w] = <<>>
      BY <1>1, <2>1 DEF wait_task, OwnQueueSeen, SignalsOwnLot, Free
    <3> QED BY <3>1, <3>2 DEF OwnQueueSeen
  <2>2. CASE Pop(w)
    <3>1. CASE rq[w] # <<>>
      <4>1. cur'[w] = Last(rq[w]) /\ cur'[w] # NULL
        BY <2>2, <3>1, QueueEnds, Apart DEF Pop, Take, Types
      <4>2. pc'[w] \in {"push", "run"}
        BY <1>1, <2>2, <3>1, <4>1 DEF Pop, Take, AfterSwitch, Goto, Types
      <4> QED BY <4>2, OwnQueueElsewhere
    <3>2. CASE rq[w] = <<>>
      <4>1. pc'[w] = "steal"
        BY <1>1, <2>2, <3>2 DEF Pop, Goto, Types
      <4> QED BY <4>1, OwnQueueElsewhere
    <3> QED BY <3>1, <3>2
  <2>3. CASE StealRemote(w)
    <3>1. CASE remote_rq[w] # <<>>
      <4>1. cur'[w] = Head(remote_rq[w]) /\ cur'[w] # NULL
        BY <2>3, <3>1, QueueEnds, Apart DEF StealRemote, Take, Types
      <4>2. pc'[w] \in {"push", "run"}
        BY <1>1, <2>3, <3>1, <4>1 DEF StealRemote, Take, AfterSwitch, Goto, Types
      <4> QED BY <4>2, OwnQueueElsewhere
    <3>2. CASE remote_rq[w] = <<>>
      <4>1. pc'[w] = "save"
        BY <1>1, <2>3, <3>2 DEF StealRemote, Goto, Types
      <4> QED BY <4>1, OwnQueueElsewhere
    <3> QED BY <3>1, <3>2
  <2>4. CASE SaveState(w)
    <3>1. pc'[w] = "scan" /\ scan'[w] = groups /\ w \in groups
      BY <1>1, <2>4 DEF SaveState, GroupInv, Goto, Types
    <3> QED BY <3>1 DEF OwnQueueSeen
  <2>5. CASE Scan(w)
    <3>1. PICK g \in Workers :
             \/ rq[g] # <<>> /\ Stolen(w, Head(rq[g]))
             \/ /\ rq[g] = <<>> /\ scan' = [scan EXCEPT ![w] = scan[w] \ {g}]
                /\ Goto(w, "scan_remote") /\ rq' = rq
      BY <2>5 DEF Scan, Types
    <3>2. CASE rq[g] # <<>> /\ Stolen(w, Head(rq[g]))
      <4>1. cur'[w] = Head(rq[g]) /\ cur'[w] # NULL
        BY <3>2, QueueEnds, Apart DEF Stolen, Take, Types
      <4>2. args' = args
        BY <2>5 DEF Scan
      <4>3. pc'[w] \in {"push", "run"}
        BY <1>1, <3>2, <4>1, <4>2 DEF Stolen, Take, AfterSwitch, Goto, Types
      <4> QED BY <4>3, OwnQueueElsewhere
    <3>3. CASE /\ rq[g] = <<>> /\ scan' = [scan EXCEPT ![w] = scan[w] \ {g}]
               /\ Goto(w, "scan_remote") /\ rq' = rq
      <4>1. pc'[w] = "scan_remote" /\ scan'[w] = scan[w] \ {g}
        BY <1>1, <3>3 DEF Goto, Types
      <4>2. rq[w] = <<>> \/ w \in scan[w]
        BY <1>1, <2>5 DEF Scan, OwnQueueSeen
      <4> QED BY <3>3, <4>1, <4>2 DEF OwnQueueSeen
    <3> QED BY <3>1, <3>2, <3>3
  <2>6. CASE ScanRemote(w)
    <3>1. at[w] \in Workers
      BY <1>1, <2>6 DEF ScanRemote, WorkerInv, WorkerOK, Types
    <3>2. CASE remote_rq[at[w]] # <<>>
      <4>1. cur'[w] = Head(remote_rq[at[w]]) /\ cur'[w] # NULL
        BY <2>6, <3>1, <3>2, QueueEnds, Apart DEF ScanRemote, Stolen, Take, Types
      <4>2. pc'[w] \in {"push", "run"}
        BY <1>1, <2>6, <3>2, <4>1 DEF ScanRemote, Stolen, Take, AfterSwitch, Goto, Types
      <4> QED BY <4>2, OwnQueueElsewhere
    <3>3. CASE remote_rq[at[w]] = <<>>
      <4>1. pc'[w] = "scan" /\ scan' = scan /\ rq' = rq /\ pc[w] = "scan_remote"
        BY <1>1, <2>6, <3>3 DEF ScanRemote, Goto, Types
      <4> QED BY <1>1, <4>1 DEF OwnQueueSeen
    <3> QED BY <3>2, <3>3
  <2>7. CASE ScanFails(w)
    <3>1. /\ rq' = rq /\ scan[w] = {} /\ pc[w] = "scan"
          /\ pc'[w] \in {"push", "wait"}
      BY <1>1, <2>7 DEF ScanFails, Take, AfterSwitch, Goto, queueVars, Types
    <3>2. rq[w] = <<>>
      BY <1>1, <3>1 DEF OwnQueueSeen
    <3> QED BY <3>1, <3>2 DEF OwnQueueSeen
  <2> QED BY <2>1, <2>2, <2>3, <2>4, <2>5, <2>6, <2>7 DEF LookStep
<1> QED BY <1>3, <1>4 DEF OwnQueueInv

\* signal_task starts with the lot of the thread's own pthread id.
LEMMA SignalTaskOwnLot ==
    ASSUME Types, NEW a \in Threads, NEW n, signal_task(a, n)
    PROVE  SignalsOwnLot(a)'
  BY DEF signal_task, SignalsOwnLot, Types

\* After a push a worker whose main task goes on is about to signal.
LEMMA PushSignals ==
    ASSUME Types, WorkerInv, NEW w \in Workers, ready_to_run(w)
    PROVE  pc'[w] = "run" \/ (pc'[w] = "wait" /\ SignalsOwnLot(w)')
<1>1. w \in Threads /\ WorkerOK(w)
  BY Apart DEF WorkerInv
<1>2. CASE cur[w] # NULL
  BY <1>1, <1>2 DEF ready_to_run, Goto, Types
<1>3. CASE cur[w] = NULL
  <2>1. pc'[w] = "wait" /\ pc[w] = "push"
    BY <1>1, <1>3 DEF ready_to_run, Goto, Types
  <2>2. ~args[w].nosignal
    BY <1>1, <1>3, <2>1 DEF WorkerOK
  <2>3. signal_task(w, 1 + num_nosignal[w])
    BY <2>2 DEF ready_to_run
  <2> QED BY <1>1, <2>1, <2>3, SignalTaskOwnLot
<1> QED BY <1>2, <1>3

\* A task pushed to the own queue is signalled to the own lot first.
LEMMA TaskOwnQueue ==
    ASSUME Types, WorkerInv, OwnQueueInv, ~stop, NEW w \in Workers,
           TaskCall(w) \/ FinishTask(w) \/ ready_to_run(w) \/ RqFull(w) \/ _add_group(w)
    PROVE  OwnQueueInv'
<1>1. w \in Threads /\ WorkerOK(w) /\ Alone(w) /\ PcAlone(w) /\ scan' = scan
  BY Apart, TaskAlone DEF WorkerInv
<1>2. fresh' = fresh
  <2>1. TaskCall(w) => fresh' = fresh
    BY DEF TaskCall, start_background, start_foreground, yield, FlushLocal, parkVars
  <2>2. FinishTask(w) \/ ready_to_run(w) => fresh' = fresh
    BY DEF FinishTask, ready_to_run, parkVars
  <2>3. RqFull(w) \/ _add_group(w) => fresh' = fresh
    BY DEF RqFull, _add_group, parkVars
  <2> QED BY <2>1, <2>2, <2>3
<1>3. ASSUME NEW x \in Workers, x # w PROVE OwnQueueSeen(x)'
  <2>1. x \in Threads /\ OwnQueueSeen(x)
    BY Apart DEF OwnQueueInv
  <2>2. rq'[x] = rq[x]
    <3>1. CASE ready_to_run(w)
      BY <1>3, <3>1 DEF ready_to_run, Types
    <3>2. TaskCall(w) => rq' = rq
      BY DEF TaskCall, start_background, start_foreground, yield, FlushLocal, queueVars
    <3>3. FinishTask(w) \/ RqFull(w) \/ _add_group(w) => rq' = rq
      BY DEF FinishTask, RqFull, _add_group, queueVars
    <3> QED BY <3>1, <3>2, <3>3
  <2> QED BY <1>1, <1>2, <1>3, <2>1, <2>2, OwnQueueFrame DEF Alone, PcAlone, SignalsOwnLot
<1>4. OwnQueueSeen(w)'
  <2>1. CASE TaskCall(w)
    <3>1. pc'[w] \in {"run", "push", "pop"}
      BY <1>1, <2>1 DEF TaskCall, start_background, start_foreground, yield, FlushLocal,
         Running, threadVars, Goto, Types
    <3> QED BY <3>1, OwnQueueElsewhere
  <2>2. CASE FinishTask(w) \/ RqFull(w)
    <3>1. pc'[w] \in {"push", "pop"}
      BY <1>1, <2>2 DEF FinishTask, RqFull, threadVars, Goto, Types
    <3> QED BY <3>1, OwnQueueElsewhere
  <2>3. CASE ready_to_run(w)
    BY <2>3, PushSignals DEF OwnQueueSeen
  <2>4. CASE _add_group(w)
    <3>1. pc'[w] = "wait" /\ rq' = rq /\ rq[w] = <<>>
      BY <1>1, <2>4 DEF _add_group, queueVars, Goto, WorkerOK, Types
    <3> QED BY <3>1 DEF OwnQueueSeen
  <2> QED BY <2>1, <2>2, <2>3, <2>4
<1> QED BY <1>3, <1>4 DEF OwnQueueInv

\* The other threads do not push to the queue of a worker.
LEMMA OtherOwnQueue ==
    ASSUME Types, WorkerInv, StartInv, OwnQueueInv, ~stop, ~stop', NEW c \in NonWorkers,
           \/ InitReturns(c) \/ ready_to_run_remote(c) \/ RemoteFull(c)
           \/ bthread_flush(c) \/ get_or_new_task_control(c)
           \/ \E t \in Tasks, nosignal \in Flags : start_from_non_worker(c, t, nosignal)
           \/ stop_and_join \/ StopLot
    PROVE  OwnQueueInv'
<1> SUFFICES ASSUME NEW x \in Workers PROVE OwnQueueSeen(x)'
  BY DEF OwnQueueInv
<1>1. x \in Threads /\ x # c /\ OwnQueueSeen(x) /\ ~stop_and_join /\ ~StopLot
  BY Apart DEF OwnQueueInv, stop_and_join, StopLot
<1>2. CASE get_or_new_task_control(c)
  <2>1. pc'[x] \in {"none", "created"}
    BY <1>1, <1>2 DEF get_or_new_task_control, StartInv, WorkerInv, WorkerOK, WorkerPCs
  <2> QED BY <2>1, OwnQueueElsewhere
<1>3. CASE ~get_or_new_task_control(c)
  <2>1. Alone(c) /\ PcAlone(c) /\ rq' = rq /\ scan' = scan /\ fresh' = fresh
    BY <1>1, <1>3, OtherAlone
  <2> QED BY <1>1, <2>1, OwnQueueFrame DEF Alone, PcAlone, SignalsOwnLot
<1> QED BY <1>2, <1>3

-----------------------------------------------------------------------------
(* The remote queues                                                       *)

\* Somebody looks, or somebody signals all that do not.
Attended(g) ==
    \/ \E w \in Workers : WillSee(w, g)
    \/ \E a \in Threads : Covers(a, g)

\* A step that keeps workers on their way, starts no signal anew and puts nobody
\* to sleep or out of sleep unseen.
LEMMA RemoteKept ==
    ASSUME NEW g \in Workers, Attended(g), lot' = lot,
           \A x \in Workers : WillSee(x, g) => WillSee(x, g)',
           \A x \in Workers : pc[x] = "none" /\ pc'[x] # "none" => WillSee(x, g)',
           \A a \in Threads : sig[a] \in {"add", "wake"} => sig'[a] = sig[a] /\ nlots'[a] = nlots[a],
           \A x \in Workers : pc[x] = "parked" => pc'[x] = "parked" \/ WillSee(x, g)'
    PROVE  Attended(g)'
<1>1. CASE \E w \in Workers : WillSee(w, g)
  BY <1>1 DEF Attended
<1>2. CASE \E a \in Threads : Covers(a, g)
  <2>1. PICK a \in Threads : Covers(a, g)
    BY <1>2
  <2>2. sig[a] \in {"add", "wake"} /\ sig'[a] = sig[a] /\ nlots'[a] = nlots[a]
    BY <2>1 DEF Covers
  <2>3. ASSUME NEW x \in Created' PROVE WillSee(x, g)' \/ WillSignal(a, x)'
    <3>1. x \in Workers /\ pc'[x] # "none"
      BY DEF Created
    <3>2. CASE pc[x] = "none" \/ WillSee(x, g)
      BY <3>1, <3>2
    <3>3. CASE ~(pc[x] = "none" \/ WillSee(x, g))
      <4>1. WillSignal(a, x)
        BY <2>1, <3>1, <3>3 DEF Covers, Created
      <4>2. PICK j \in nlots[a]..(NLots - 1) :
               /\ lot[x] = (lot[a] + j) % NLots
               /\ sig[a] = "wake" /\ j = nlots[a] => pc[x] = "parked"
        BY <4>1 DEF WillSignal
      <4>3. CASE WillSee(x, g)'
        BY <4>3
      <4>4. CASE ~WillSee(x, g)'
        <5>1. sig'[a] = "wake" /\ j = nlots'[a] => pc'[x] = "parked"
          BY <2>2, <3>1, <4>2, <4>4
        <5>2. lot'[x] = (lot'[a] + j) % NLots /\ j \in nlots'[a]..(NLots - 1)
          BY <2>2, <4>2
        <5> QED BY <5>1, <5>2 DEF WillSignal
      <4> QED BY <4>3, <4>4
    <3> QED BY <3>2, <3>3
  <2> QED BY <2>2, <2>3 DEF Attended, Covers
<1> QED BY <1>1, <1>2 DEF Attended

\* A worker that another thread leaves alone.
LEMMA WillSeeFrame ==
    ASSUME NEW x \in Workers, NEW g \in Workers, WillSee(x, g),
           pc'[x] = pc[x], scan'[x] = scan[x], at'[x] = at[x], ~fresh[x] => ~fresh'[x],
           SignalsOwnLot(x) => SignalsOwnLot(x)' \/ ~fresh'[x]
    PROVE  WillSee(x, g)'
  BY DEF WillSee

\* Going round the lots from any of them reaches every lot.
LEMMA LotsRound ==
    ASSUME NEW l \in Lots, NEW k \in Lots
    PROVE  \E j \in 0..(NLots - 1) : k = (l + j) % NLots
<1>1. NLots \in Nat \ {0} /\ l \in 0..(NLots - 1) /\ k \in 0..(NLots - 1)
  BY SchedAssumption DEF Lots
<1>2. CASE l <= k
  <2>1. k - l \in 0..(NLots - 1) /\ l + (k - l) = k /\ k % NLots = k
    BY <1>1, <1>2
  <2> QED BY <2>1
<1>3. CASE ~(l <= k)
  <2>1. (k - l) + NLots \in 0..(NLots - 1) /\ l + ((k - l) + NLots) = k + NLots
    BY <1>1, <1>3
  <2>2. (k + NLots) % NLots = k
    BY <1>1
  <2> QED BY <2>1, <2>2
<1> QED BY <1>2, <1>3

\* A thread that enters signal_task signals every lot.
LEMMA NewSignal ==
    ASSUME Types, NEW a \in Threads, NEW n, signal_task(a, n), lot' = lot, NEW g \in Workers
    PROVE  Attended(g)'
<1>1. sig'[a] = "add" /\ nlots'[a] = 0
  BY DEF signal_task, Types
<1>2. ASSUME NEW x \in Workers PROVE WillSignal(a, x)'
  <2>1. x \in Threads /\ lot[x] \in Lots /\ lot[a] \in Lots
    BY Apart DEF Types
  <2>2. PICK j \in 0..(NLots - 1) : lot[x] = (lot[a] + j) % NLots
    BY <2>1, LotsRound
  <2> QED BY <1>1, <2>2 DEF WillSignal
<1> QED BY <1>1, <1>2 DEF Attended, Covers, Created

\* A step of a worker that does not touch the lots.
LEMMA RemoteAlone ==
    ASSUME Types, NEW w \in Workers, Alone(w), PcAlone(w), lot' = lot,
           \A x \in Workers \ {w} : ~fresh[x] => ~fresh'[x],
           sig[w] \in {"add", "wake"} => sig'[w] = sig[w] /\ nlots'[w] = nlots[w],
           pc[w] \notin {"none", "parked"},
           NEW g \in Workers, Attended(g), WillSee(w, g) => WillSee(w, g)'
    PROVE  Attended(g)'
<1>1. ASSUME NEW x \in Workers, WillSee(x, g) PROVE WillSee(x, g)'
  <2>1. CASE x = w
    BY <1>1, <2>1
  <2>2. CASE x # w
    BY <1>1, <2>2, Apart, WillSeeFrame DEF Alone, PcAlone, SignalsOwnLot
  <2> QED BY <2>1, <2>2
<1>2. \A x \in Workers : pc[x] \in {"none", "parked"} => pc'[x] = pc[x]
  BY Apart DEF PcAlone
<1>3. \A a \in Threads : sig[a] \in {"add", "wake"} => sig'[a] = sig[a] /\ nlots'[a] = nlots[a]
  BY DEF Alone
<1> QED BY <1>1, <1>2, <1>3, RemoteKept

\* A worker passes a remote queue with tasks only if its state is no longer fresh.
LEMMA LookRemote ==
    ASSUME Types, WorkerInv, NonWorkerInv, GroupInv, RemoteInv, NEW w \in Workers, LookStep(w)
    PROVE  RemoteInv'
<1> SUFFICES ASSUME NEW g \in Workers, RemoteWork(g)' PROVE Attended(g)'
  BY DEF RemoteInv, Attended
<1>1. /\ w \in Threads /\ g \in Threads /\ WorkerOK(w) /\ Alone(w) /\ PcAlone(w) /\ lot' = lot
  BY Apart, LookAlone DEF WorkerInv, WorkerKeeps
<1>2. UNCHANGED sigVars /\ remote_num_nosignal' = remote_num_nosignal /\ args' = args
  BY DEF LookStep, wait_task, Pop, StealRemote, SaveState, Scan, ScanRemote, ScanFails, queueVars
<1>3. remote_rq'[g] # <<>> /\ remote_rq[g] # <<>> /\ RemoteWork(g) /\ g \in groups
  <2>1. remote_rq'[g] # <<>> /\ remote_num_nosignal[g] = 0
    BY <1>2 DEF RemoteWork
  <2>2. CASE StealRemote(w)
    BY <2>1, <2>2 DEF StealRemote, RemoteWork, GroupInv, Types
  <2>3. CASE ScanRemote(w)
    BY <2>1, <2>3 DEF ScanRemote, RemoteWork, GroupInv, Types
  <2>4. CASE ~StealRemote(w) /\ ~ScanRemote(w)
    <3>1. remote_rq' = remote_rq
      BY <2>4 DEF LookStep, wait_task, Pop, SaveState, Scan, ScanFails, queueVars
    <3> QED BY <2>1, <3>1 DEF RemoteWork, GroupInv
  <2> QED BY <2>2, <2>3, <2>4
<1>4. Attended(g)
  BY <1>3 DEF RemoteInv, Attended
<1>5. \A x \in Workers \ {w} : fresh'[x] = fresh[x]
  BY DEF LookStep, wait_task, Pop, StealRemote, SaveState, Scan, ScanRemote, ScanFails,
     parkVars, Types
<1>6. pc[w] \notin {"none", "parked"}
  BY DEF LookStep, wait_task, Pop, StealRemote, SaveState, Scan, ScanRemote, ScanFails
<1>7. ASSUME NEW t \in Tasks, Take(w, t) PROVE WillSee(w, g)'
  <2>1. cur'[w] # NULL
    BY <1>7, Apart DEF Take, Types
  <2>2. pc'[w] \in {"push", "run"}
    BY <1>1, <1>7, <2>1 DEF Take, AfterSwitch, Goto, Types
  <2> QED BY <2>2 DEF WillSee
<1>8. ASSUME WillSee(w, g) PROVE WillSee(w, g)'
  <2>1. CASE wait_task(w)
    <3>1. ~SignalsOwnLot(w) /\ pc[w] = "wait"
      BY <2>1 DEF wait_task, SignalsOwnLot, Free
    <3>2. ~fresh[w]
      BY <1>8, <3>1 DEF WillSee
    <3>3. pc'[w] = "steal"
      BY <1>1, <2>1, <3>2 DEF wait_task, GroupInv, Goto, Types
    <3> QED BY <3>3 DEF WillSee
  <2>2. CASE Pop(w)
    <3>1. CASE rq[w] # <<>>
      BY <1>7, <2>2, <3>1, QueueEnds DEF Pop, Types
    <3>2. CASE rq[w] = <<>>
      <4>1. pc'[w] = "steal"
        BY <1>1, <2>2, <3>2 DEF Pop, Goto, Types
      <4> QED BY <4>1 DEF WillSee
    <3> QED BY <3>1, <3>2
  <2>3. CASE StealRemote(w)
    <3>1. CASE remote_rq[w] # <<>>
      BY <1>7, <2>3, <3>1, QueueEnds DEF StealRemote, Types
    <3>2. CASE remote_rq[w] = <<>>
      <4>1. pc'[w] = "save"
        BY <1>1, <2>3, <3>2 DEF StealRemote, Goto, Types
      <4> QED BY <4>1 DEF WillSee
    <3> QED BY <3>1, <3>2
  <2>4. CASE SaveState(w)
    <3>1. pc'[w] = "scan" /\ scan'[w] = groups
      BY <1>1, <2>4 DEF SaveState, Goto, Types
    <3> QED BY <1>3, <3>1 DEF WillSee
  <2>5. CASE Scan(w)
    <3>1. PICK h \in Workers :
             \/ rq[h] # <<>> /\ Stolen(w, Head(rq[h]))
             \/ /\ at' = [at EXCEPT ![w] = h] /\ scan' = [scan EXCEPT ![w] = scan[w] \ {h}]
                /\ Goto(w, "scan_remote")
      BY <2>5 DEF Scan, Types
    <3>2. CASE rq[h] # <<>> /\ Stolen(w, Head(rq[h]))
      BY <1>7, <3>2, QueueEnds DEF Stolen, Types
    <3>3. CASE /\ at' = [at EXCEPT ![w] = h] /\ scan' = [scan EXCEPT ![w] = scan[w] \ {h}]
               /\ Goto(w, "scan_remote")
      <4>1. pc'[w] = "scan_remote" /\ at'[w] = h /\ scan'[w] = scan[w] \ {h}
        BY <1>1, <3>3 DEF Goto, Types
      <4>2. fresh' = fresh /\ pc[w] = "scan"
        BY <2>5 DEF Scan, parkVars
      <4>3. g \in scan[w] \/ ~fresh[w]
        BY <1>8, <4>2 DEF WillSee
      <4> QED BY <4>1, <4>2, <4>3 DEF WillSee
    <3> QED BY <3>1, <3>2, <3>3
  <2>6. CASE ScanRemote(w)
    <3>1. at[w] \in Workers
      BY <1>1, <2>6 DEF ScanRemote, WorkerOK, Types
    <3>2. CASE remote_rq[at[w]] # <<>>
      BY <1>7, <2>6, <3>1, <3>2, QueueEnds DEF ScanRemote, Stolen, Types
    <3>3. CASE remote_rq[at[w]] = <<>>
      <4>1. /\ pc'[w] = "scan" /\ scan' = scan /\ fresh' = fresh /\ pc[w] = "scan_remote"
            /\ at[w] # g
        BY <1>1, <1>3, <2>6, <3>3 DEF ScanRemote, parkVars, Goto, Types
      <4>2. g \in scan[w] \/ ~fresh[w]
        BY <1>8, <4>1 DEF WillSee
      <4> QED BY <4>1, <4>2 DEF WillSee
    <3> QED BY <3>2, <3>3
  <2>7. CASE ScanFails(w)
    <3>1. /\ scan[w] = {} /\ pc[w] = "scan" /\ fresh' = fresh /\ pc'[w] \in {"push", "wait"}
      BY <1>1, <2>7 DEF ScanFails, Take, AfterSwitch, Goto, parkVars, Types
    <3>2. ~fresh[w]
      BY <1>8, <3>1 DEF WillSee
    <3> QED BY <3>1, <3>2 DEF WillSee
  <2> QED BY <2>1, <2>2, <2>3, <2>4, <2>5, <2>6, <2>7 DEF LookStep
<1> QED BY <1>1, <1>2, <1>4, <1>5, <1>6, <1>8, RemoteAlone DEF sigVars

\* A worker that runs a task will look into the remote queues afterwards.
LEMMA TaskRemote ==
    ASSUME Types, WorkerInv, RemoteInv, ~stop, NEW w \in Workers,
           TaskCall(w) \/ FinishTask(w) \/ ready_to_run(w) \/ RqFull(w) \/ _add_group(w)
    PROVE  RemoteInv'
<1> SUFFICES ASSUME NEW g \in Workers, RemoteWork(g)' PROVE Attended(g)'
  BY DEF RemoteInv, Attended
<1>1. w \in Threads /\ WorkerOK(w) /\ Alone(w) /\ PcAlone(w) /\ lot' = lot
  BY Apart, TaskAlone DEF WorkerInv, WorkerKeeps
<1>2. /\ remote_rq' = remote_rq /\ remote_num_nosignal' = remote_num_nosignal /\ fresh' = fresh
      /\ pc[w] \notin {"none", "parked"} /\ Free(w)
  <2>1. CASE TaskCall(w)
    BY <2>1 DEF TaskCall, start_background, start_foreground, yield, FlushLocal, Running,
       queueVars, parkVars
  <2>2. CASE FinishTask(w) \/ ready_to_run(w)
    BY <2>2 DEF FinishTask, ready_to_run, Running, queueVars, parkVars
  <2>3. CASE RqFull(w) \/ _add_group(w)
    BY <1>1, <2>3 DEF RqFull, _add_group, WorkerOK, queueVars, parkVars
  <2> QED BY <2>1, <2>2, <2>3
<1>3. Attended(g)
  BY <1>2 DEF RemoteInv, Attended, RemoteWork
<1>4. WillSee(w, g)'
  <2>1. CASE TaskCall(w)
    <3>1. pc'[w] \in {"run", "push", "pop"}
      BY <1>1, <2>1 DEF TaskCall, start_background, start_foreground, yield, FlushLocal,
         Running, threadVars, Goto, Types
    <3> QED BY <3>1 DEF WillSee
  <2>2. CASE FinishTask(w) \/ RqFull(w)
    <3>1. pc'[w] \in {"push", "pop"}
      BY <1>1, <2>2 DEF FinishTask, RqFull, threadVars, Goto, Types
    <3> QED BY <3>1 DEF WillSee
  <2>3. CASE ready_to_run(w)
    BY <2>3, PushSignals DEF WillSee
  <2>4. CASE _add_group(w)
    <3>1. pc'[w] = "wait" /\ signal_task(w, 65536)
      BY <1>1, <2>4 DEF _add_group, Goto, Types
    <3> QED BY <1>1, <3>1, SignalTaskOwnLot DEF WillSee
  <2> QED BY <2>1, <2>2, <2>3, <2>4
<1> QED BY <1>4 DEF Attended

\* A remote push without NOSIGNAL is followed by signal_task, which covers it.
LEMMA OtherRemote ==
    ASSUME Types, WorkerInv, NonWorkerInv, StartInv, GroupInv, RemoteInv, ~stop, ~stop',
           NEW c \in NonWorkers,
           \/ InitReturns(c) \/ ready_to_run_remote(c) \/ RemoteFull(c)
           \/ bthread_flush(c) \/ get_or_new_task_control(c)
           \/ \E t \in Tasks, nosignal \in Flags : start_from_non_worker(c, t, nosignal)
           \/ stop_and_join \/ StopLot
    PROVE  RemoteInv'
<1> SUFFICES ASSUME NEW g \in Workers, RemoteWork(g)' PROVE Attended(g)'
  BY DEF RemoteInv, Attended
<1>1. g \in Threads /\ c \in Threads /\ c \notin Workers /\ ~stop_and_join /\ ~StopLot
  BY Apart DEF stop_and_join, StopLot
<1>2. CASE get_or_new_task_control(c)
  <2>1. remote_rq[g] # <<>> /\ pc[g] = "none"
    BY <1>1, <1>2 DEF get_or_new_task_control, StartInv, WorkerInv, WorkerOK, WorkerPCs,
       RemoteWork, queueVars
  <2> QED BY <2>1 DEF GroupInv
<1>3. CASE ~get_or_new_task_control(c)
  <2>1. Alone(c) /\ PcAlone(c) /\ lot' = lot /\ scan' = scan /\ fresh' = fresh
    BY <1>1, <1>3, OtherAlone
  <2>2. CASE \E n : signal_task(c, n)
    BY <1>1, <2>1, <2>2, NewSignal
  <2>3. CASE ~\E n : signal_task(c, n)
    <3>1. UNCHANGED sigVars
      BY <1>1, <1>3, <2>3 DEF InitReturns, ready_to_run_remote, RemoteFull, bthread_flush,
         flush_nosignal_tasks_remote, start_from_non_worker
    <3>2. RemoteWork(g)
      <4>1. CASE ready_to_run_remote(c)
        <5>1. at[c] \in Workers /\ remote_num_nosignal[at[c]] \in Nat /\ args[c].nosignal
          BY <1>1, <2>3, <4>1 DEF ready_to_run_remote, NonWorkerInv, Types
        <5>2. remote_num_nosignal' = [remote_num_nosignal EXCEPT ![at[c]] = @ + 1]
          BY <2>3, <4>1 DEF ready_to_run_remote
        <5>3. g # at[c]
          BY <5>1, <5>2 DEF RemoteWork, Types
        <5>4. remote_rq'[g] = remote_rq[g]
          BY <4>1, <5>3 DEF ready_to_run_remote, Types
        <5> QED BY <5>2, <5>3, <5>4 DEF RemoteWork, Types
      <4>2. CASE ~ready_to_run_remote(c)
        <5>1. remote_rq' = remote_rq /\ remote_num_nosignal' = remote_num_nosignal
          BY <1>1, <1>3, <2>3, <4>2 DEF InitReturns, RemoteFull, bthread_flush,
             flush_nosignal_tasks_remote, start_from_non_worker, queueVars
        <5> QED BY <5>1 DEF RemoteWork
      <4> QED BY <4>1, <4>2
    <3>3. Attended(g)
      BY <3>2 DEF RemoteInv, Attended
    <3>4. \A x \in Workers : pc'[x] = pc[x]
      BY <1>1, <2>1, Apart DEF PcAlone
    <3>5. \A x \in Workers : WillSee(x, g) => WillSee(x, g)'
      BY <1>1, <2>1, <3>1, <3>4, Apart, WillSeeFrame DEF Alone, SignalsOwnLot, sigVars
    <3> QED BY <2>1, <3>1, <3>3, <3>4, <3>5, RemoteKept DEF sigVars
  <2> QED BY <2>2, <2>3
<1> QED BY <1>2, <1>3

\* Only a worker that is asleep or not created does not look by itself.
LEMMA NotSeeing ==
    ASSUME Types, WorkerInv, GroupInv, NEW x \in Created, NEW g \in Workers, ~WillSee(x, g)
    PROVE  pc[x] = "parked" \/ (pc[x] \in {"scan", "scan_remote", "wait"} /\ fresh[x])
  BY DEF WorkerInv, WorkerOK, WorkerPCs, GroupInv, Created, WillSee

\* The fetch_add of a signal: those about to sleep on that lot will look again.
LEMMA AddRemote ==
    ASSUME Types, WorkerInv, GroupInv, NEW a \in Threads, SignalAdd(a),
           NEW g \in Workers, Attended(g)
    PROVE  Attended(g)'
<1>1. Alone(a) /\ lot' = lot /\ scan' = scan /\ at' = at
  BY SignalAlone DEF SignalStep, WorkerKeeps
<1>2. pc' = pc /\ nlots' = nlots /\ sig'[a] = "wake" /\ sig[a] = "add"
  BY DEF SignalAdd, threadVars, Types
<1>3. \A x \in Workers : WillSee(x, g) => WillSee(x, g)'
  BY <1>1, <1>2, AddIsSeen, WillSeeFrame
<1>4. CASE \E w \in Workers : WillSee(w, g)
  BY <1>3, <1>4 DEF Attended
<1>5. ASSUME NEW b \in Threads, Covers(b, g) PROVE Covers(b, g)'
  <2>1. sig'[b] \in {"add", "wake"}
    BY <1>1, <1>2, <1>5 DEF Covers, Alone
  <2>2. ASSUME NEW x \in Created' PROVE WillSee(x, g)' \/ WillSignal(b, x)'
    <3>1. x \in Created /\ x \in Workers
      BY <1>2 DEF Created
    <3>2. CASE WillSee(x, g)
      BY <1>3, <3>1, <3>2
    <3>3. CASE ~WillSee(x, g)
      <4>1. PICK j \in nlots[b]..(NLots - 1) :
               /\ lot[x] = (lot[b] + j) % NLots
               /\ sig[b] = "wake" /\ j = nlots[b] => pc[x] = "parked"
        BY <1>5, <3>1, <3>3 DEF Covers, WillSignal
      <4>2. CASE sig'[b] = "wake" /\ j = nlots[b] => pc[x] = "parked"
        BY <1>1, <1>2, <4>1, <4>2 DEF WillSignal
      <4>3. CASE sig'[b] = "wake" /\ j = nlots[b] /\ pc[x] # "parked"
        <5>1. b = a
          BY <1>1, <4>1, <4>3 DEF Alone
        <5>2. lot[x] = SignalledLot(a)
          BY <4>1, <4>3, <5>1 DEF SignalledLot
        <5>3. ~fresh'[x]
          BY <3>1, <5>2, AddIsSeen
        <5>4. pc[x] \in {"scan", "scan_remote", "wait"}
          BY <3>1, <3>3, <4>3, NotSeeing
        <5> QED BY <1>2, <5>3, <5>4 DEF WillSee
      <4> QED BY <4>2, <4>3
    <3> QED BY <3>2, <3>3
  <2> QED BY <2>1, <2>2 DEF Covers
<1> QED BY <1>4, <1>5 DEF Attended

\* The futex wake of a signal: one that sleeps will look, or nobody sleeps there.
LEMMA WakeRemote ==
    ASSUME Types, WorkerInv, SignalInv, GroupInv, NEW a \in Threads, SignalWake(a),
           NEW g \in Workers, g \in groups, Attended(g)
    PROVE  Attended(g)'
<1>1. Alone(a) /\ lot' = lot /\ scan' = scan /\ at' = at /\ fresh' = fresh /\ sig[a] = "wake"
  BY SignalAlone DEF SignalStep, WorkerKeeps, SignalWake, parkVars
<1>2. CASE \E w \in Parked(SignalledLot(a)) : Goto(w, "steal")
  <2>1. PICK w \in Workers : Goto(w, "steal")
    BY <1>2 DEF Parked
  <2>2. pc'[w] = "steal"
    BY <2>1, Apart DEF Goto, Types
  <2> QED BY <2>2 DEF Attended, WillSee
<1>3. CASE /\ Parked(SignalledLot(a)) = {}
           /\ SignalNext(a, num_task[a])
           /\ UNCHANGED pc
  <2>1. \A x \in Workers : WillSee(x, g) => WillSee(x, g)'
    <3> SUFFICES ASSUME NEW x \in Workers, WillSee(x, g) PROVE WillSee(x, g)'
      OBVIOUS
    <3>1. SignalsOwnLot(x) => SignalsOwnLot(x)'
      BY <1>1, Apart DEF SignalsOwnLot, Alone
    <3> QED BY <1>1, <1>3, <3>1, WillSeeFrame
  <2>2. CASE \E w \in Workers : WillSee(w, g)
    BY <2>1, <2>2 DEF Attended
  <2>3. ASSUME \A w \in Workers : ~WillSee(w, g), NEW b \in Threads, Covers(b, g)
        PROVE  Covers(b, g)'
    <3>1. Created' = Created /\ g \in Created
      BY <1>3 DEF Created, GroupInv
    <3>2. CASE b # a
      <4>1. sig'[b] = sig[b] /\ nlots'[b] = nlots[b]
        BY <1>1, <3>2 DEF Alone
      <4>2. ASSUME NEW x \in Created PROVE WillSignal(b, x)'
        <5>1. WillSignal(b, x)
          BY <2>3, <4>2 DEF Covers, Created
        <5> QED BY <1>1, <1>3, <4>1, <5>1 DEF WillSignal
      <4> QED BY <2>3, <3>1, <4>1, <4>2 DEF Covers
    <3>3. CASE b = a
      <4>1. ASSUME NEW x \in Created
            PROVE  \E j \in (nlots[a] + 1)..(NLots - 1) : lot[x] = (lot[a] + j) % NLots
        <5>1. PICK j \in nlots[a]..(NLots - 1) :
                 /\ lot[x] = (lot[a] + j) % NLots
                 /\ j = nlots[a] => pc[x] = "parked"
          BY <1>1, <2>3, <3>3, <4>1 DEF Covers, WillSignal, Created
        <5>2. j # nlots[a]
          <6>1. ASSUME j = nlots[a] PROVE x \in Parked(SignalledLot(a))
            BY <5>1, <6>1 DEF Parked, SignalledLot, Created
          <6> QED BY <1>3, <6>1
        <5>3. nlots[a] \in Nat
          BY DEF Types
        <5>4. j \in (nlots[a] + 1)..(NLots - 1)
          BY <5>2, <5>3
        <5> QED BY <5>1, <5>4
      <4>2. nlots[a] + 1 < NLots
        <5>1. PICK j \in (nlots[a] + 1)..(NLots - 1) : lot[g] = (lot[a] + j) % NLots
          BY <3>1, <4>1
        <5>2. nlots[a] \in Nat /\ NLots \in Nat
          BY SchedAssumption DEF Types
        <5> QED BY <5>1, <5>2
      <4>3. num_task[a] > 0
        <5>1. num_task[a] \in 0..2 /\ num_task[a] # 0
          BY <1>1 DEF Types, SignalInv
        <5> QED BY <5>1
      <4>4. sig'[a] = "add" /\ nlots'[a] = nlots[a] + 1
        BY <1>3, <4>2, <4>3 DEF SignalNext, Types
      <4>5. \A x \in Created : WillSignal(a, x)'
        BY <1>1, <4>1, <4>4 DEF WillSignal
      <4> QED BY <3>1, <3>3, <4>4, <4>5 DEF Covers
    <3> QED BY <3>2, <3>3
  <2> QED BY <2>2, <2>3 DEF Attended
<1> QED BY <1>2, <1>3 DEF SignalWake

\* The worker that signal_task adds when it found too few sleepers.
LEMMA GrowRemote ==
    ASSUME Types, NEW a \in Threads, SignalGrow(a), NEW g \in Workers, Attended(g)
    PROVE  Attended(g)'
<1>1. Alone(a) /\ lot' = lot /\ scan' = scan /\ at' = at /\ fresh' = fresh /\ sig[a] = "grow"
  BY SignalAlone DEF SignalStep, WorkerKeeps, SignalGrow, parkVars
<1>2. \A x \in Workers : pc'[x] = pc[x] \/ (pc[x] = "none" /\ pc'[x] = "created")
  BY Apart DEF SignalGrow, Goto, Types
<1>3. ASSUME NEW x \in Workers, WillSee(x, g) PROVE WillSee(x, g)'
  <2>1. SignalsOwnLot(x) => SignalsOwnLot(x)'
    BY <1>1, Apart DEF SignalsOwnLot, Alone
  <2>2. pc'[x] = pc[x]
    BY <1>2, <1>3 DEF WillSee
  <2> QED BY <1>1, <1>3, <2>1, <2>2, WillSeeFrame
<1>4. \A x \in Workers : pc[x] = "none" /\ pc'[x] # "none" => WillSee(x, g)'
  BY <1>2 DEF WillSee
<1>5. \A b \in Threads : sig[b] \in {"add", "wake"} => sig'[b] = sig[b] /\ nlots'[b] = nlots[b]
  BY <1>1 DEF Alone
<1>6. \A x \in Workers : pc[x] = "parked" => pc'[x] = "parked"
  BY <1>2
<1> QED BY <1>1, <1>3, <1>4, <1>5, <1>6, RemoteKept

\* All the steps of signal_task.
LEMMA SignalRemote ==
    ASSUME Types, WorkerInv, SignalInv, GroupInv, RemoteInv, NEW a \in Threads, SignalStep(a)
    PROVE  RemoteInv'
<1> SUFFICES ASSUME NEW g \in Workers, RemoteWork(g)' PROVE Attended(g)'
  BY DEF RemoteInv, Attended
<1>1. remote_rq' = remote_rq /\ remote_num_nosignal' = remote_num_nosignal
  BY DEF SignalStep, SignalAdd, SignalWake, SignalGrow, queueVars
<1>2. Attended(g) /\ g \in groups
  BY <1>1 DEF RemoteInv, Attended, RemoteWork, GroupInv
<1> QED BY <1>2, AddRemote, WakeRemote, GrowRemote DEF SignalStep

-----------------------------------------------------------------------------
(* The theorems                                                            *)

\* The steps of a worker keep the invariant.
LEMMA WorkerKeepsInv ==
    ASSUME SchedInv, NEW w \in Workers, WorkerStep(w) \/ TaskCall(w)
    PROVE  SchedInv'
<1>1. w \in Threads /\ stop' = stop
  BY Apart, WorkerStepAlone DEF SchedInv, WorkerKeeps
<1>2. /\ NonWorkerInv' /\ SignalInv' /\ StartInv'
  BY WorkerStepNonWorkers, WorkerSignals, WorkerStarted DEF SchedInv
<1>3. CASE LookStep(w)
  <2>1. Types' /\ WorkerInv' /\ PlaceInv'
    BY <1>3, LookTypes, LookWorkers, LookPlaces DEF SchedInv
  <2>2. ~stop => GroupInv' /\ OwnQueueInv' /\ RemoteInv'
    BY <1>3, LookGroups, LookOwnQueue, LookRemote DEF SchedInv
  <2> QED BY <1>1, <1>2, <2>1, <2>2 DEF SchedInv
<1>4. CASE SignalStep(w)
  <2>1. Types' /\ WorkerInv' /\ PlaceInv'
    BY <1>1, <1>4, SignalTypes, SignalWorkers, SignalPlaces DEF SchedInv
  <2>2. ~stop => GroupInv' /\ OwnQueueInv' /\ RemoteInv'
    BY <1>1, <1>4, SignalGroups, SignalOwnQueue, SignalRemote DEF SchedInv
  <2> QED BY <1>1, <1>2, <2>1, <2>2 DEF SchedInv
<1>5. CASE TaskCall(w) \/ FinishTask(w) \/ ready_to_run(w) \/ RqFull(w) \/ _add_group(w)
  <2>1. Types' /\ WorkerInv' /\ PlaceInv'
    BY <1>5, TaskTypes, TaskWorkers, TaskPlaces DEF SchedInv
  <2>2. ~stop => GroupInv' /\ OwnQueueInv' /\ RemoteInv'
    BY <1>5, TaskGroups, TaskOwnQueue, TaskRemote DEF SchedInv
  <2> QED BY <1>1, <1>2, <2>1, <2>2 DEF SchedInv
<1> QED BY <1>3, <1>4, <1>5 DEF WorkerStep

\* signal_task of a thread that is no worker keeps the invariant.
LEMMA NonWorkerSignalKeepsInv ==
    ASSUME SchedInv, NEW c \in NonWorkers, SignalStep(c)
    PROVE  SchedInv'
<1>1. c \in Threads /\ stop' = stop
  BY Apart, SignalAlone DEF SchedInv, WorkerKeeps
<1>2. Types' /\ WorkerInv' /\ NonWorkerInv' /\ SignalInv' /\ PlaceInv'
  BY <1>1, SignalTypes, SignalWorkers, SignalNonWorkers, SignalStepKeeps, SignalPlaces
     DEF SchedInv
<1>3. StartInv'
  BY OtherStarted DEF SchedInv
<1>4. ~stop => GroupInv' /\ OwnQueueInv' /\ RemoteInv'
  BY <1>1, SignalGroups, SignalOwnQueue, SignalRemote DEF SchedInv
<1> QED BY <1>1, <1>2, <1>3, <1>4 DEF SchedInv

\* The other steps of the threads that are no workers keep the invariant.
LEMMA OtherKeepsInv ==
    ASSUME SchedInv, NEW c \in NonWorkers,
           \/ InitReturns(c) \/ ready_to_run_remote(c) \/ RemoteFull(c)
           \/ bthread_flush(c) \/ get_or_new_task_control(c)
           \/ \E t \in Tasks, nosignal \in Flags : start_from_non_worker(c, t, nosignal)
           \/ stop_and_join \/ StopLot
    PROVE  SchedInv'
<1>1. Types' /\ WorkerInv' /\ NonWorkerInv' /\ SignalInv' /\ PlaceInv'
  BY OtherTypes, OtherWorkers, OtherNonWorkers, OtherSignals, OtherPlaces DEF SchedInv
<1>2. StartInv'
  BY OtherStarted DEF SchedInv
<1>3. stop => stop'
  BY OtherAlone DEF SchedInv, get_or_new_task_control, stop_and_join, StopLot, controlVars
<1>4. ~stop /\ ~stop' => GroupInv' /\ OwnQueueInv' /\ RemoteInv'
  BY OtherGroups, OtherOwnQueue, OtherRemote DEF SchedInv
<1> QED BY <1>1, <1>2, <1>3, <1>4 DEF SchedInv

\* The invariant holds before the first call.
LEMMA InitInv ==
    ASSUME Init
    PROVE  SchedInv
<1>1. Types
  <2>1. 0 \in 0..NLots /\ 0 \in 0..2 /\ 0 \in 0..MaxCalls /\ 0 \in Nat
    BY SchedAssumption
  <2>2. pc \in [Threads -> PCTypes]
    BY DEF Init, PCTypes, WorkerPCs, NonWorkerPCs
  <2>3. /\ rq \in [Workers -> Seq(Tasks)] /\ remote_rq \in [Workers -> Seq(Tasks)]
        /\ scan \in [Workers -> SUBSET Workers]
    BY DEF Init
  <2>4. /\ fresh \in [Workers -> BOOLEAN] /\ saw_stop \in [Workers -> BOOLEAN]
        /\ cur \in [Workers -> Tasks \cup {NULL}]
        /\ args \in [Threads -> [task : Tasks, nosignal : BOOLEAN] \cup {NULL}]
        /\ at \in [Threads -> Workers \cup {NULL}]
        /\ tls_nosignal \in [NonWorkers -> Workers \cup {NULL}]
        /\ sig \in [Threads -> SigPCs]
    BY DEF Init, SigPCs
  <2>5. /\ num_nosignal \in [Workers -> Nat] /\ remote_num_nosignal \in [Workers -> Nat]
        /\ num_task \in [Threads -> 0..2] /\ nlots \in [Threads -> 0..NLots]
        /\ stopped \in 0..NLots /\ calls \in 0..MaxCalls
    BY <2>1 DEF Init
  <2>6. control \in BOOLEAN /\ stop \in BOOLEAN /\ groups \subseteq Workers /\ lot \in [Threads -> Lots]
    BY DEF Init
  <2> QED BY <2>2, <2>3, <2>4, <2>5, <2>6 DEF Types, PCTypes
<1>2. WorkerInv
  <2> SUFFICES ASSUME NEW w \in Workers PROVE WorkerOK(w)
    BY DEF WorkerInv
  <2>1. pc[w] = "none" /\ rq[w] = <<>> /\ cur[w] = NULL /\ args[w] = NULL /\ Free(w)
    BY Apart DEF Init, Free
  <2> QED BY <2>1 DEF WorkerOK, WorkerPCs
<1>3. NonWorkerInv /\ SignalInv /\ StartInv
  <2>1. \A c \in NonWorkers : pc[c] = "idle"
    BY Apart DEF Init
  <2>2. \A a \in Threads : pc[a] \in {"none", "idle"} /\ sig[a] = "none"
    BY DEF Init
  <2>3. \A c \in NonWorkers : tls_nosignal[c] = NULL
    BY DEF Init
  <2> QED BY <2>1, <2>2, <2>3 DEF NonWorkerInv, NonWorkerPCs, SignalInv, StartInv, Free
<1>4. PlaceInv
  <2>1. \A w \in Workers : rq[w] = <<>> /\ remote_rq[w] = <<>> /\ cur[w] = NULL
    BY DEF Init
  <2>2. \A a \in Threads : args[a] = NULL
    BY DEF Init
  <2>3. Range(<<>>) = {} /\ IsInjective(<<>>)
    BY SmallRange
  <2>4. \A k \in Kinds, a \in Threads, t \in Tasks : ~Has(k, a, t)
    BY <2>1, <2>2, <2>3, Apart DEF Has
  <2> QED BY <2>1, <2>3, <2>4 DEF PlaceInv
<1>5. GroupInv
  <2>1. \A w \in Workers : pc[w] = "none" /\ remote_rq[w] = <<>> /\ ~saw_stop[w]
    BY Apart DEF Init
  <2>2. \A c \in NonWorkers : pc[c] = "idle" /\ tls_nosignal[c] = NULL
    BY Apart DEF Init
  <2> QED BY <2>1, <2>2 DEF GroupInv, Init
<1>6. OwnQueueInv /\ RemoteInv
  <2>1. \A w \in Workers : pc[w] = "none" /\ remote_rq[w] = <<>>
    BY Apart DEF Init
  <2> QED BY <2>1 DEF OwnQueueInv, OwnQueueSeen, RemoteInv, RemoteWork
<1> QED BY <1>1, <1>2, <1>3, <1>4, <1>5, <1>6 DEF SchedInv

\* A stutter keeps the invariant.
LEMMA StutterKeepsInv ==
    ASSUME SchedInv, UNCHANGED vars
    PROVE  SchedInv'
<1>1. UNCHANGED <<queueVars, controlVars, parkVars, threadVars, sigVars, calls>>
  BY DEF vars
<1>2. UNCHANGED <<rq, remote_rq, num_nosignal, remote_num_nosignal, control, groups, stop,
                  stopped, lot, fresh, saw_stop, pc, cur, args, scan, at, tls_nosignal,
                  sig, num_task, nlots, calls>>
  BY <1>1 DEF queueVars, controlVars, parkVars, threadVars, sigVars
<1>3. Types' /\ WorkerInv' /\ NonWorkerInv' /\ SignalInv'
  BY <1>2 DEF SchedInv, Types, WorkerInv, WorkerOK, NonWorkerInv, SignalInv, Free
<1>4. StartInv' /\ PlaceInv'
  BY <1>2, SamePlaces DEF SchedInv, StartInv, ControlLocked, Free
<1>5. ~stop => GroupInv' /\ OwnQueueInv'
  BY <1>2 DEF SchedInv, GroupInv, OwnQueueInv, OwnQueueSeen, SignalsOwnLot
<1>6. ~stop => RemoteInv'
  BY <1>2 DEF SchedInv, RemoteInv, RemoteWork, WillSee, Covers, WillSignal, Created, SignalsOwnLot
<1> QED BY <1>2, <1>3, <1>4, <1>5, <1>6 DEF SchedInv

\* The inductive invariant: types, what each thread has in hand, that a tid is in one
\* place, and, until a stop, that tasks in a queue are on somebody's way.
THEOREM SchedInvariant == Spec => []SchedInv
<1>1. Init => SchedInv
  BY InitInv
<1>2. SchedInv /\ [Next]_vars => SchedInv'
  <2> SUFFICES ASSUME SchedInv, [Next]_vars PROVE SchedInv'
    OBVIOUS
  <2>1. ASSUME NEW w \in Workers, WorkerStep(w) \/ TaskCall(w) PROVE SchedInv'
    BY <2>1, WorkerKeepsInv
  <2>2. ASSUME NEW c \in NonWorkers, NonWorkerStep(c) PROVE SchedInv'
    BY <2>2, OtherKeepsInv, NonWorkerSignalKeepsInv DEF NonWorkerStep
  <2>3. ASSUME NEW c \in NonWorkers,
               \/ bthread_flush(c) \/ get_or_new_task_control(c)
               \/ \E t \in Tasks, nosignal \in Flags : start_from_non_worker(c, t, nosignal)
        PROVE  SchedInv'
    BY <2>3, OtherKeepsInv
  <2>4. CASE stop_and_join \/ StopLot
    <3>1. PICK c \in NonWorkers : TRUE
      BY SchedAssumption
    <3> QED BY <2>4, <3>1, OtherKeepsInv
  <2>5. CASE UNCHANGED vars
    BY <2>5, StutterKeepsInv
  <2> QED BY <2>1, <2>2, <2>3, <2>4, <2>5 DEF Next
<1> QED BY <1>1, <1>2, PTL DEF Spec

\* The places of a tid, counted as OnePlace counts them.
LEMMA PlacesCounted ==
    ASSUME SchedInv, \A c \in NonWorkers : pc[c] # "null_group"
    PROVE  OnePlace
<1>1. TypeOK
  <2>1. ASSUME NEW a \in Threads PROVE pc[a] \in WorkerPCs \cup NonWorkerPCs
    BY <2>1 DEF SchedInv, WorkerInv, WorkerOK, NonWorkerInv, Threads
  <2>2. Types /\ pc \in [Threads -> WorkerPCs \cup NonWorkerPCs]
    BY <2>1 DEF SchedInv, Types
  <2> QED BY <2>2 DEF Types, TypeOK
<1>2. ASSUME NEW t \in Tasks
      PROVE  LET Queued(q) == UNION {{w} \X {i \in DOMAIN q[w] : q[w][i] = t} : w \in Workers}
                 Run  == {w \in Workers : cur[w] = t}
                 Push == {a \in Threads : args[a] # NULL /\ args[a].task = t}
             IN  Cardinality(Queued(rq)) + Cardinality(Queued(remote_rq))
                   + Cardinality(Run) + Cardinality(Push) <= 1
  <2> DEFINE Queued(q) == UNION {{w} \X {i \in DOMAIN q[w] : q[w][i] = t} : w \in Workers}
             Run  == {w \in Workers : cur[w] = t}
             Push == {a \in Threads : args[a] # NULL /\ args[a].task = t}
             AtMostOne(S) == \A x, y \in S : x = y
  <2>1. ASSUME NEW q, \A w \in Workers : IsInjective(q[w]),
               \A u, v \in Workers : t \in Range(q[u]) /\ t \in Range(q[v]) => u = v
        PROVE  AtMostOne(Queued(q))
    <3> SUFFICES ASSUME NEW x \in Queued(q), NEW y \in Queued(q) PROVE x = y
      OBVIOUS
    <3>1. PICK u \in Workers : x \in {u} \X {i \in DOMAIN q[u] : q[u][i] = t}
      OBVIOUS
    <3>2. PICK v \in Workers : y \in {v} \X {i \in DOMAIN q[v] : q[v][i] = t}
      OBVIOUS
    <3>3. PICK i \in DOMAIN q[u] : x = <<u, i>> /\ q[u][i] = t
      BY <3>1
    <3>4. PICK j \in DOMAIN q[v] : y = <<v, j>> /\ q[v][j] = t
      BY <3>2
    <3>5. u = v
      BY <2>1, <3>3, <3>4 DEF Range
    <3>6. i = j
      BY <2>1, <3>3, <3>4, <3>5 DEF IsInjective
    <3> QED BY <3>3, <3>4, <3>5, <3>6
  <2>2. ASSUME NEW q, Queued(q) # {} PROVE \E w \in Workers : t \in Range(q[w])
    <3>1. PICK x \in Queued(q) : TRUE
      BY <2>2
    <3>2. PICK u \in Workers : x \in {u} \X {i \in DOMAIN q[u] : q[u][i] = t}
      BY <3>1
    <3>3. PICK i \in DOMAIN q[u] : q[u][i] = t
      BY <3>2
    <3> QED BY <3>3 DEF Range
  <2> HIDE DEF Queued
  <2>3. \A k, l \in Kinds : \A a, b \in Threads : Has(k, a, t) /\ Has(l, b, t) => k = l /\ a = b
    BY DEF SchedInv, PlaceInv
  <2>4. "rq" \in Kinds /\ "remote" \in Kinds /\ "cur" \in Kinds /\ "args" \in Kinds
    BY DEF Kinds
  <2>5. /\ \A w \in Workers : t \in Range(rq[w]) => Has("rq", w, t)
        /\ \A w \in Workers : t \in Range(remote_rq[w]) => Has("remote", w, t)
        /\ \A w \in Run : Has("cur", w, t)
        /\ \A a \in Push : Has("args", a, t)
    BY DEF Has
  <2>6. Run \subseteq Threads /\ Push \subseteq Threads /\ Workers \subseteq Threads
    BY Apart
  <2>7. AtMostOne(Run) /\ AtMostOne(Push)
    BY <2>3, <2>4, <2>5, <2>6
  <2>8. AtMostOne(Queued(rq)) /\ AtMostOne(Queued(remote_rq))
    <3>1. \A w \in Workers : IsInjective(rq[w]) /\ IsInjective(remote_rq[w])
      BY DEF SchedInv, PlaceInv
    <3>2. \A u, v \in Workers : t \in Range(rq[u]) /\ t \in Range(rq[v]) => u = v
      BY <2>3, <2>4, <2>5, <2>6
    <3>3. \A u, v \in Workers : t \in Range(remote_rq[u]) /\ t \in Range(remote_rq[v]) => u = v
      BY <2>3, <2>4, <2>5, <2>6
    <3> QED BY <2>1, <3>1, <3>2, <3>3
  <2>9. /\ Queued(rq) = {} \/ (Queued(remote_rq) = {} /\ Run = {} /\ Push = {})
        /\ Queued(remote_rq) = {} \/ (Run = {} /\ Push = {})
        /\ Run = {} \/ Push = {}
    <3>1. Queued(rq) # {} => \E a \in Threads : Has("rq", a, t)
      BY <2>2, <2>5, <2>6
    <3>2. Queued(remote_rq) # {} => \E a \in Threads : Has("remote", a, t)
      BY <2>2, <2>5, <2>6
    <3>3. Run # {} => \E a \in Threads : Has("cur", a, t)
      BY <2>5, <2>6
    <3>4. Push # {} => \E a \in Threads : Has("args", a, t)
      BY <2>5, <2>6
    <3> HIDE DEF Run, Push
    <3> QED BY <2>3, <2>4, <3>1, <3>2, <3>3, <3>4
  <2>10. ASSUME NEW S, AtMostOne(S)
         PROVE  Cardinality(S) \in {0, 1} /\ (S = {} => Cardinality(S) = 0)
    <3>1. CASE S = {}
      BY <3>1, FS_EmptySet
    <3>2. CASE S # {}
      <4>1. PICK x : x \in S
        BY <3>2
      <4>2. S = {x}
        BY <2>10, <4>1
      <4> QED BY <4>2, FS_Singleton
    <3> QED BY <3>1, <3>2
  <2> HIDE DEF Run, Push, AtMostOne
  <2>11. /\ Cardinality(Queued(rq)) \in {0, 1} /\ (Queued(rq) = {} => Cardinality(Queued(rq)) = 0)
         /\ Cardinality(Queued(remote_rq)) \in {0, 1}
         /\ (Queued(remote_rq) = {} => Cardinality(Queued(remote_rq)) = 0)
         /\ Cardinality(Run) \in {0, 1} /\ (Run = {} => Cardinality(Run) = 0)
         /\ Cardinality(Push) \in {0, 1} /\ (Push = {} => Cardinality(Push) = 0)
    BY <2>7, <2>8, <2>10
  <2>12. Cardinality(Queued(rq)) + Cardinality(Queued(remote_rq))
           + Cardinality(Run) + Cardinality(Push) <= 1
    BY <2>9, <2>11
  <2> QED BY <2>12 DEF Queued, Run, Push
<1> QED BY <1>1, <1>2 DEF OnePlace

\* A tid is in at most one place of the scheduler, as long as no thread has come to a
\* TaskControl without groups, which only a stop can empty.
THEOREM TidIsInOnePlace ==
    Spec => []((\A c \in NonWorkers : pc[c] # "null_group") => OnePlace)
<1>1. SchedInv => ((\A c \in NonWorkers : pc[c] # "null_group") => OnePlace)
  BY PlacesCounted
<1> QED BY <1>1, SchedInvariant, PTL

\* Until bthread_stop_world is called there is no such thread.
THEOREM TidIsInOnePlaceUntilStop == Spec => [](~stop => OnePlace)
<1>1. SchedInv => (~stop => OnePlace)
  <2>1. SchedInv /\ ~stop => \A c \in NonWorkers : pc[c] # "null_group"
    BY DEF SchedInv, GroupInv
  <2> QED BY <2>1, PlacesCounted
<1> QED BY <1>1, SchedInvariant, PTL

\* Workers never all sleep while there is work that was signalled.
THEOREM WorkersDoNotIdle == Spec => []NoIdleWithWork
<1>1. SchedInv => NoIdleWithWork
  <2> SUFFICES ASSUME SchedInv, AllParked, ~stop, NEW g \in Workers
               PROVE  /\ rq[g] = <<>>
                      /\ remote_rq[g] # <<>> => remote_num_nosignal[g] > 0
    BY DEF NoIdleWithWork
  <2>1. Types /\ WorkerOK(g) /\ GroupInv /\ OwnQueueSeen(g) /\ RemoteInv
    BY DEF SchedInv, WorkerInv, OwnQueueInv
  <2>2. \A w \in Workers : pc[w] \in {"none", "parked"}
    BY <2>1 DEF AllParked, Created, GroupInv
  <2>3. rq[g] = <<>>
    BY <2>1, <2>2 DEF WorkerOK, OwnQueueSeen
  <2>4. ~RemoteWork(g)
    <3>1. \A w \in Workers : ~WillSee(w, g)
      BY <2>2 DEF WillSee
    <3>2. \A a \in Threads : ~Covers(a, g)
      BY DEF AllParked, Covers, Free
    <3> QED BY <2>1, <3>1, <3>2 DEF RemoteInv
  <2>5. remote_num_nosignal[g] \in Nat
    BY <2>1 DEF Types
  <2> QED BY <2>3, <2>4, <2>5 DEF RemoteWork
<1> QED BY <1>1, SchedInvariant, PTL

=============================================================================
