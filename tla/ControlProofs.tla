---------------------------- MODULE ControlProofs ----------------------------
(***************************************************************************)
(* TLAPS proofs about Control for any number of threads, workers,          *)
(* TaskControls and calls: there is one TaskControl, it knows its workers  *)
(* exactly, and choose_one_group finds a TaskGroup until it is stopped.    *)
(***************************************************************************)
EXTENDS Control, FiniteSetTheorems, SequenceTheorems, TLAPS

-----------------------------------------------------------------------------
(* The inductive invariant.  Most of it is said of the record r of a       *)
(* thread.                                                                 *)

\* Where a thread holds g_task_control_mutex: in bthread_setconcurrency, in
\* add_workers, in init, and while a TaskControl that could not be initialised is
\* deleted.
Setting(r) == r.pc \in {"set_raise", "set_repair", "set_more", "set_add", "set_store",
                        "set_equal"}
Adding(r) == r.pc \in {"add", "add_create", "added"}
Deleting(r) == r.pc \in {"delete", "lots", "join"}
Making(r) == r.pc \in {"init", "wait"} \/ (Deleting(r) /\ r.call = "start")

MutexInv ==
    \A a \in Agents : Adding(th[a]) \/ Making(th[a]) \/ Setting(th[a]) => mutex = a

\* Where workers and where other threads are, and in which call.
WorkerPlace(r) ==
    /\ Adding(r) \/ r.pc \in {"none", "created", "signal", "grow_lock", "run", "exited"}
    /\ r.pc = "none" <=> r.at = 0
    /\ r.call = "none"

CallerPlace(r) ==
    /\ r.pc \notin {"none", "created", "signal", "run", "exited"}
    /\ r.pc \in {"get", "get_lock", "choose", "index", "push", "grow_lock", "init", "wait"}
          => r.call = "start"
    /\ Deleting(r) => r.call \in {"start", "stop"}
    /\ r.pc = "stop" => r.call = "stop"
    /\ Setting(r) \/ r.pc \in {"set", "set_min", "set_flag", "set_peek", "set_peek2",
                               "set_lock"}
          => r.call \in {"set", "flag"}
    /\ r.pc \in {"min", "min_peek", "min_lock"} => r.call = "min"
    /\ r.pc = "assign" => r.call \in {"flag", "min"}

PlaceInv ==
    /\ \A w \in Workers : WorkerPlace(th[w])
    /\ \A t \in Callers : CallerPlace(th[t])

\* The TaskControl that a thread uses.
ThreadAt(r) ==
    /\ r.at <= made
    /\ Adding(r) => g # 0 /\ r.at = g
    /\ Making(r) => g = 0 /\ made # 0 /\ r.at = made

CallerAt(r) ==
    /\ r.pc \in {"choose", "index", "push", "grow_lock"} => g # 0 /\ r.at = g
    /\ Deleting(r) /\ r.call = "stop" => g # 0 /\ r.at = g
    /\ r.pc \in {"set_peek2", "min_lock", "set_repair", "set_more", "set_add",
                 "set_store", "set_equal"} => g # 0

AtInv ==
    /\ g \in {0, made}
    /\ \A a \in Agents : ThreadAt(th[a])
    /\ \A t \in Callers : CallerAt(th[t])
    /\ \A w \in Workers :
          th[w].at \notin {0, g} /\ th[w].pc # "exited" =>
              \E t \in Callers : /\ mutex = t /\ (Making(th[t]) \/ th[t].pc = "crashed")
                                 /\ th[t].at = th[w].at

\* The workers of TaskControl c, and what its first k slots hold.
WorkersOf(c) == {w \in Workers : th[w].at = c}
Slots(c, k) == {tc[c].workers[i] : i \in 1..k}

\* Every slot holds a worker of its own, nothing else is a worker.
Matched(c) ==
    tc[c].concurrency = Len(tc[c].workers) /\ Slots(c, tc[c].concurrency) = WorkersOf(c)

\* _workers while workers are added: k of n slots are in use.
AddingOK(r) ==
    LET k == tc[r.at].concurrency
        n == Len(tc[r.at].workers) IN
    /\ r.pc = "add" => /\ k >= r.old /\ r.idx >= 1 /\ k + r.idx = n
                       /\ Slots(r.at, k) = WorkersOf(r.at)
    /\ r.pc = "add_create" => /\ k > r.old /\ r.idx >= 1 /\ k - 1 + r.idx = n
                              /\ Slots(r.at, k - 1) = WorkersOf(r.at)
    /\ r.pc = "added" => /\ k >= r.old /\ k <= n
                         /\ Slots(r.at, k) = WorkersOf(r.at)

\* _workers while init creates the workers, or when it failed.
MakingOK(r) ==
    LET n == Len(tc[r.at].workers) IN
    /\ r.pc = "init" => /\ tc[r.at].concurrency = n /\ r.idx \in 1..n
                        /\ Slots(r.at, r.idx - 1) = WorkersOf(r.at)
    /\ r.pc = "wait" => Matched(r.at)
    /\ Making(r) => WorkersOf(r.at) \subseteq Slots(r.at, n)
    /\ Making(r) /\ r.pc = "join" =>
          /\ r.idx >= 1
          /\ \A i \in 1..n : i < r.idx =>
                /\ tc[r.at].workers[i] \in Workers
                /\ th[tc[r.at].workers[i]].pc = "exited"

WorkersInv ==
    /\ g # 0 /\ (\A a \in Agents : ~Adding(th[a])) => Matched(g)
    /\ \A a \in Agents : AddingOK(th[a]) /\ MakingOK(th[a])

\* A setter whose argument was found valid has a number of workers.
ThreadNum(r) ==
    \/ Setting(r) \/ r.pc \in {"set_min", "set_flag", "set_peek", "set_peek2", "set_lock"}
    \/ Adding(r) /\ r.call \in {"set", "flag"}
    \/ r.pc = "assign" /\ r.call = "flag"
    => r.num \in Nat

NumInv ==
    /\ \A c \in 1..Controls : c > made => tc[c] = NewControl
    /\ \A a \in Agents : ThreadNum(th[a])

\* Below _ngroup there are groups.  It is 0 when _stop is set, so a worker that quits
\* finds no group to take out; until then the published TaskControl has a group.
ThreadGroups(r) ==
    /\ r.pc = "push" => r.held # NULL
    /\ r.seen # 0 => r.at # 0 /\ r.pc = "index"
    /\ r.pc \in {"lots", "null_group"} => r.at # 0 /\ tc[r.at].stop
    /\ \A i \in 1..r.seen : tc[r.at].groups[i] # NULL

GroupsInv ==
    /\ g # 0 => tc[g].stop \/ tc[g].ngroup # 0
    /\ \A c \in 1..Controls :
          /\ tc[c].stop => tc[c].ngroup = 0
          /\ tc[c].lots => tc[c].stop
          /\ \A i \in 1..tc[c].ngroup : tc[c].groups[i] # NULL
    /\ \A a \in Agents : ThreadGroups(th[a])

ControlInv ==
    TypeOK /\ MutexInv /\ PlaceInv /\ AtInv /\ WorkersInv /\ NumInv /\ GroupsInv

-----------------------------------------------------------------------------
(* Facts about types.                                                      *)

\* Threads that are not workers, workers and NULL are different things.
LEMMA Apart ==
    /\ NULL \notin Agents /\ Callers \cap Workers = {} /\ Agents = Callers \cup Workers
    /\ Pthreads \in Nat /\ Controls \in Nat /\ MaxCalls \in Nat /\ Nums \subseteq Int
    /\ MinConc \in Nat /\ MaxConc \in Nat /\ DefaultConc \in Nat
BY ControlAssumption DEF Agents, Workers

\* An argument of a setter is a number.
LEMMA Number ==
    ASSUME NEW n \in Nums \cup {0}
    PROVE  n \in Int
<1>1. \A m \in Nums : m \in Int
  BY ControlAssumption
<1>2. CASE n \in Nums
  BY <1>1, <1>2
<1>3. CASE n = 0
  BY <1>3
<1> QED BY <1>2, <1>3

\* The parts of a thread.
LEMMA Fields ==
    ASSUME NEW r \in ThreadStates
    PROVE  /\ r.pc \in Places /\ r.call \in {"none", "set", "flag", "min", "start", "stop"}
           /\ r.num \in Nums \cup {0} /\ r.num \in Int
           /\ r.at \in 0..Controls /\ r.at \in Nat
           /\ r.old \in Nat /\ r.idx \in Nat /\ r.seen \in 0..MaxConc
           /\ r.seen \in Nat /\ r.held \in Workers \cup {NULL}
<1>1. /\ r.pc \in Places /\ r.call \in {"none", "set", "flag", "min", "start", "stop"}
      /\ r.num \in Nums \cup {0} /\ r.at \in 0..Controls
      /\ r.old \in Nat /\ r.idx \in Nat /\ r.seen \in 0..MaxConc
      /\ r.held \in Workers \cup {NULL}
  BY DEF ThreadStates
<1>2. r.num \in Int
  BY <1>1, Number
<1>3. r.at \in Nat
  BY <1>1, Apart
<1>4. r.seen \in Nat
  BY <1>1, Apart
<1> QED BY <1>1, <1>2, <1>3, <1>4

\* The parts of a TaskControl.
LEMMA ControlFields ==
    ASSUME TypeOK, NEW c \in 1..Controls
    PROVE  /\ tc[c] \in ControlStates
           /\ tc[c].concurrency \in Nat /\ tc[c].workers \in Seq(Workers \cup {NULL})
           /\ Len(tc[c].workers) \in Nat
           /\ tc[c].ngroup \in 0..MaxConc /\ tc[c].ngroup \in Nat
           /\ tc[c].stop \in BOOLEAN /\ tc[c].lots \in BOOLEAN
           /\ tc[c].groups \in [1..MaxConc -> Workers \cup {NULL}]
<1>1. tc[c] \in ControlStates
  BY DEF TypeOK
<1> QED BY <1>1, Apart DEF ControlStates

\* A thread that begins or ends a call.
LEMMA NewThread ==
    ASSUME NEW p \in Places
    PROVE  /\ Thread(p) \in ThreadStates /\ Thread(p).pc = p /\ Thread(p).call = "none"
           /\ Thread(p).num = 0 /\ Thread(p).at = 0 /\ Thread(p).idx = 0
           /\ Thread(p).seen = 0 /\ Thread(p).held = NULL
BY Apart DEF Thread, ThreadStates

\* Only one thread holds the mutex.
LEMMA OneHolder ==
    ASSUME ControlInv, NEW a \in Agents, mutex = a \/ mutex = NULL,
           NEW b \in Agents, b # a
    PROVE  ~Adding(th[b]) /\ ~Making(th[b]) /\ ~Setting(th[b])
BY Apart DEF ControlInv, MutexInv

-----------------------------------------------------------------------------
(* Steps of one thread a, which becomes r.                                 *)

\* Workers keep their TaskControl, those that have exited stay so.
Stays(a, r) ==
    a \in Workers => r.at = th[a].at /\ (th[a].pc = "exited" => r.pc = "exited")

\* The others are as they were.
LEMMA OneThread ==
    ASSUME TypeOK, NEW a \in Agents, NEW r \in ThreadStates, th' = [th EXCEPT ![a] = r]
    PROVE  /\ th' \in [Agents -> ThreadStates] /\ th'[a] = r
           /\ \A b \in Agents : b # a => th'[b] = th[b]
BY DEF TypeOK

\* The workers of every TaskControl are as they were.
LEMMA WorkersStay ==
    ASSUME TypeOK, NEW a \in Agents, NEW r \in ThreadStates, th' = [th EXCEPT ![a] = r],
           Stays(a, r)
    PROVE  /\ \A w \in Workers : th'[w].at = th[w].at
           /\ \A w \in Workers : th[w].pc = "exited" => th'[w].pc = "exited"
           /\ \A c : WorkersOf(c)' = WorkersOf(c)
<1>1. th'[a] = r /\ \A b \in Agents : b # a => th'[b] = th[b]
  BY OneThread
<1>2. /\ \A w \in Workers : th'[w].at = th[w].at
      /\ \A w \in Workers : th[w].pc = "exited" => th'[w].pc = "exited"
  BY <1>1, Apart DEF Stays
<1> QED BY <1>2 DEF WorkersOf

\* What is said of a TaskControl's workers stays true.
LEMMA MatchedStays ==
    ASSUME NEW c \in 1..Controls, tc'[c].concurrency = tc[c].concurrency,
           tc'[c].workers = tc[c].workers, WorkersOf(c)' = WorkersOf(c)
    PROVE  /\ Matched(c)' <=> Matched(c)
           /\ \A k : Slots(c, k)' = Slots(c, k)
BY DEF Matched, Slots

\* What is said of the thread q that adds or creates them stays true.
LEMMA HolderStays ==
    ASSUME NEW q \in ThreadStates, q.at \in 1..Controls,
           tc'[q.at].concurrency = tc[q.at].concurrency,
           tc'[q.at].workers = tc[q.at].workers,
           WorkersOf(q.at)' = WorkersOf(q.at),
           \A w \in Workers : th[w].pc = "exited" => th'[w].pc = "exited"
    PROVE  (AddingOK(q) => AddingOK(q)') /\ (MakingOK(q) => MakingOK(q)')
<1>1. \A k : Slots(q.at, k)' = Slots(q.at, k)
  BY DEF Slots
<1>2. Matched(q.at)' <=> Matched(q.at)
  BY DEF Matched, Slots
<1>3. AddingOK(q) => AddingOK(q)'
  BY <1>1 DEF AddingOK
<1>4. MakingOK(q) => MakingOK(q)'
  BY <1>1, <1>2 DEF MakingOK
<1> QED BY <1>3, <1>4

\* Nothing is said of the threads that do not.
LEMMA NoHolder ==
    ASSUME NEW q, ~Adding(q), ~Making(q)
    PROVE  AddingOK(q) /\ MakingOK(q)
BY DEF Adding, Making, AddingOK, MakingOK

\* What is said of the record of thread b after the step.
LEMMA Primed ==
    ASSUME NEW b, NEW q, th'[b] = q
    PROVE  /\ AddingOK(q)' <=> AddingOK(th[b])'
           /\ MakingOK(q)' <=> MakingOK(th[b])'
           /\ ThreadGroups(q)' <=> ThreadGroups(th[b])'
           /\ ThreadAt(q)' <=> ThreadAt(th[b])'
           /\ CallerAt(q)' <=> CallerAt(th[b])'
<1>1. AddingOK(q)' <=> AddingOK(th[b])'
  BY DEF AddingOK
<1>2. MakingOK(q)' <=> MakingOK(th[b])'
  BY DEF MakingOK
<1>3. ThreadGroups(q)' <=> ThreadGroups(th[b])'
  BY DEF ThreadGroups
<1>4. (ThreadAt(q)' <=> ThreadAt(th[b])') /\ (CallerAt(q)' <=> CallerAt(th[b])')
  BY DEF ThreadAt, CallerAt
<1> QED BY <1>1, <1>2, <1>3, <1>4

(***************************************************************************)
(* A step outside the critical section of g_task_control_mutex, or within  *)
(* stop_and_join, that changes no number of workers.                       *)
(***************************************************************************)
LEMMA LocalStep ==
    ASSUME ControlInv, NEW a \in Agents, NEW r \in ThreadStates,
           th' = [th EXCEPT ![a] = r], Stays(a, r),
           UNCHANGED <<mutex, g, made>>,
           conc' \in Nat, minc' \in Nums \cup {0}, never_set' \in BOOLEAN,
           calls' \in 0..MaxCalls,
           tc' \in [1..Controls -> ControlStates],
           \A c \in 1..Controls : /\ tc'[c].concurrency = tc[c].concurrency
                                  /\ tc'[c].workers = tc[c].workers
                                  /\ c > made => tc'[c] = tc[c],
           ~Adding(th[a]), ~Adding(r), Setting(r) => mutex = a, r.pc \notin {"init", "wait"},
           Making(r) => Making(th[a]), th[a].pc # "crashed",
           Making(th[a]) => r.at = th[a].at /\ (Making(r) \/ r.pc = "crashed"),
           a \in Workers => WorkerPlace(r),
           a \in Callers => CallerPlace(r) /\ CallerAt(r),
           r.at <= made, MakingOK(r), ThreadNum(r), GroupsInv'
    PROVE  ControlInv'
<1>1. /\ th' \in [Agents -> ThreadStates] /\ th'[a] = r
      /\ \A b \in Agents : b # a => th'[b] = th[b]
  BY OneThread DEF ControlInv
<1>2. /\ \A w \in Workers : th'[w].at = th[w].at
      /\ \A w \in Workers : th[w].pc = "exited" => th'[w].pc = "exited"
      /\ \A c : WorkersOf(c)' = WorkersOf(c)
  BY WorkersStay DEF ControlInv
<1>3. TypeOK'
  BY <1>1 DEF ControlInv, TypeOK
<1>4. /\ mutex' = mutex /\ g' = g /\ made' = made
  OBVIOUS
<1>5. MutexInv'
  BY <1>1, <1>4 DEF ControlInv, MutexInv
<1>6. PlaceInv'
  BY <1>1, Apart DEF ControlInv, PlaceInv
<1>7. AtInv'
  <2>1. \A b \in Agents : ThreadAt(th'[b])
    <3>1. ThreadAt(r)
      BY DEF ControlInv, AtInv, ThreadAt
    <3> QED BY <1>1, <3>1 DEF ControlInv, AtInv
  <2>2. \A t \in Callers : CallerAt(th'[t])
    BY <1>1, Apart DEF ControlInv, AtInv
  <2>3. ASSUME NEW w \in Workers, th'[w].at \notin {0, g}, th'[w].pc # "exited"
        PROVE  \E t \in Callers : /\ mutex = t /\ (Making(th'[t]) \/ th'[t].pc = "crashed")
                                  /\ th'[t].at = th'[w].at
    <3>1. PICK t \in Callers : /\ mutex = t /\ (Making(th[t]) \/ th[t].pc = "crashed")
                               /\ th[t].at = th[w].at
      BY <1>2, <2>3 DEF ControlInv, AtInv
    <3> QED BY <1>1, <1>2, <3>1, Apart
  <2>4. \A b \in Agents : ThreadAt(th[b])' <=> ThreadAt(th'[b])
    BY <1>4 DEF ThreadAt
  <2>5. \A t \in Callers : CallerAt(th[t])' <=> CallerAt(th'[t])
    BY <1>4 DEF CallerAt
  <2>6. g' \in {0, made'}
    BY <1>4 DEF ControlInv, AtInv
  <2> QED BY <1>4, <2>1, <2>2, <2>3, <2>4, <2>5, <2>6 DEF AtInv
<1>8. \A b \in Agents : Adding(th'[b]) \/ Making(th'[b]) => th'[b].at \in 1..Controls
  <2>1. \A b \in Agents : ThreadAt(th[b])' /\ th'[b].at \in 0..Controls /\ th'[b].at \in Nat
    BY <1>1, <1>7, Fields DEF AtInv
  <2> QED BY <2>1 DEF ThreadAt, ControlInv, TypeOK, AtInv
<1>9. WorkersInv'
  <2>1. ASSUME g # 0, \A b \in Agents : ~Adding(th'[b]) PROVE Matched(g)'
    <3>1. \A b \in Agents : ~Adding(th[b])
      BY <1>1, <2>1
    <3>2. Matched(g) /\ g \in 1..Controls
      BY <2>1, <3>1, Apart DEF ControlInv, WorkersInv, TypeOK
    <3>3. Matched(g)' <=> Matched(g)
      BY <1>2, <1>4, <3>2 DEF Matched, Slots
    <3> QED BY <3>2, <3>3
  <2>2. ASSUME NEW b \in Agents, b # a PROVE AddingOK(th[b])' /\ MakingOK(th[b])'
    <3>1. PICK q \in ThreadStates : q = th[b]
      BY Fields DEF ControlInv, TypeOK
    <3>2. th'[b] = q /\ AddingOK(q) /\ MakingOK(q)
      BY <1>1, <2>2, <3>1 DEF ControlInv, WorkersInv
    <3>3. CASE ~Adding(q) /\ ~Making(q)
      BY <3>2, <3>3 DEF AddingOK, MakingOK, Adding, Making
    <3>4. CASE Adding(q) \/ Making(q)
      <4>1. q.at \in 1..Controls
        BY <1>8, <3>2, <3>4
      <4>2. AddingOK(q)' /\ MakingOK(q)'
        BY <1>2, <3>2, <4>1, HolderStays
      <4> QED BY <3>2, <4>2, Primed
    <3> QED BY <3>3, <3>4
  <2>3. AddingOK(th[a])' /\ MakingOK(th[a])'
    <3>1. th'[a] = r
      BY <1>1
    <3>2. CASE ~Making(r)
      BY <3>1, <3>2 DEF AddingOK, MakingOK, Adding, Making
    <3>3. CASE Making(r)
      <4>1. r.at \in 1..Controls
        BY <1>8, <3>1, <3>3
      <4>2. MakingOK(r)'
        BY <1>2, <4>1, HolderStays
      <4>3. AddingOK(r)'
        BY DEF AddingOK, Adding
      <4> QED BY <3>1, <4>2, <4>3, Primed
    <3> QED BY <3>2, <3>3
  <2>4. \A b \in Agents : AddingOK(th[b])' /\ MakingOK(th[b])'
    BY <2>2, <2>3
  <2>5. g' # 0 /\ (\A b \in Agents : ~Adding(th'[b])) => Matched(g)'
    BY <1>4, <2>1
  <2> QED BY <2>4, <2>5 DEF WorkersInv, Adding
<1>10. NumInv'
  BY <1>1, <1>4 DEF ControlInv, NumInv
<1> QED BY <1>3, <1>5, <1>6, <1>7, <1>9, <1>10 DEF ControlInv

\* Groups are as they were, and what the threads use of them were groups.
LEMMA GroupsKept ==
    ASSUME ControlInv, g' # g => g' \in 1..Controls /\ tc[g'].ngroup # 0,
           \A c \in 1..Controls : /\ tc'[c].ngroup = tc[c].ngroup /\ tc'[c].stop = tc[c].stop
                                  /\ tc'[c].lots = tc[c].lots /\ tc'[c].groups = tc[c].groups,
           \A b \in Agents : \E q \in ThreadStates : q = th'[b] /\ ThreadGroups(q)
    PROVE  GroupsInv'
<1>1. ASSUME NEW q \in ThreadStates, ThreadGroups(q) PROVE ThreadGroups(q)'
  <2>1. q.at \in 0..Controls /\ q.seen \in Nat /\ q.at \in Nat
    BY Fields
  <2>2. CASE q.seen = 0 /\ q.pc \notin {"lots", "null_group"}
    BY <1>1, <2>2 DEF ThreadGroups
  <2>3. CASE q.seen # 0 \/ q.pc \in {"lots", "null_group"}
    <3>1. q.at \in 1..Controls
      BY <1>1, <2>1, <2>3, Apart DEF ThreadGroups
    <3> QED BY <1>1, <3>1 DEF ThreadGroups
  <2> QED BY <2>2, <2>3
<1>2. ASSUME NEW b \in Agents PROVE ThreadGroups(th[b])'
  <2>1. PICK q \in ThreadStates : q = th'[b] /\ ThreadGroups(q)
    OBVIOUS
  <2> QED BY <1>1, <2>1, Primed
<1>3. \A c \in 1..Controls :
          /\ tc'[c].stop => tc'[c].ngroup = 0
          /\ tc'[c].lots => tc'[c].stop
          /\ \A i \in 1..tc'[c].ngroup : tc'[c].groups[i] # NULL
  BY DEF ControlInv, GroupsInv
<1>4. g' # 0 => tc'[g'].stop \/ tc'[g'].ngroup # 0
  <2>1. g # 0 => g \in 1..Controls
    BY Apart DEF ControlInv, TypeOK
  <2> QED BY <2>1 DEF ControlInv, GroupsInv
<1> QED BY <1>2, <1>3, <1>4 DEF GroupsInv

\* The same, when only thread a changes.
LEMMA GroupsStay ==
    ASSUME ControlInv, NEW a \in Agents, NEW r \in ThreadStates,
           th' = [th EXCEPT ![a] = r], g' = g,
           \A c \in 1..Controls : /\ tc'[c].ngroup = tc[c].ngroup /\ tc'[c].stop = tc[c].stop
                                  /\ tc'[c].lots = tc[c].lots /\ tc'[c].groups = tc[c].groups,
           ThreadGroups(r)
    PROVE  GroupsInv'
<1>1. th'[a] = r /\ \A b \in Agents : b # a => th'[b] = th[b]
  BY OneThread DEF ControlInv
<1>2. \A b \in Agents : \E q \in ThreadStates : q = th'[b] /\ ThreadGroups(q)
  BY <1>1 DEF ControlInv, GroupsInv, TypeOK
<1> QED BY <1>2, GroupsKept

(***************************************************************************)
(* A step of thread a, which becomes r, outside the critical section, that *)
(* changes no TaskControl.                                                 *)
(***************************************************************************)
LEMMA ThreadStep ==
    ASSUME ControlInv, NEW a \in Agents, NEW r \in ThreadStates,
           th' = [th EXCEPT ![a] = r], Stays(a, r),
           UNCHANGED <<mutex, controlVars>>,
           conc' \in Nat, minc' \in Nums \cup {0}, never_set' \in BOOLEAN,
           calls' \in 0..MaxCalls,
           ~Adding(th[a]), ~Adding(r), ~Making(th[a]), ~Making(r), Setting(r) => mutex = a,
           th[a].pc # "crashed",
           a \in Workers => WorkerPlace(r),
           a \in Callers => CallerPlace(r) /\ CallerAt(r),
           r.at <= made, ThreadNum(r), ThreadGroups(r)
    PROVE  ControlInv'
<1>1. UNCHANGED <<mutex, g, made>> /\ tc' = tc
  BY DEF controlVars
<1>2. GroupsInv'
  BY <1>1, GroupsStay
<1>3. MakingOK(r) /\ r.pc \notin {"init", "wait"}
  BY DEF MakingOK, Making
<1>4. tc' \in [1..Controls -> ControlStates]
  BY <1>1 DEF ControlInv, TypeOK
<1>5. \A c \in 1..Controls : /\ tc'[c].concurrency = tc[c].concurrency
                             /\ tc'[c].workers = tc[c].workers
                             /\ c > made => tc'[c] = tc[c]
  BY <1>1
<1> QED BY <1>1, <1>2, <1>3, <1>4, <1>5, LocalStep

(***************************************************************************)
(* A step of the holder a of the mutex, or of a thread that takes it, which *)
(* becomes r and creates the workers in N.                                 *)
(***************************************************************************)
LEMMA HolderStep ==
    ASSUME ControlInv, TypeOK', NEW a \in Agents, mutex = a \/ mutex = NULL,
           NEW r \in ThreadStates, th'[a] = r,
           NEW N \in SUBSET Workers, a \notin N,
           \A w \in N : /\ th'[w].pc = "created" /\ th'[w].call = "none"
                        /\ th'[w].at = r.at /\ th'[w].seen = 0 /\ r.at # 0,
           \A b \in Agents : b # a /\ b \notin N => th'[b] = th[b],
           \A c \in 1..Controls : /\ tc'[c].ngroup = tc[c].ngroup /\ tc'[c].stop = tc[c].stop
                                  /\ tc'[c].lots = tc[c].lots /\ tc'[c].groups = tc[c].groups
                                  /\ c > made' => tc'[c] = NewControl,
           g' \in {0, made'}, g # 0 => g' = g, made <= made',
           g' # g => g' \in 1..Controls /\ tc[g'].ngroup # 0,
           Adding(r) \/ Making(r) \/ Setting(r) => mutex' = a,
           a \in Workers => WorkerPlace(r),
           a \in Callers => CallerPlace(r) /\ CallerAt(r)',
           ThreadAt(r)', AddingOK(r)', MakingOK(r)', ThreadNum(r), ThreadGroups(r),
           g' # 0 /\ ~Adding(r) => Matched(g)',
           \A w \in Workers :
              th'[w].at \notin {0, g'} /\ th'[w].pc # "exited" =>
                  \E t \in Callers :
                      /\ mutex' = t /\ (Making(th'[t]) \/ th'[t].pc = "crashed")
                      /\ th'[t].at = th'[w].at
    PROVE  ControlInv'
<1>1. \A b \in Agents : b # a /\ b \notin N =>
          th'[b] = th[b] /\ ~Adding(th[b]) /\ ~Making(th[b]) /\ ~Setting(th[b])
  BY OneHolder
<1>2. \A w \in N : w \in Workers /\ w \in Agents /\ w \notin Callers /\ w # a
  BY Apart
<1>3. \A w \in N : ~Adding(th'[w]) /\ ~Making(th'[w]) /\ ~Setting(th'[w])
  BY DEF Adding, Making, Deleting, Setting
<1>4. MutexInv'
  BY <1>1, <1>3 DEF MutexInv
<1>5. PlaceInv'
  <2>1. \A w \in N : WorkerPlace(th'[w])
    BY DEF WorkerPlace
  <2>2. \A w \in Workers : WorkerPlace(th'[w])
    BY <1>1, <2>1, Apart DEF ControlInv, PlaceInv
  <2>3. \A t \in Callers : CallerPlace(th'[t])
    BY <1>1, <1>2, Apart DEF ControlInv, PlaceInv
  <2> QED BY <2>2, <2>3 DEF PlaceInv
<1>6. AtInv'
  <2>1. ASSUME NEW b \in Agents PROVE ThreadAt(th[b])'
    <3>1. CASE b = a
      BY <3>1, Primed
    <3>2. CASE b \in N
      <4>1. th'[b].at <= made'
        BY <3>2 DEF ThreadAt
      <4> QED BY <1>3, <3>2, <4>1 DEF ThreadAt, Adding, Making, Deleting, Setting
    <3>3. CASE b # a /\ b \notin N
      <4>1. /\ th'[b] = th[b] /\ ~Adding(th[b]) /\ ~Making(th[b])
            /\ th[b].at <= made /\ th[b].at \in Nat /\ made \in Nat /\ made' \in Nat
        BY <1>1, <3>3, Fields, Apart DEF ControlInv, AtInv, ThreadAt, TypeOK
      <4>2. th[b].at <= made'
        BY <4>1
      <4> QED BY <4>1, <4>2 DEF ThreadAt
    <3> QED BY <3>1, <3>2, <3>3
  <2>2. ASSUME NEW t \in Callers PROVE CallerAt(th[t])'
    <3>1. CASE t = a
      BY <3>1, Primed
    <3>2. CASE t # a
      <4>1. th'[t] = th[t] /\ CallerAt(th[t])
        BY <1>1, <1>2, <3>2, Apart DEF ControlInv, AtInv
      <4> QED BY <4>1 DEF CallerAt
    <3> QED BY <3>1, <3>2
  <2> QED BY <2>1, <2>2 DEF AtInv
<1>7. WorkersInv'
  <2>1. ASSUME NEW b \in Agents PROVE AddingOK(th[b])' /\ MakingOK(th[b])'
    <3>1. CASE b = a
      BY <3>1, Primed
    <3>2. CASE b # a
      <4>1. ~Adding(th'[b]) /\ ~Making(th'[b])
        BY <1>1, <1>3, <3>2
      <4> QED BY <4>1 DEF AddingOK, MakingOK, Adding, Making
    <3> QED BY <3>1, <3>2
  <2>2. g' # 0 /\ (\A b \in Agents : ~Adding(th'[b])) => Matched(g)'
    OBVIOUS
  <2> QED BY <2>1, <2>2 DEF WorkersInv, Adding
<1>8. NumInv'
  <2>1. ASSUME NEW b \in Agents PROVE ThreadNum(th'[b])
    <3>1. CASE b \in N
      BY <1>3, <3>1 DEF ThreadNum, Adding, Setting
    <3> QED BY <1>1, <3>1 DEF ControlInv, NumInv
  <2> QED BY <2>1 DEF NumInv
<1>9. GroupsInv'
  <2>1. ASSUME NEW b \in Agents PROVE \E q \in ThreadStates : q = th'[b] /\ ThreadGroups(q)
    <3>1. CASE b = a
      BY <3>1
    <3>2. CASE b \in N
      <4>1. PICK q \in ThreadStates : q = th'[b]
        BY DEF TypeOK
      <4>2. ThreadGroups(q)
        BY <3>2, <4>1 DEF ThreadGroups
      <4> QED BY <4>1, <4>2
    <3>3. CASE b # a /\ b \notin N
      BY <1>1, <3>3 DEF ControlInv, GroupsInv, TypeOK
    <3> QED BY <3>1, <3>2, <3>3
  <2> QED BY <2>1, GroupsKept
<1> QED BY <1>4, <1>5, <1>6, <1>7, <1>8, <1>9 DEF ControlInv

\* Thread a goes to p.
LEMMA Moved ==
    ASSUME TypeOK, NEW a \in Agents, NEW p \in Places
    PROVE  LET r == [th[a] EXCEPT !.pc = p] IN
           /\ r \in ThreadStates /\ r.pc = p /\ r.call = th[a].call /\ r.num = th[a].num
           /\ r.at = th[a].at /\ r.old = th[a].old /\ r.idx = th[a].idx
           /\ r.seen = th[a].seen /\ r.held = th[a].held
<1>1. th[a] \in ThreadStates
  BY DEF TypeOK
<1> QED BY <1>1 DEF ThreadStates

\* The flags may stay as they are.
LEMMA FlagsStay ==
    ASSUME ControlInv, UNCHANGED flagVars
    PROVE  /\ conc' \in Nat /\ minc' \in Nums \cup {0} /\ never_set' \in BOOLEAN
           /\ conc' = conc /\ minc' = minc /\ never_set' = never_set
BY DEF flagVars, ControlInv, TypeOK

\* Thread a goes to p and changes nothing else.
LEMMA GotoKeeps ==
    ASSUME ControlInv, NEW a \in Agents, NEW p \in Places, Goto(a, p),
           UNCHANGED <<flagVars, mutex, controlVars>>, calls' \in 0..MaxCalls,
           LET r == [th[a] EXCEPT !.pc = p] IN
           /\ Stays(a, r) /\ ~Adding(th[a]) /\ ~Adding(r) /\ ~Making(th[a]) /\ ~Making(r)
           /\ Setting(r) => mutex = a
           /\ a \in Workers => WorkerPlace(r)
           /\ a \in Callers => CallerPlace(r) /\ CallerAt(r)
           /\ ThreadNum(r) /\ p \notin {"push", "lots", "null_group"}
           /\ th[a].pc \notin {"index", "crashed"}
    PROVE  ControlInv'
<1> DEFINE q == [th[a] EXCEPT !.pc = p]
<1>1. /\ q \in ThreadStates /\ q.pc = p /\ q.at = th[a].at /\ q.seen = th[a].seen
  BY Moved DEF ControlInv
<1>2. PICK r \in ThreadStates : r = q
  BY <1>1
<1>3. th' = [th EXCEPT ![a] = r]
  BY <1>2 DEF Goto
<1>4. /\ Stays(a, r) /\ ~Adding(th[a]) /\ ~Adding(r) /\ ~Making(th[a]) /\ ~Making(r)
      /\ Setting(r) => mutex = a
      /\ a \in Workers => WorkerPlace(r)
      /\ a \in Callers => CallerPlace(r) /\ CallerAt(r)
      /\ ThreadNum(r) /\ p \notin {"push", "lots", "null_group"}
      /\ th[a].pc \notin {"index", "crashed"}
  BY <1>2
<1>5. /\ r.at = th[a].at /\ r.seen = th[a].seen /\ r.pc = p
  BY <1>1, <1>2
<1> HIDE DEF q
<1>6. ThreadGroups(r)
  BY <1>4, <1>5 DEF ControlInv, GroupsInv, ThreadGroups
<1>7. r.at <= made
  BY <1>5 DEF ControlInv, AtInv, ThreadAt
<1>8. UNCHANGED <<mutex, controlVars>> /\ UNCHANGED flagVars
  OBVIOUS
<1> QED BY <1>3, <1>4, <1>6, <1>7, <1>8, FlagsStay, ThreadStep

\* What a thread is when its call is over.
LEMMA DoneFacts ==
    ASSUME ControlInv, NEW a \in Agents, NEW ok \in BOOLEAN,
           th[a].pc \notin {"none", "exited"}
    PROVE  LET r == Done(a, ok) IN
           /\ r \in ThreadStates /\ Stays(a, r) /\ ~Adding(r) /\ ~Making(r) /\ ~Setting(r)
           /\ a \in Workers => WorkerPlace(r) /\ r.at = th[a].at
           /\ a \in Callers => CallerPlace(r) /\ CallerAt(r)
           /\ r.at <= made /\ ThreadGroups(r)
           /\ a \in Workers \/ r.pc = "idle" \/
                 /\ ok /\ th[a].call \in {"flag", "min"} /\ r.pc = "assign"
                 /\ r.call = th[a].call /\ r.num = th[a].num
           /\ a \in Workers => r.pc = "run"
<1>1. /\ th[a] \in ThreadStates /\ th[a].at <= made /\ ThreadGroups(th[a])
      /\ a \in Workers => WorkerPlace(th[a])
      /\ th[a].at \in 0..Controls /\ made \in Nat
  BY Fields, Apart DEF ControlInv, TypeOK, AtInv, ThreadAt, PlaceInv, GroupsInv
<1>2. CASE a \in Workers
  <2>1. PICK r : r = [Thread("run") EXCEPT !.at = th[a].at]
    OBVIOUS
  <2>2. /\ r \in ThreadStates /\ r.pc = "run" /\ r.call = "none" /\ r.at = th[a].at
        /\ r.seen = 0
    BY <1>1, <2>1, Apart DEF Thread, ThreadStates, Places
  <2>3. Done(a, ok) = r
    BY <1>2, <2>1 DEF Done
  <2>4. a \notin Callers
    BY <1>2, Apart
  <2>5. WorkerPlace(r) /\ Stays(a, r) /\ ~Adding(r) /\ ~Making(r) /\ ~Setting(r)
    BY <1>1, <1>2, <2>2 DEF WorkerPlace, Stays, Adding, Making, Deleting, Setting
  <2>6. ThreadGroups(r)
    BY <2>2 DEF ThreadGroups
  <2> QED BY <1>1, <1>2, <2>2, <2>3, <2>4, <2>5, <2>6
<1>3. CASE a \notin Workers /\ ok /\ th[a].call \in {"flag", "min"}
  <2>1. PICK r : r = [th[a] EXCEPT !.pc = "assign"]
    OBVIOUS
  <2>2. /\ r \in ThreadStates /\ r.pc = "assign" /\ r.call = th[a].call /\ r.at = th[a].at
        /\ r.seen = th[a].seen /\ r.num = th[a].num
    <3>1. "assign" \in Places /\ TypeOK
      BY DEF Places, ControlInv
    <3> QED BY <2>1, <3>1, Moved
  <2>3. Done(a, ok) = r
    BY <1>3, <2>1 DEF Done
  <2>4. CallerPlace(r) /\ CallerAt(r) /\ Stays(a, r) /\ ~Adding(r) /\ ~Making(r) /\ ~Setting(r)
    BY <1>3, <2>2 DEF CallerPlace, CallerAt, Stays, Adding, Making, Deleting, Setting
  <2>5. ThreadGroups(r)
    <3>1. CallerPlace(th[a])
      BY <1>3, Apart DEF ControlInv, PlaceInv
    <3> QED BY <1>1, <1>3, <2>2, <3>1 DEF ThreadGroups, CallerPlace, Setting
  <2> QED BY <1>1, <1>3, <2>2, <2>3, <2>4, <2>5
<1>4. CASE a \notin Workers /\ ~(ok /\ th[a].call \in {"flag", "min"})
  <2>1. PICK r : r = Thread("idle")
    OBVIOUS
  <2>2. r \in ThreadStates /\ r.pc = "idle" /\ r.call = "none" /\ r.at = 0 /\ r.seen = 0
    BY <2>1, NewThread DEF Places
  <2>3. Done(a, ok) = r
    BY <1>4, <2>1 DEF Done
  <2>4. CallerPlace(r) /\ CallerAt(r) /\ Stays(a, r) /\ ~Adding(r) /\ ~Making(r) /\ ~Setting(r)
    BY <1>4, <2>2 DEF CallerPlace, CallerAt, Stays, Adding, Making, Deleting, Setting
  <2>5. ThreadGroups(r)
    BY <2>2 DEF ThreadGroups
  <2>6. r.at <= made
    BY <1>1, <2>2
  <2> QED BY <1>4, <2>2, <2>3, <2>4, <2>5, <2>6
<1> QED BY <1>2, <1>3, <1>4

\* The call of thread a is over, or its worker runs on; gflags is to store an accepted
\* value.
LEMMA FinishKeeps ==
    ASSUME ControlInv, NEW a \in Agents, NEW ok \in BOOLEAN, Finish(a, ok),
           th[a].pc \notin {"none", "exited", "crashed"}, ~Adding(th[a]), ~Making(th[a]),
           UNCHANGED <<mutex, controlVars>>, calls' \in 0..MaxCalls,
           conc' \in Nat, minc' \in Nums \cup {0}, never_set' \in BOOLEAN,
           ok /\ th[a].call = "flag" => th[a].num \in Nat
    PROVE  ControlInv'
<1>1. PICK r : r = Done(a, ok)
  OBVIOUS
<1>2. /\ r \in ThreadStates /\ Stays(a, r) /\ ~Adding(r) /\ ~Making(r) /\ ~Setting(r)
      /\ a \in Workers => WorkerPlace(r) /\ r.at = th[a].at
      /\ a \in Callers => CallerPlace(r) /\ CallerAt(r)
      /\ r.at <= made /\ ThreadGroups(r)
      /\ a \in Workers \/ r.pc = "idle" \/
            /\ ok /\ th[a].call \in {"flag", "min"} /\ r.pc = "assign"
            /\ r.call = th[a].call /\ r.num = th[a].num
      /\ a \in Workers => r.pc = "run"
  BY <1>1, DoneFacts
<1>3. th' = [th EXCEPT ![a] = r]
  BY <1>1 DEF Finish
<1>4. ThreadNum(r)
  BY <1>2 DEF ThreadNum, Adding, Setting
<1> QED BY <1>2, <1>3, <1>4, ThreadStep

-----------------------------------------------------------------------------
(* The invariant is inductive: calls and the flags.                        *)

\* Nothing has begun.
LEMMA InitInv == Init => ControlInv
<1> SUFFICES ASSUME Init PROVE ControlInv
  OBVIOUS
<1>1. /\ conc \in MinConc..MaxConc /\ never_set \in BOOLEAN
      /\ mutex = NULL /\ g = 0 /\ made = 0 /\ calls = 0
      /\ tc = [c \in 1..Controls |-> NewControl]
      /\ th = [a \in Agents |-> Thread(IF a \in Workers THEN "none" ELSE "idle")]
      /\ minc \in {0} \cup {n \in Nums : MinConc <= n /\ n <= conc}
  BY DEF Init
<1>2. conc \in Nat /\ minc \in Nums \cup {0}
  BY <1>1, Apart
<1>3. "none" \in Places /\ "idle" \in Places
  BY DEF Places
<1>4. ASSUME NEW a \in Agents
      PROVE  /\ th[a] \in ThreadStates /\ th[a].call = "none" /\ th[a].num = 0
             /\ th[a].at = 0 /\ th[a].seen = 0
             /\ th[a].pc = IF a \in Workers THEN "none" ELSE "idle"
  BY <1>1, <1>3, NewThread
<1>5. NewControl \in ControlStates /\ NewControl.concurrency = 0 /\ NewControl.ngroup = 0
  <2>1. <<>> \in Seq(Workers \cup {NULL})
    OBVIOUS
  <2>2. 0 \in 0..MaxConc
    BY Apart
  <2> QED BY <2>1, <2>2 DEF NewControl, ControlStates
<1>6. TypeOK
  <2>1. th \in [Agents -> ThreadStates]
    BY <1>1, <1>3, NewThread
  <2>2. tc \in [1..Controls -> ControlStates]
    BY <1>1, <1>5
  <2>3. calls \in 0..MaxCalls /\ g \in 0..Controls /\ made \in 0..Controls
    BY <1>1, Apart
  <2> QED BY <1>1, <1>2, <2>1, <2>2, <2>3 DEF TypeOK
<1>7. MutexInv
  BY <1>4 DEF MutexInv, Adding, Making, Deleting, Setting
<1>8. PlaceInv
  BY <1>4, Apart DEF PlaceInv, WorkerPlace, CallerPlace, Adding, Deleting, Setting
<1>9. AtInv
  <2>1. \A a \in Agents : ThreadAt(th[a])
    BY <1>1, <1>4 DEF ThreadAt, Adding, Making, Deleting, Setting
  <2>2. \A t \in Callers : CallerAt(th[t])
    BY <1>4, Apart DEF CallerAt, Deleting
  <2>3. \A w \in Workers : th[w].at = 0
    BY <1>4, Apart
  <2> QED BY <1>1, <2>1, <2>2, <2>3 DEF AtInv
<1>10. WorkersInv
  <2>1. \A a \in Agents : ~Adding(th[a]) /\ ~Making(th[a])
    BY <1>4 DEF Adding, Making, Deleting, Setting
  <2> QED BY <1>1, <2>1, NoHolder DEF WorkersInv
<1>11. NumInv
  <2>1. \A a \in Agents : ThreadNum(th[a])
    BY <1>4 DEF ThreadNum, Adding, Setting
  <2> QED BY <1>1, <2>1 DEF NumInv
<1>12. GroupsInv
  <2>1. \A a \in Agents : ThreadGroups(th[a])
    BY <1>4 DEF ThreadGroups
  <2>2. \A c \in 1..Controls : tc[c].ngroup = 0 /\ ~tc[c].stop /\ ~tc[c].lots
    BY <1>1 DEF NewControl
  <2> QED BY <1>1, <2>1, <2>2 DEF GroupsInv
<1> QED BY <1>6, <1>7, <1>8, <1>9, <1>10, <1>11, <1>12 DEF ControlInv

\* A thread that is in no call begins one.
LEMMA CallKeeps ==
    ASSUME ControlInv, NEW t \in Callers,
           NEW kind \in {"set", "flag", "min", "start", "stop"},
           NEW n \in Nums \cup {0}, Call(t, kind, n)
    PROVE  ControlInv'
<1>1. /\ th[t].pc = "idle" /\ calls < MaxCalls /\ calls' = calls + 1
      /\ UNCHANGED flagVars /\ UNCHANGED <<mutex, controlVars>>
  BY DEF Call, At
<1>2. t \in Agents /\ t \notin Workers
  BY Apart
<1>3. PICK r : r = [th[t] EXCEPT !.pc = Entry(kind), !.call = kind, !.num = n]
  OBVIOUS
<1>4. th' = [th EXCEPT ![t] = r]
  BY <1>3 DEF Call
<1>5. /\ r \in ThreadStates /\ r.pc = Entry(kind) /\ r.call = kind /\ r.at = th[t].at
      /\ r.seen = th[t].seen
  <2>1. Entry(kind) \in Places
    BY DEF Entry, Places
  <2>2. th[t] \in ThreadStates
    BY <1>2 DEF ControlInv, TypeOK
  <2> QED BY <1>3, <2>1, <2>2 DEF ThreadStates
<1>6. /\ r.pc \in {"set", "min", "get", "stop"}
      /\ r.pc = "set" => kind \in {"set", "flag"}
      /\ r.pc = "min" => kind = "min"
      /\ r.pc = "get" => kind = "start"
      /\ r.pc = "stop" => kind = "stop"
  BY <1>5 DEF Entry
<1>7. /\ ~Adding(th[t]) /\ ~Adding(r) /\ ~Making(th[t]) /\ ~Making(r)
      /\ CallerPlace(r) /\ CallerAt(r) /\ ~Setting(r) /\ ThreadNum(r) /\ Stays(t, r)
  BY <1>1, <1>2, <1>5, <1>6
     DEF Adding, Making, Deleting, Setting, CallerPlace, CallerAt, ThreadNum, Stays
<1>8. ThreadGroups(r)
  BY <1>1, <1>2, <1>5, <1>6 DEF ControlInv, GroupsInv, ThreadGroups
<1>9. r.at <= made
  BY <1>2, <1>5 DEF ControlInv, AtInv, ThreadAt
<1>10. calls' \in 0..MaxCalls
  BY <1>1, Apart DEF ControlInv, TypeOK
<1> QED BY <1>1, <1>2, <1>4, <1>5, <1>7, <1>8, <1>9, <1>10, FlagsStay, ThreadStep

\* A setter goes on.
LEMMA SetterGoes ==
    ASSUME ControlInv, NEW t \in Callers, UNCHANGED <<flagVars, mutex, controlVars, calls>>,
           NEW p \in {"set_min", "set_flag", "set_peek", "set_peek2", "set_lock", "min_peek",
                      "min_lock"},
           Goto(t, p),
           IF p \in {"min_peek", "min_lock"}
           THEN th[t].pc \in {"min", "min_peek"}
           ELSE th[t].pc \in {"set", "set_min", "set_peek", "set_peek2"} /\ th[t].num \in Nat,
           p \in {"set_peek2", "min_lock"} => g # 0
    PROVE  ControlInv'
<1>1. t \in Agents /\ t \notin Workers /\ p \in Places
  BY Apart DEF Places
<1>2. PICK r : r = [th[t] EXCEPT !.pc = p]
  OBVIOUS
<1>3. /\ r.pc = p /\ r.call = th[t].call /\ r.num = th[t].num
  BY <1>1, <1>2, Moved DEF ControlInv
<1>4. CallerPlace(th[t])
  BY DEF ControlInv, PlaceInv
<1>5. ~Adding(th[t]) /\ ~Making(th[t]) /\ ~Adding(r) /\ ~Making(r) /\ ~Setting(r)
  BY <1>3 DEF Adding, Making, Deleting, Setting
<1>6. CallerPlace(r) /\ CallerAt(r)
  BY <1>3, <1>4 DEF CallerPlace, CallerAt, Deleting, Setting
<1>7. /\ ThreadNum(r) /\ Stays(t, r) /\ p \notin {"push", "lots", "null_group"}
      /\ th[t].pc \notin {"index", "crashed"}
  BY <1>1, <1>3, <1>5 DEF ThreadNum, Stays, Adding, Setting
<1>8. UNCHANGED <<flagVars, mutex, controlVars>> /\ calls' \in 0..MaxCalls
  BY DEF ControlInv, TypeOK
<1> QED BY <1>1, <1>2, <1>5, <1>6, <1>7, <1>8, GotoKeeps

\* gflags stores a value that was accepted.
LEMMA FlagAssignKeeps ==
    ASSUME ControlInv, NEW t \in Callers, FlagAssign(t)
    PROVE  ControlInv'
<1>1. /\ th[t].pc = "assign" /\ th' = [th EXCEPT ![t] = Thread("idle")]
      /\ UNCHANGED <<mutex, controlVars>> /\ calls' = calls /\ never_set' = never_set
      /\ t \in Agents /\ t \notin Workers
  BY Apart DEF FlagAssign, At
<1>2. /\ th[t].num \in Nums \cup {0} /\ conc \in Nat /\ minc \in Nums \cup {0}
  BY <1>1, Fields DEF ControlInv, TypeOK
<1>3. th[t].call \in {"flag", "min"} /\ ThreadNum(th[t])
  BY <1>1 DEF ControlInv, PlaceInv, CallerPlace, NumInv, Setting
<1>4. PICK r \in ThreadStates : /\ r = Thread("idle") /\ r.pc = "idle" /\ r.call = "none"
                                /\ r.at = 0 /\ r.seen = 0
  <2>1. "idle" \in Places
    BY DEF Places
  <2> QED BY <2>1, NewThread
<1>5. /\ ~Adding(th[t]) /\ ~Making(th[t])
      /\ ~Adding(r) /\ ~Making(r) /\ ~Setting(r) /\ Stays(t, r)
      /\ CallerPlace(r) /\ CallerAt(r) /\ ThreadNum(r) /\ ThreadGroups(r) /\ r.at <= made
  <2>1. r.at <= made
    BY <1>4, Apart DEF ControlInv, TypeOK
  <2>2. ThreadGroups(r)
    BY <1>4 DEF ThreadGroups
  <2> QED BY <1>1, <1>4, <2>1, <2>2
        DEF Adding, Making, Deleting, Setting, Stays, CallerPlace, CallerAt, ThreadNum
<1>6. conc' \in Nat /\ minc' \in Nums \cup {0}
  BY <1>1, <1>2, <1>3 DEF FlagAssign, ThreadNum, Adding, Setting
<1>7. never_set' \in BOOLEAN /\ calls' \in 0..MaxCalls
  BY <1>1 DEF ControlInv, TypeOK
<1> QED BY <1>1, <1>4, <1>5, <1>6, <1>7, ThreadStep

\* bthread_setconcurrency, without the steps that add workers.
LEMMA SetEnterKeeps ==
    ASSUME ControlInv, NEW t \in Callers, SetEnter(t)
    PROVE  ControlInv'
<1>1. /\ th[t].pc = "set" /\ UNCHANGED <<flagVars, mutex, controlVars, calls>>
      /\ t \in Agents
  BY Apart DEF SetEnter, At
<1>2. CASE Finish(t, FALSE)
  <2>1. calls' \in 0..MaxCalls /\ UNCHANGED flagVars /\ UNCHANGED <<mutex, controlVars>>
    BY <1>1 DEF ControlInv, TypeOK
  <2>2. ~Adding(th[t]) /\ ~Making(th[t])
    BY <1>1 DEF Adding, Making, Deleting, Setting
  <2> QED BY <1>1, <1>2, <2>1, <2>2, FlagsStay, FinishKeeps
<1>3. CASE /\ th[t].num \in MinConc..MaxConc
           /\ \E p \in {"set_min", "set_peek"} : Goto(t, p)
  <2>1. PICK p \in {"set_min", "set_peek"} : Goto(t, p)
    BY <1>3
  <2>2. th[t].num \in Nat
    BY <1>3, Apart
  <2> QED BY <1>1, <2>1, <2>2, SetterGoes
<1> QED BY <1>2, <1>3 DEF SetEnter

\* With a minimum, bthread_setconcurrency sets the flag alone.
LEMMA SetFlagKeeps ==
    ASSUME ControlInv, NEW t \in Callers, SetFlag(t)
    PROVE  ControlInv'
<1>1. /\ th[t].pc = "set_flag" /\ UNCHANGED <<mutex, controlVars>> /\ calls' = calls
      /\ never_set' = FALSE /\ conc' = th[t].num /\ minc' = minc /\ Finish(t, TRUE)
      /\ t \in Agents
  BY Apart DEF SetFlag, At
<1>2. th[t].num \in Nat /\ th[t].call \in {"set", "flag"}
  BY <1>1 DEF ControlInv, NumInv, ThreadNum, PlaceInv, CallerPlace, Adding, Setting
<1>3. ~Adding(th[t]) /\ ~Making(th[t])
  BY <1>1 DEF Adding, Making, Deleting
<1>4. conc' \in Nat /\ minc' \in Nums \cup {0} /\ calls' \in 0..MaxCalls
  BY <1>1, <1>2 DEF ControlInv, TypeOK
<1> QED BY <1>1, <1>2, <1>3, <1>4, FinishKeeps

\* bthread_setconcurrency reads the minimum, or the concurrency, without the mutex.
LEMMA SetPeekKeeps ==
    ASSUME ControlInv, NEW t \in Callers, SetMin(t) \/ SetPeek(t) \/ SetPeek2(t)
    PROVE  ControlInv'
<1>1. /\ th[t].pc \in {"set_min", "set_peek", "set_peek2"} /\ t \in Agents
      /\ UNCHANGED <<flagVars, mutex, controlVars, calls>>
  BY Apart DEF SetMin, SetPeek, SetPeek2, At
<1>2. th[t].num \in Nat /\ th[t].call \in {"set", "flag"}
  BY <1>1 DEF ControlInv, NumInv, ThreadNum, PlaceInv, CallerPlace, Adding, Setting
<1>3. CASE \E ok \in BOOLEAN : Finish(t, ok)
  <2>1. calls' \in 0..MaxCalls /\ UNCHANGED flagVars /\ UNCHANGED <<mutex, controlVars>>
    BY <1>1 DEF ControlInv, TypeOK
  <2>2. ~Adding(th[t]) /\ ~Making(th[t])
    BY <1>1 DEF Adding, Making, Deleting, Setting
  <2> QED BY <1>1, <1>2, <1>3, <2>1, <2>2, FlagsStay, FinishKeeps
<1>4. CASE \E p \in {"set_flag", "set_peek2", "set_lock"} :
              Goto(t, p) /\ (p = "set_peek2" => g # 0)
  <2>1. PICK p \in {"set_flag", "set_peek2", "set_lock"} :
               Goto(t, p) /\ (p = "set_peek2" => g # 0)
    BY <1>4
  <2> QED BY <1>1, <1>2, <2>1, SetterGoes
<1>5. CASE SetPeek(t)
  BY <1>3, <1>4, <1>5 DEF SetPeek
<1>6. CASE SetPeek2(t)
  BY <1>3, <1>4, <1>6 DEF SetPeek2
<1>7. CASE SetMin(t)
  BY <1>3, <1>4, <1>7 DEF SetMin
<1> QED BY <1>5, <1>6, <1>7

\* validate_bthread_min_concurrency, without the steps that add workers.
LEMMA MinEnterKeeps ==
    ASSUME ControlInv, NEW t \in Callers, MinEnter(t) \/ MinPeek(t)
    PROVE  ControlInv'
<1>1. /\ th[t].pc \in {"min", "min_peek"} /\ t \in Agents
      /\ UNCHANGED <<flagVars, mutex, controlVars, calls>>
  BY Apart DEF MinEnter, MinPeek, At
<1>2. th[t].call = "min"
  BY <1>1 DEF ControlInv, PlaceInv, CallerPlace, Setting
<1>3. CASE \E ok \in BOOLEAN : Finish(t, ok)
  <2>1. calls' \in 0..MaxCalls /\ UNCHANGED flagVars /\ UNCHANGED <<mutex, controlVars>>
    BY <1>1 DEF ControlInv, TypeOK
  <2>2. ~Adding(th[t]) /\ ~Making(th[t])
    BY <1>1 DEF Adding, Making, Deleting
  <2> QED BY <1>1, <1>2, <1>3, <2>1, <2>2, FlagsStay, FinishKeeps
<1>4. CASE \E p \in {"min_peek", "min_lock"} : Goto(t, p) /\ (p = "min_lock" => g # 0)
  <2>1. PICK p \in {"min_peek", "min_lock"} : Goto(t, p) /\ (p = "min_lock" => g # 0)
    BY <1>4
  <2> QED BY <1>1, <2>1, SetterGoes
<1>5. CASE MinEnter(t)
  BY <1>3, <1>4, <1>5 DEF MinEnter
<1>6. CASE MinPeek(t)
  BY <1>3, <1>4, <1>6 DEF MinPeek
<1> QED BY <1>5, <1>6

-----------------------------------------------------------------------------
(* The invariant is inductive: the use of the TaskControl.                 *)

\* The thread has found the TaskControl, or is to make it.
LEMMA GetKeeps ==
    ASSUME ControlInv, NEW t \in Callers,
           NEW p \in {"choose", "get_lock"}, p = "choose" => g # 0,
           th[t].pc \in {"get", "get_lock"},
           th' = [th EXCEPT ![t] = [th[t] EXCEPT !.pc = p, !.at = g]],
           UNCHANGED <<flagVars, mutex, controlVars, calls>>
    PROVE  ControlInv'
<1>1. t \in Agents /\ t \notin Workers /\ p \in Places /\ th[t] \in ThreadStates
  BY Apart DEF ControlInv, TypeOK, Places
<1>2. PICK r : r = [th[t] EXCEPT !.pc = p, !.at = g]
  OBVIOUS
<1>3. /\ r \in ThreadStates /\ r.pc = p /\ r.call = th[t].call /\ r.at = g
      /\ r.seen = th[t].seen
  BY <1>1, <1>2 DEF ThreadStates, ControlInv, TypeOK
<1>4. th[t].call = "start" /\ th[t].seen = 0
  BY <1>1 DEF ControlInv, PlaceInv, CallerPlace, GroupsInv, ThreadGroups, Setting
<1>5. ~Adding(th[t]) /\ ~Making(th[t]) /\ ~Adding(r) /\ ~Making(r) /\ ~Setting(r)
  BY <1>3 DEF Adding, Making, Deleting, Setting
<1>6. CallerPlace(r) /\ CallerAt(r) /\ ThreadNum(r) /\ Stays(t, r)
  BY <1>1, <1>3, <1>4 DEF CallerPlace, CallerAt, Deleting, ThreadNum, Stays, Adding,
         Setting
<1>7. ThreadGroups(r)
  BY <1>3, <1>4 DEF ThreadGroups
<1>8. r.at <= made
  BY <1>3, Apart DEF ControlInv, TypeOK, AtInv
<1>9. calls' \in 0..MaxCalls /\ UNCHANGED <<mutex, controlVars>> /\ UNCHANGED flagVars
  BY DEF ControlInv, TypeOK
<1> QED BY <1>1, <1>2, <1>3, <1>5, <1>6, <1>7, <1>8, <1>9, FlagsStay, ThreadStep

\* choose_one_group: what is loaded and returned belongs to the TaskControl.
LEMMA ChooseKeeps ==
    ASSUME ControlInv, NEW t \in Callers, choose_one_group(t)
    PROVE  ControlInv'
<1>1. /\ t \in Agents /\ t \notin Workers /\ th[t] \in ThreadStates
      /\ th[t].pc \in {"choose", "index"} /\ UNCHANGED <<flagVars, mutex, controlVars, calls>>
  BY Apart DEF choose_one_group, ChooseLoad, ChooseIndex, At, ControlInv, TypeOK
<1>2. /\ th[t].call = "start" /\ g # 0 /\ th[t].at = g /\ ThreadGroups(th[t])
  BY <1>1 DEF ControlInv, PlaceInv, CallerPlace, AtInv, CallerAt, GroupsInv, Setting
<1>3. /\ g \in 1..Controls /\ g <= made /\ tc[g].ngroup \in 0..MaxConc
      /\ \A i \in 1..tc[g].ngroup : tc[g].groups[i] # NULL
      /\ \A i \in 1..MaxConc : tc[g].groups[i] \in Workers \cup {NULL}
  <2>1. g \in 1..Controls /\ g <= made
    BY <1>2, Apart DEF ControlInv, TypeOK, AtInv
  <2> QED BY <2>1, ControlFields DEF ControlInv, GroupsInv
<1>4. ASSUME NEW r \in ThreadStates, th' = [th EXCEPT ![t] = r], r.call = "start", r.at = g,
             r.pc \in {"null_group", "index", "push"}, ThreadGroups(r)
      PROVE  ControlInv'
  <2>1. ~Adding(th[t]) /\ ~Making(th[t]) /\ ~Adding(r) /\ ~Making(r) /\ ~Setting(r)
    BY <1>1, <1>4 DEF Adding, Making, Deleting, Setting
  <2>2. CallerPlace(r) /\ CallerAt(r) /\ ThreadNum(r) /\ Stays(t, r)
    BY <1>1, <1>2, <1>4 DEF CallerPlace, CallerAt, Deleting, ThreadNum, Stays, Adding,
           Setting
  <2>3. calls' \in 0..MaxCalls /\ UNCHANGED <<mutex, controlVars>> /\ UNCHANGED flagVars
    BY <1>1 DEF ControlInv, TypeOK
  <2> QED BY <1>1, <1>3, <1>4, <2>1, <2>2, <2>3, FlagsStay, ThreadStep
<1>5. CASE ChooseLoad(t)
  <2>1. PICK r : r = [th[t] EXCEPT !.seen = tc[g].ngroup,
                                   !.pc = IF tc[g].ngroup = 0 THEN "null_group" ELSE "index"]
    OBVIOUS
  <2>2. th' = [th EXCEPT ![t] = r]
    BY <1>2, <1>5, <2>1 DEF ChooseLoad, Tc
  <2>3. /\ r \in ThreadStates /\ r.seen = tc[g].ngroup /\ r.call = th[t].call
        /\ r.at = th[t].at /\ r.pc = IF tc[g].ngroup = 0 THEN "null_group" ELSE "index"
    BY <1>1, <1>3, <2>1 DEF ThreadStates, Places
  <2>4. ThreadGroups(r)
    <3>1. r.pc = "null_group" => tc[g].stop
      BY <1>2, <2>3 DEF ControlInv, GroupsInv
    <3> QED BY <1>2, <1>3, <2>3, <3>1 DEF ThreadGroups
  <2> QED BY <1>2, <1>4, <2>2, <2>3, <2>4
<1>6. CASE ChooseIndex(t)
  <2>1. PICK i \in 1..th[t].seen :
           th' = [th EXCEPT ![t].pc = "push", ![t].seen = 0, ![t].held = tc[g].groups[i]]
    BY <1>2, <1>6 DEF ChooseIndex, Tc
  <2>2. PICK r : r = [th[t] EXCEPT !.pc = "push", !.seen = 0, !.held = tc[g].groups[i]]
    OBVIOUS
  <2>3. th' = [th EXCEPT ![t] = r]
    BY <2>1, <2>2
  <2>4. tc[g].groups[i] # NULL /\ tc[g].groups[i] \in Workers \cup {NULL}
    <3>1. th[t].seen \in 0..MaxConc
      BY <1>1, Fields
    <3>2. i \in 1..MaxConc
      BY <2>1, <3>1, Apart
    <3> QED BY <1>2, <1>3, <3>2 DEF ThreadGroups
  <2>5. /\ r \in ThreadStates /\ r.seen = 0 /\ r.call = th[t].call /\ r.at = th[t].at
        /\ r.pc = "push" /\ r.held # NULL
    <3>1. 0 \in 0..MaxConc /\ "push" \in Places
      BY Apart DEF Places
    <3> QED BY <1>1, <2>2, <2>4, <3>1 DEF ThreadStates
  <2>6. ThreadGroups(r)
    BY <2>5 DEF ThreadGroups
  <2> QED BY <1>2, <1>4, <2>3, <2>5, <2>6
<1> QED BY <1>5, <1>6 DEF choose_one_group

\* signal_task, when it finds enough workers or is to add one.
LEMMA SignalKeeps ==
    ASSUME ControlInv, NEW a \in Agents, signal_task(a)
    PROVE  ControlInv'
<1>1. /\ th[a] \in ThreadStates /\ th[a].pc \in {"push", "signal"}
      /\ UNCHANGED flagVars /\ UNCHANGED <<mutex, controlVars>> /\ calls' \in 0..MaxCalls
      /\ ~Adding(th[a]) /\ ~Making(th[a])
  BY DEF signal_task, ControlInv, TypeOK, Adding, Making, Deleting, Setting
<1>2. /\ th[a].seen = 0 /\ th[a].at <= made
      /\ a \in Workers => WorkerPlace(th[a]) /\ th[a].call = "none"
      /\ a \in Callers => /\ CallerPlace(th[a]) /\ CallerAt(th[a]) /\ th[a].call = "start"
                          /\ th[a].pc = "push"
  BY <1>1 DEF ControlInv, PlaceInv, WorkerPlace, CallerPlace, AtInv, ThreadAt,
         GroupsInv, ThreadGroups, Setting
<1>3. th[a].call \notin {"flag", "min"}
  BY <1>2, Apart
<1>4. CASE Finish(a, TRUE)
  BY <1>1, <1>3, <1>4, FlagsStay, FinishKeeps
<1>5. CASE th' = [th EXCEPT ![a].pc = "grow_lock", ![a].held = NULL]
  <2>1. PICK r : r = [th[a] EXCEPT !.pc = "grow_lock", !.held = NULL]
    OBVIOUS
  <2>2. th' = [th EXCEPT ![a] = r]
    BY <1>5, <2>1
  <2>3. /\ r \in ThreadStates /\ r.pc = "grow_lock" /\ r.call = th[a].call
        /\ r.at = th[a].at /\ r.seen = 0
    <3>1. "grow_lock" \in Places
      BY DEF Places
    <3> QED BY <1>1, <1>2, <2>1, <3>1 DEF ThreadStates
  <2>4. /\ ~Adding(r) /\ ~Making(r) /\ ~Setting(r)
        /\ ThreadNum(r) /\ ThreadGroups(r) /\ Stays(a, r)
        /\ r.at <= made
    BY <1>1, <1>2, <2>3 DEF Adding, Making, Deleting, Setting, ThreadNum, ThreadGroups, Stays
  <2>5. a \in Workers => WorkerPlace(r)
    BY <1>1, <1>2, <2>3 DEF WorkerPlace
  <2>6. a \in Callers => CallerPlace(r) /\ CallerAt(r)
    BY <1>2, <2>3 DEF CallerPlace, CallerAt, Deleting, Setting
  <2> QED BY <1>1, <2>2, <2>3, <2>4, <2>5, <2>6, FlagsStay, ThreadStep
<1> QED BY <1>4, <1>5 DEF signal_task

\* A worker that runs starts a bthread.
LEMMA RunKeeps ==
    ASSUME ControlInv, NEW w \in Workers, RunSignal(w)
    PROVE  ControlInv'
<1>1. /\ th[w] \in ThreadStates /\ th[w].pc = "run" /\ w \in Agents
      /\ w \notin Callers /\ UNCHANGED flagVars /\ UNCHANGED <<mutex, controlVars>>
      /\ ~Adding(th[w]) /\ ~Making(th[w]) /\ Goto(w, "signal")
  BY Apart DEF RunSignal, At, ControlInv, TypeOK, Adding, Making, Deleting
<1>2. calls' \in 0..MaxCalls
  <2>1. calls < MaxCalls /\ calls' = calls + 1 /\ calls \in 0..MaxCalls
    BY DEF RunSignal, ControlInv, TypeOK
  <2> QED BY <2>1, Apart
<1>3. WorkerPlace(th[w]) /\ th[w].call = "none"
  BY <1>1 DEF ControlInv, PlaceInv, WorkerPlace
<1>4. PICK r : r = [th[w] EXCEPT !.pc = "signal"]
  OBVIOUS
<1>5. "signal" \in Places
  BY DEF Places
<1>6. r.pc = "signal" /\ r.call = "none" /\ r.at = th[w].at
  BY <1>1, <1>3, <1>4, <1>5, Moved DEF ControlInv
<1>7. /\ ~Adding(r) /\ ~Making(r) /\ ~Setting(r) /\ WorkerPlace(r) /\ ThreadNum(r)
      /\ Stays(w, r)
  BY <1>1, <1>3, <1>6 DEF Adding, Making, Deleting, Setting, WorkerPlace, ThreadNum, Stays
<1> QED BY <1>1, <1>2, <1>4, <1>5, <1>7, GotoKeeps

\* A worker publishes its group, unless the TaskControl was stopped, or exits.
LEMMA CreateGroupKeeps ==
    ASSUME ControlInv, NEW w \in Workers, create_group(w)
    PROVE  ControlInv'
<1>1. /\ th[w] \in ThreadStates /\ th[w].pc = "created" /\ w \in Agents
      /\ w \notin Callers /\ UNCHANGED flagVars /\ UNCHANGED <<mutex, g, made>>
      /\ calls' = calls /\ calls' \in 0..MaxCalls
      /\ ~Adding(th[w]) /\ ~Making(th[w])
  BY Apart DEF create_group, At, ControlInv, TypeOK, Adding, Making, Deleting, Setting
<1>2. /\ WorkerPlace(th[w]) /\ th[w].call = "none" /\ th[w].at # 0 /\ th[w].at <= made
      /\ th[w].seen = 0
  BY <1>1 DEF ControlInv, PlaceInv, WorkerPlace, AtInv, ThreadAt, GroupsInv, ThreadGroups
<1>3. ASSUME NEW p \in {"signal", "exited"}, Goto(w, p)
      PROVE  \E r \in ThreadStates :
                /\ th' = [th EXCEPT ![w] = r] /\ r.at = th[w].at /\ r.seen = 0 /\ r.pc = p
                /\ ~Adding(r) /\ ~Making(r) /\ ~Setting(r) /\ WorkerPlace(r) /\ ThreadNum(r)
                /\ Stays(w, r) /\ ThreadGroups(r)
  <2>1. PICK r : r = [th[w] EXCEPT !.pc = p]
    OBVIOUS
  <2>2. p \in Places
    BY DEF Places
  <2>3. /\ r \in ThreadStates /\ r.pc = p /\ r.call = "none" /\ r.at = th[w].at
        /\ r.seen = 0
    BY <1>1, <1>2, <2>1, <2>2, Moved DEF ControlInv
  <2>4. /\ ~Adding(r) /\ ~Making(r) /\ ~Setting(r) /\ WorkerPlace(r) /\ ThreadNum(r)
        /\ Stays(w, r) /\ ThreadGroups(r)
    BY <1>1, <1>2, <2>3
       DEF Adding, Making, Deleting, Setting, WorkerPlace, ThreadNum, Stays, ThreadGroups
  <2>5. th' = [th EXCEPT ![w] = r]
    BY <1>3, <2>1 DEF Goto
  <2> QED BY <2>3, <2>4, <2>5
<1>4. CASE Goto(w, "exited") /\ UNCHANGED tc
  <2>1. PICK r \in ThreadStates :
                /\ th' = [th EXCEPT ![w] = r] /\ r.at = th[w].at
                /\ ~Adding(r) /\ ~Making(r) /\ ~Setting(r) /\ WorkerPlace(r) /\ ThreadNum(r)
                /\ Stays(w, r) /\ ThreadGroups(r)
    BY <1>3, <1>4
  <2>2. UNCHANGED <<mutex, controlVars>>
    BY <1>1, <1>4 DEF controlVars
  <2> QED BY <1>1, <1>2, <2>1, <2>2, FlagsStay, ThreadStep
<1>5. CASE _add_group(w)
  <2>1. PICK r \in ThreadStates :
                /\ th' = [th EXCEPT ![w] = r] /\ r.at = th[w].at /\ r.seen = 0
                /\ r.pc = "signal"
                /\ ~Adding(r) /\ ~Making(r) /\ ~Setting(r) /\ WorkerPlace(r) /\ ThreadNum(r)
                /\ Stays(w, r) /\ ThreadGroups(r)
    BY <1>3, <1>5 DEF _add_group
  <2>2. PICK c : c = th[w].at
    OBVIOUS
  <2>3. c \in 1..Controls
    BY <1>1, <1>2, <2>2, Fields
  <2>4. PICK n \in Nat : n = tc[c].ngroup + 1 /\ n >= 1
    BY <2>3, ControlFields DEF ControlInv
  <2>5. /\ ~tc[c].stop
        /\ tc' = IF n > MaxConc THEN tc
                 ELSE [tc EXCEPT ![c] = [@ EXCEPT !.groups = [tc[c].groups EXCEPT ![n] = w],
                                                  !.ngroup = n]]
    BY <1>5, <2>2, <2>4 DEF _add_group, Tc
  <2>6. CASE n > MaxConc
    <3>1. UNCHANGED <<mutex, controlVars>>
      BY <1>1, <2>5, <2>6 DEF controlVars
    <3> QED BY <1>1, <1>2, <2>1, <3>1, FlagsStay, ThreadStep
  <2>7. CASE ~(n > MaxConc)
    <3>1. PICK k : k = [tc[c] EXCEPT !.groups = [tc[c].groups EXCEPT ![n] = w], !.ngroup = n]
      OBVIOUS
    <3>2. tc' = [tc EXCEPT ![c] = k]
      BY <2>5, <2>7, <3>1
    <3>3. n \in 1..MaxConc /\ n \in 0..MaxConc
      BY <2>4, <2>7, Apart
    <3>4. PICK gs : gs = [tc[c].groups EXCEPT ![n] = w]
      OBVIOUS
    <3>5. /\ gs \in [1..MaxConc -> Workers \cup {NULL}] /\ gs[n] = w
          /\ \A i \in 1..MaxConc : i # n => gs[i] = tc[c].groups[i]
      BY <2>3, <3>3, <3>4, ControlFields DEF ControlInv
    <3>6. /\ k \in ControlStates /\ k.groups = gs /\ k.ngroup = n /\ k.stop = tc[c].stop
          /\ k.lots = tc[c].lots /\ k.concurrency = tc[c].concurrency
          /\ k.workers = tc[c].workers
      <4>1. tc[c] \in ControlStates
        BY <2>3, ControlFields DEF ControlInv
      <4> QED BY <3>1, <3>3, <3>4, <3>5, <4>1 DEF ControlStates
    <3>7. /\ tc' \in [1..Controls -> ControlStates] /\ tc'[c] = k
          /\ \A d \in 1..Controls : d # c => tc'[d] = tc[d]
      BY <2>3, <3>2, <3>6 DEF ControlInv, TypeOK
    <3>8. GroupsInv'
      <4>1. \A i \in 1..MaxConc : tc[c].groups[i] # NULL => gs[i] # NULL
        BY <3>5, Apart
      <4>2. \A i \in 1..n : gs[i] # NULL
        <5>1. \A i \in 1..tc[c].ngroup : tc[c].groups[i] # NULL
          BY <2>3 DEF ControlInv, GroupsInv
        <5>2. \A i \in 1..n : i = n \/ i \in 1..tc[c].ngroup
          BY <2>3, <2>4, ControlFields DEF ControlInv
        <5>3. \A i \in 1..n : i \in 1..MaxConc
          BY <3>3, Apart
        <5> QED BY <3>5, <5>1, <5>2, <5>3, Apart
      <4>3. ASSUME NEW b \in Agents PROVE ThreadGroups(th[b])'
        <5>1. PICK q \in ThreadStates : q = th'[b] /\ ThreadGroups(q)
          <6>1. th'[w] = r /\ \A d \in Agents : d # w => th'[d] = th[d]
            BY <1>1, <2>1, OneThread DEF ControlInv
          <6> QED BY <2>1, <6>1 DEF ControlInv, GroupsInv, TypeOK
        <5>2. /\ q.at \in 0..Controls /\ q.seen \in 0..MaxConc
              /\ q.seen # 0 \/ q.pc \in {"lots", "null_group"} => q.at \in 1..Controls
          BY <5>1, Fields DEF ThreadGroups
        <5>3. \A i \in 1..q.seen : i \in 1..MaxConc /\ q.at \in 1..Controls
          BY <5>2, Apart
        <5>4. \A i \in 1..q.seen : tc'[q.at].groups[i] # NULL
          BY <3>6, <3>7, <4>1, <5>1, <5>3 DEF ThreadGroups
        <5>5. q.pc \in {"lots", "null_group"} => q.at # 0 /\ tc'[q.at].stop
          BY <3>6, <3>7, <5>1, <5>2 DEF ThreadGroups
        <5>6. ThreadGroups(q)'
          BY <5>1, <5>4, <5>5 DEF ThreadGroups
        <5> QED BY <5>1, <5>6, Primed
      <4>4. \A d \in 1..Controls :
                /\ tc'[d].stop => tc'[d].ngroup = 0
                /\ tc'[d].lots => tc'[d].stop
                /\ \A i \in 1..tc'[d].ngroup : tc'[d].groups[i] # NULL
        BY <2>5, <3>6, <3>7, <4>2 DEF ControlInv, GroupsInv
      <4>5. g' # 0 => tc'[g'].stop \/ tc'[g'].ngroup # 0
        <5>1. g' = g /\ (g # 0 => g \in 1..Controls) /\ n # 0
          BY <1>1, <2>4, Apart DEF ControlInv, TypeOK
        <5> QED BY <3>6, <3>7, <5>1 DEF ControlInv, GroupsInv
      <4> QED BY <4>3, <4>4, <4>5 DEF GroupsInv
    <3>9. \A d \in 1..Controls : /\ tc'[d].concurrency = tc[d].concurrency
                                 /\ tc'[d].workers = tc[d].workers
                                 /\ d > made => tc'[d] = tc[d]
      <4>1. ~(c > made)
        BY <1>2, <2>2, <2>3, Apart DEF ControlInv, TypeOK
      <4> QED BY <3>6, <3>7, <4>1
    <3>10. ThreadNum(r)
      BY <2>1 DEF ThreadNum, Adding, Setting
    <3>11. MakingOK(r) /\ r.pc \notin {"init", "wait"} /\ th[w].pc # "crashed"
      BY <1>1, <2>1 DEF MakingOK, Making
    <3>12. conc' \in Nat /\ minc' \in Nums \cup {0} /\ never_set' \in BOOLEAN
      BY <1>1, FlagsStay
    <3> QED BY <1>1, <1>2, <2>1, <3>7, <3>8, <3>9, <3>10, <3>11, <3>12, LocalStep
  <2> QED BY <2>6, <2>7
<1> QED BY <1>4, <1>5 DEF create_group

\* A worker that quits takes no group out: the TaskControl was stopped and has none.
LEMMA DestroyGroupKeeps ==
    ASSUME ControlInv, NEW w \in Workers, _destroy_group(w)
    PROVE  ControlInv'
<1>1. /\ th[w] \in ThreadStates /\ th[w].pc = "run" /\ w \in Agents
      /\ w \notin Callers /\ UNCHANGED flagVars /\ UNCHANGED <<mutex, g, made>>
      /\ calls' \in 0..MaxCalls /\ ~Adding(th[w]) /\ ~Making(th[w])
  BY Apart DEF _destroy_group, At, ControlInv, TypeOK, Adding, Making, Deleting, Setting
<1>2. /\ WorkerPlace(th[w]) /\ th[w].call = "none" /\ th[w].at # 0 /\ th[w].at <= made
      /\ th[w].seen = 0
  BY <1>1 DEF ControlInv, PlaceInv, WorkerPlace, AtInv, ThreadAt, GroupsInv, ThreadGroups
<1>3. PICK c : c = th[w].at
  OBVIOUS
<1>4. c \in 1..Controls
  BY <1>1, <1>2, <1>3, Fields
<1>5. tc[c].ngroup = 0 /\ tc[c] \in ControlStates
  <2>1. tc[c].lots
    BY <1>3 DEF _destroy_group, Tc
  <2> QED BY <1>4, <2>1, ControlFields DEF ControlInv, GroupsInv
<1>6. {i \in 1..tc[c].ngroup : tc[c].groups[i] = w} = {}
  BY <1>5
<1>7. PICK k : k = [tc[c] EXCEPT !.ngroup = tc[c].ngroup - Cardinality({}),
                                 !.groups = [i \in DOMAIN @ |-> IF i \in {}
                                                THEN @[tc[c].ngroup] ELSE @[i]]]
  OBVIOUS
<1>8. tc' = [tc EXCEPT ![c] = k]
  <2>1. tc' = [tc EXCEPT ![c].ngroup = tc[c].ngroup - Cardinality({}),
                         ![c].groups = [i \in DOMAIN @ |-> IF i \in {} THEN @[tc[c].ngroup]
                                                           ELSE @[i]]]
    BY <1>3, <1>6 DEF _destroy_group, Tc
  <2> QED BY <1>7, <2>1
<1>9. k = tc[c]
  <2>1. /\ tc[c].ngroup - Cardinality({}) = tc[c].ngroup
        /\ tc[c].groups \in [1..MaxConc -> Workers \cup {NULL}]
    BY <1>4, <1>5, FS_EmptySet, ControlFields DEF ControlInv
  <2>2. [i \in DOMAIN tc[c].groups |-> IF i \in {} THEN tc[c].groups[tc[c].ngroup]
                                       ELSE tc[c].groups[i]] = tc[c].groups
    BY <2>1
  <2> QED BY <1>5, <1>7, <2>1, <2>2 DEF ControlStates
<1>10. UNCHANGED <<mutex, controlVars>>
  <2>1. tc' = tc
    BY <1>4, <1>8, <1>9 DEF ControlInv, TypeOK
  <2> QED BY <1>1, <1>8, <2>1 DEF controlVars
<1>11. PICK r : r = [th[w] EXCEPT !.pc = "exited"]
  OBVIOUS
<1>12. "exited" \in Places /\ Goto(w, "exited")
  BY DEF Places, _destroy_group
<1>13. r.pc = "exited" /\ r.call = "none" /\ r.at = th[w].at
  BY <1>1, <1>2, <1>11, <1>12, Moved DEF ControlInv
<1>14. ~Adding(r) /\ ~Making(r) /\ ~Setting(r) /\ WorkerPlace(r) /\ ThreadNum(r) /\ Stays(w, r)
  BY <1>1, <1>2, <1>13 DEF Adding, Making, Deleting, Setting, WorkerPlace, ThreadNum, Stays
<1> QED BY <1>1, <1>10, <1>11, <1>12, <1>14, GotoKeeps

-----------------------------------------------------------------------------
(* The invariant is inductive: stop_and_join.                              *)

\* bthread_stop_world: there is nothing to stop, or the TaskControl is stopped.
LEMMA StopWorldKeeps ==
    ASSUME ControlInv, NEW t \in Callers, bthread_stop_world(t)
    PROVE  ControlInv'
<1>1. /\ th[t] \in ThreadStates /\ th[t].pc = "stop" /\ t \in Agents /\ t \notin Workers
      /\ UNCHANGED flagVars /\ UNCHANGED <<mutex, controlVars>>
      /\ calls' \in 0..MaxCalls /\ ~Adding(th[t]) /\ ~Making(th[t])
  BY Apart DEF bthread_stop_world, At, ControlInv, TypeOK, Adding, Making, Deleting, Setting
<1>2. th[t].call \in {"start", "stop"} /\ th[t].seen = 0
  BY <1>1 DEF ControlInv, PlaceInv, CallerPlace, GroupsInv, ThreadGroups, Setting
<1>3. CASE g = 0
  <2>1. Finish(t, TRUE)
    BY <1>3 DEF bthread_stop_world
  <2> QED BY <1>1, <1>2, <2>1, FlagsStay, FinishKeeps
<1>4. CASE g # 0
  <2>1. PICK r : r = [th[t] EXCEPT !.pc = "delete", !.at = g]
    OBVIOUS
  <2>2. th' = [th EXCEPT ![t] = r]
    BY <1>4, <2>1 DEF bthread_stop_world
  <2>3. /\ r \in ThreadStates /\ r.pc = "delete" /\ r.call = th[t].call /\ r.at = g
        /\ r.seen = 0
    <3>1. th[t] \in ThreadStates /\ "delete" \in Places /\ g \in 0..Controls
      BY <1>1 DEF Places, ControlInv, TypeOK
    <3> QED BY <1>2, <2>1, <3>1 DEF ThreadStates
  <2>4. th[t].call = "stop"
    BY <1>1 DEF ControlInv, PlaceInv, CallerPlace, Setting
  <2>5. /\ ~Adding(r) /\ ~Making(r) /\ ~Setting(r) /\ CallerPlace(r) /\ CallerAt(r)
        /\ ThreadNum(r) /\ ThreadGroups(r) /\ Stays(t, r)
    BY <1>1, <1>4, <2>3, <2>4
       DEF Adding, Making, Deleting, Setting, CallerPlace, CallerAt, ThreadNum,
           ThreadGroups, Stays
  <2>6. r.at <= made
    BY <2>3, Apart DEF ControlInv, TypeOK, AtInv
  <2> QED BY <1>1, <2>2, <2>3, <2>5, <2>6, FlagsStay, ThreadStep
<1> QED BY <1>3, <1>4

\* The thread that stops or deletes a TaskControl.
LEMMA DeleterFacts ==
    ASSUME ControlInv, NEW t \in Callers, Deleting(th[t]) \/ th[t].pc \in {"init", "wait"}
    PROVE  /\ t \in Agents /\ t \notin Workers /\ th[t] \in ThreadStates
           /\ th[t].at \in 1..Controls /\ th[t].at <= made /\ ~(th[t].at > made)
           /\ th[t].seen = 0 /\ th[t].call \in {"start", "stop"} /\ ~Adding(th[t])
           /\ th[t].pc \in {"init", "wait"} => th[t].call = "start"
           /\ th[t].call = "stop" => g # 0 /\ th[t].at = g
           /\ th[t].call = "start" => Making(th[t])
<1>1. t \in Agents /\ t \notin Workers /\ th[t] \in ThreadStates
  BY Apart DEF ControlInv, TypeOK
<1>2. /\ CallerPlace(th[t]) /\ CallerAt(th[t]) /\ ThreadAt(th[t]) /\ ThreadGroups(th[t])
      /\ g \in 0..Controls /\ made \in 0..Controls /\ g \in {0, made}
  BY <1>1 DEF ControlInv, PlaceInv, AtInv, GroupsInv, TypeOK
<1>3. /\ th[t].call \in {"start", "stop"}
      /\ (th[t].pc \in {"init", "wait"} => th[t].call = "start")
  BY <1>2 DEF CallerPlace, Setting
<1>4. CASE th[t].call = "stop"
  <2>1. g # 0 /\ th[t].at = g /\ ~Adding(th[t])
    BY <1>2, <1>3, <1>4 DEF CallerAt, Deleting, Adding
  <2>2. g \in 1..Controls /\ g <= made /\ ~(g > made)
    BY <1>2, <2>1, Apart
  <2>3. th[t].seen = 0
    BY <1>2 DEF ThreadGroups, Deleting
  <2> QED BY <1>1, <1>3, <1>4, <2>1, <2>2, <2>3
<1>5. CASE th[t].call = "start"
  <2>1. Making(th[t]) /\ ~Adding(th[t])
    BY <1>3, <1>5 DEF Making, Adding, Deleting
  <2>2. made # 0 /\ th[t].at = made
    BY <1>2, <2>1 DEF ThreadAt
  <2>3. made \in 1..Controls /\ made <= made /\ ~(made > made)
    BY <1>2, <2>2, Apart
  <2>4. th[t].seen = 0
    BY <1>2 DEF ThreadGroups, Deleting
  <2> QED BY <1>1, <1>3, <1>5, <2>1, <2>2, <2>3, <2>4
<1> QED BY <1>3, <1>4, <1>5

\* It goes on, and changes no number of workers.
LEMMA DeleterStep ==
    ASSUME ControlInv, NEW t \in Callers, Deleting(th[t]) \/ th[t].pc = "init",
           NEW r \in ThreadStates, th' = [th EXCEPT ![t] = r],
           r.call = th[t].call, r.at = th[t].at, r.seen = 0,
           Deleting(r) \/ r.pc = "crashed", MakingOK(r),
           UNCHANGED <<flagVars, mutex, g, made, calls>>,
           tc' \in [1..Controls -> ControlStates],
           \A c \in 1..Controls : /\ tc'[c].concurrency = tc[c].concurrency
                                  /\ tc'[c].workers = tc[c].workers
                                  /\ c > made => tc'[c] = tc[c],
           GroupsInv'
    PROVE  ControlInv'
<1>1. /\ t \in Agents /\ t \notin Workers /\ th[t].at <= made
      /\ th[t].call \in {"start", "stop"} /\ ~Adding(th[t])
      /\ th[t].pc = "init" => th[t].call = "start"
      /\ th[t].call = "stop" => g # 0 /\ th[t].at = g
      /\ th[t].call = "start" => Making(th[t])
  BY DeleterFacts
<1>2. /\ ~Adding(r) /\ ~Setting(r) /\ r.pc \notin {"init", "wait"} /\ th[t].pc # "crashed"
      /\ Making(r) => Making(th[t])
      /\ Making(th[t]) => r.at = th[t].at /\ (Making(r) \/ r.pc = "crashed")
  BY <1>1 DEF Making, Adding, Deleting, Setting
<1>3. CallerPlace(r) /\ CallerAt(r)
  BY <1>1 DEF CallerPlace, CallerAt, Deleting, Setting
<1>4. ThreadNum(r)
  BY <1>2 DEF ThreadNum, Deleting, Adding, Setting
<1>5. /\ UNCHANGED <<mutex, g, made>> /\ Stays(t, r)
      /\ calls' \in 0..MaxCalls /\ UNCHANGED flagVars
  BY <1>1 DEF Stays, ControlInv, TypeOK
<1>6. conc' \in Nat /\ minc' \in Nums \cup {0} /\ never_set' \in BOOLEAN
  BY <1>5, FlagsStay
<1> QED BY <1>1, <1>2, <1>3, <1>4, <1>5, <1>6, LocalStep

\* _stop is set and _ngroup becomes 0, then the lots are stopped.
LEMMA StopGroupsKeeps ==
    ASSUME ControlInv, NEW t \in Callers, StopGroups(t) \/ StopLots(t)
    PROVE  ControlInv'
<1>1. /\ th[t].pc \in {"delete", "lots"} /\ Deleting(th[t])
      /\ UNCHANGED <<flagVars, mutex, g, made, calls>>
  BY DEF StopGroups, StopLots, At, Deleting
<1>2. /\ t \in Agents /\ t \notin Workers /\ th[t] \in ThreadStates
      /\ th[t].at \in 1..Controls /\ ~(th[t].at > made) /\ th[t].seen = 0
  BY <1>1, DeleterFacts
<1>3. MakingOK(th[t])
  BY <1>2 DEF ControlInv, WorkersInv
<1>4. \E r \in ThreadStates :
         /\ th' = [th EXCEPT ![t] = r] /\ r.call = th[t].call /\ r.at = th[t].at
         /\ r.seen = 0 /\ Deleting(r) /\ MakingOK(r) /\ (r.pc = "lots" => StopGroups(t))
  <2>1. CASE StopGroups(t)
    <3>1. PICK r : r = [th[t] EXCEPT !.pc = "lots"]
      OBVIOUS
    <3>2. /\ r \in ThreadStates /\ r.pc = "lots" /\ r.call = th[t].call /\ r.at = th[t].at
          /\ r.seen = 0
      BY <1>2, <3>1 DEF ThreadStates, Places
    <3>3. Deleting(r) /\ MakingOK(r)
      BY <1>1, <1>3, <3>2 DEF Deleting, MakingOK, Making
    <3> QED BY <2>1, <3>1, <3>2, <3>3 DEF StopGroups, Goto
  <2>2. CASE StopLots(t)
    <3>1. PICK r : r = [th[t] EXCEPT !.pc = "join", !.idx = 1]
      OBVIOUS
    <3>2. /\ r \in ThreadStates /\ r.pc = "join" /\ r.call = th[t].call /\ r.at = th[t].at
          /\ r.seen = 0 /\ r.idx = 1
      BY <1>2, <3>1 DEF ThreadStates, Places
    <3>3. Len(tc[r.at].workers) \in Nat
      BY <1>2, <3>2, ControlFields DEF ControlInv
    <3>4. Deleting(r) /\ MakingOK(r)
      BY <1>1, <1>3, <3>2, <3>3 DEF Deleting, MakingOK, Making
    <3> QED BY <2>2, <3>1, <3>2, <3>4 DEF StopLots
  <2> QED BY <2>1, <2>2
<1>5. PICK c \in 1..Controls : c = th[t].at
  BY <1>2
<1>6. PICK k \in ControlStates :
         /\ tc' = [tc EXCEPT ![c] = k] /\ k.concurrency = tc[c].concurrency
         /\ k.workers = tc[c].workers /\ k.groups = tc[c].groups
         /\ k.stop \/ (k.ngroup = tc[c].ngroup /\ k.stop = tc[c].stop)
         /\ k.ngroup \in {0, tc[c].ngroup} /\ (tc[c].stop \/ StopGroups(t) => k.stop)
         /\ (k.stop => k.ngroup = 0) /\ (k.lots => k.stop)
  <2>1. /\ tc[c] \in ControlStates /\ 0 \in 0..MaxConc
        /\ tc[c].stop => tc[c].ngroup = 0
        /\ tc[c].lots => tc[c].stop
    BY Apart, ControlFields DEF ControlInv, GroupsInv
  <2>2. CASE StopGroups(t)
    <3>1. PICK k : k = [tc[c] EXCEPT !.stop = TRUE, !.ngroup = 0]
      OBVIOUS
    <3>2. tc' = [tc EXCEPT ![c] = k]
      BY <1>5, <2>2, <3>1 DEF StopGroups
    <3>3. /\ k \in ControlStates /\ k.concurrency = tc[c].concurrency
          /\ k.workers = tc[c].workers /\ k.groups = tc[c].groups
          /\ k.ngroup = 0 /\ k.stop
      BY <2>1, <3>1 DEF ControlStates
    <3> QED BY <3>2, <3>3
  <2>3. CASE StopLots(t)
    <3>1. PICK k : k = [tc[c] EXCEPT !.lots = TRUE]
      OBVIOUS
    <3>2. tc' = [tc EXCEPT ![c] = k]
      BY <1>5, <2>3, <3>1 DEF StopLots
    <3>3. tc[c].stop
      BY <1>2, <1>5, <2>3 DEF StopLots, At, ControlInv, GroupsInv, ThreadGroups
    <3>4. /\ k \in ControlStates /\ k.concurrency = tc[c].concurrency
          /\ k.workers = tc[c].workers /\ k.groups = tc[c].groups
          /\ k.ngroup = tc[c].ngroup /\ k.stop = tc[c].stop
      BY <2>1, <3>1 DEF ControlStates
    <3> QED BY <1>1, <2>1, <2>3, <3>2, <3>3, <3>4
  <2> QED BY <2>2, <2>3
<1>7. PICK r \in ThreadStates :
         /\ th' = [th EXCEPT ![t] = r] /\ r.call = th[t].call /\ r.at = th[t].at
         /\ r.seen = 0 /\ Deleting(r) /\ MakingOK(r) /\ (r.pc = "lots" => k.stop)
  BY <1>4, <1>6
<1>8. /\ tc' \in [1..Controls -> ControlStates] /\ tc'[c] = k
      /\ \A d \in 1..Controls : d # c => tc'[d] = tc[d]
  BY <1>6 DEF ControlInv, TypeOK
<1>9. ASSUME NEW b \in Agents PROVE ThreadGroups(th[b])'
  <2>1. /\ th'[t] = r /\ \A d \in Agents : d # t => th'[d] = th[d]
    BY <1>2, <1>7, OneThread DEF ControlInv
  <2>2. CASE b = t
    <3>1. r.pc = "lots" => r.at # 0 /\ tc'[r.at].stop
      BY <1>2, <1>5, <1>7, <1>8
    <3>2. ThreadGroups(r)'
      BY <1>7, <3>1 DEF ThreadGroups, Deleting
    <3> QED BY <2>1, <2>2, <3>2, Primed
  <2>3. CASE b # t
    <3>1. PICK q \in ThreadStates : q = th'[b] /\ ThreadGroups(q)
      BY <2>1, <2>3 DEF ControlInv, GroupsInv, TypeOK
    <3>2. q.at \in 0..Controls /\ q.at \in Nat /\ q.seen \in Nat
      BY Fields
    <3>3. \A d \in 1..Controls : /\ tc'[d].groups = tc[d].groups
                                 /\ tc[d].stop => tc'[d].stop
      BY <1>6, <1>8
    <3>4. q.pc \in {"lots", "null_group"} => q.at # 0 /\ tc'[q.at].stop
      BY <3>1, <3>2, <3>3, Apart DEF ThreadGroups
    <3>5. \A i \in 1..q.seen : tc'[q.at].groups[i] # NULL
      <4>1. CASE q.seen = 0
        BY <4>1
      <4>2. CASE q.seen # 0
        <5>1. q.at \in 1..Controls
          BY <3>1, <3>2, <4>2, Apart DEF ThreadGroups
        <5> QED BY <3>1, <3>3, <5>1 DEF ThreadGroups
      <4> QED BY <4>1, <4>2
    <3>6. ThreadGroups(q)'
      BY <3>1, <3>4, <3>5 DEF ThreadGroups
    <3> QED BY <3>1, <3>6, Primed
  <2> QED BY <2>2, <2>3
<1>10. GroupsInv'
  <2>1. ASSUME NEW d \in 1..Controls
        PROVE  /\ tc'[d].stop => tc'[d].ngroup = 0
               /\ tc'[d].lots => tc'[d].stop
               /\ \A i \in 1..tc'[d].ngroup : tc'[d].groups[i] # NULL
    BY <1>6, <1>8 DEF ControlInv, GroupsInv
  <2>2. g' # 0 => tc'[g'].stop \/ tc'[g'].ngroup # 0
    <3>1. g' = g /\ (g # 0 => g \in 1..Controls)
      BY <1>1, Apart DEF ControlInv, TypeOK
    <3>2. k.stop \/ (k.ngroup = tc[c].ngroup /\ k.stop = tc[c].stop)
      BY <1>6
    <3> QED BY <1>6, <1>8, <3>1, <3>2 DEF ControlInv, GroupsInv
  <2> QED BY <1>9, <2>1, <2>2 DEF GroupsInv
<1>11. \A d \in 1..Controls : /\ tc'[d].concurrency = tc[d].concurrency
                              /\ tc'[d].workers = tc[d].workers
                              /\ d > made => tc'[d] = tc[d]
  BY <1>2, <1>5, <1>6, <1>8
<1> QED BY <1>1, <1>7, <1>8, <1>10, <1>11, DeleterStep

-----------------------------------------------------------------------------
(* The invariant is inductive: add_workers.                                *)

\* TaskControl g has one number per worker, and is there.
LEMMA TheControl ==
    ASSUME ControlInv, g # 0
    PROVE  /\ g \in 1..Controls /\ g = made /\ g <= made /\ ~(g > made)
           /\ made' = made => ~(g > made')
<1>1. g \in 0..Controls /\ made \in 0..Controls /\ g \in {0, made}
  BY DEF ControlInv, TypeOK, AtInv
<1>2. g \in 1..Controls
  BY <1>1, Apart
<1>3. \A n \in Nat : n <= n /\ ~(n > n)
  OBVIOUS
<1>4. made \in Nat
  BY <1>1, Apart
<1> QED BY <1>1, <1>2, <1>3, <1>4

(***************************************************************************)
(* A step of add_workers of thread a, which becomes r: it changes workers  *)
(* and concurrency of g_task_control, to k, and creates w, if not NULL.    *)
(***************************************************************************)
LEMMA AddStep ==
    ASSUME ControlInv, NEW a \in Agents, g # 0,
           mutex = NULL \/ Adding(th[a]) \/ Setting(th[a]),
           th[a].pc \notin {"exited", "crashed"},
           th' \in [Agents -> ThreadStates], NEW r \in ThreadStates, th'[a] = r,
           a \in Workers => r.at = th[a].at,
           NEW w \in Workers \cup {NULL}, w # a,
           w # NULL => /\ th'[w].pc = "created" /\ th'[w].call = "none"
                       /\ th'[w].at = g /\ th'[w].seen = 0 /\ r.at = g,
           \A b \in Agents : b # a /\ b # w => th'[b] = th[b],
           UNCHANGED <<g, made, calls>>,
           NEW k \in ControlStates, tc' = [tc EXCEPT ![g] = k],
           k.ngroup = tc[g].ngroup, k.stop = tc[g].stop, k.lots = tc[g].lots,
           k.groups = tc[g].groups, UNCHANGED flagVars,
           mutex' = IF Adding(r) \/ Setting(r) THEN a ELSE NULL,
           ~Making(r),
           a \in Workers => WorkerPlace(r),
           a \in Callers => CallerPlace(r) /\ CallerAt(r),
           r.at <= made, Adding(r) => r.at = g,
           AddingOK(r)', ThreadNum(r), ThreadGroups(r),
           ~Adding(r) => Matched(g)'
    PROVE  ControlInv'
<1>1. g \in 1..Controls /\ ~(g > made)
  BY TheControl
<1>2. g' = g /\ made' = made /\ calls' = calls
  OBVIOUS
<1>3. /\ tc' \in [1..Controls -> ControlStates] /\ tc'[g] = k
      /\ \A c \in 1..Controls : c # g => tc'[c] = tc[c]
  BY <1>1 DEF ControlInv, TypeOK
<1>4. TypeOK'
  <2>1. mutex' \in Agents \cup {NULL}
    OBVIOUS
  <2> QED BY <1>2, <1>3, <2>1, FlagsStay DEF ControlInv, TypeOK
<1>6. ASSUME NEW c \in 1..Controls
      PROVE  /\ tc'[c].ngroup = tc[c].ngroup /\ tc'[c].stop = tc[c].stop
             /\ tc'[c].lots = tc[c].lots /\ tc'[c].groups = tc[c].groups
             /\ c > made' => tc'[c] = NewControl
  <2>1. CASE c = g
    BY <1>1, <1>2, <1>3, <2>1
  <2>2. CASE c # g
    BY <1>2, <1>3, <2>2 DEF ControlInv, NumInv
  <2> QED BY <2>1, <2>2
<1>7. mutex = a \/ mutex = NULL
  BY DEF ControlInv, MutexInv
<1>8. ThreadAt(r)' /\ MakingOK(r)' /\ (a \in Callers => CallerAt(r)')
  <2>1. r.pc \notin {"init", "wait"}
    BY DEF Making
  <2> QED BY <1>2, <2>1 DEF ThreadAt, MakingOK, CallerAt
<1>9. ASSUME NEW v \in Workers, th'[v].at \notin {0, g}, th'[v].pc # "exited"
      PROVE  FALSE
  <2>1. v # w
    BY <1>9, Apart
  <2>2. th[v].at = th'[v].at /\ th[v].pc # "exited"
    BY <1>9, <2>1, Apart
  <2>3. PICK t \in Callers : mutex = t /\ (Making(th[t]) \/ th[t].pc = "crashed")
    BY <1>9, <2>2 DEF ControlInv, AtInv
  <2>4. t # NULL /\ t = a
    BY <1>7, <2>3, Apart
  <2> QED BY <1>7, <2>3, <2>4, Apart DEF Adding, Making, Deleting, Setting
<1>10. PICK N : N = {w} \ {NULL}
  OBVIOUS
<1>11. /\ N \in SUBSET Workers /\ a \notin N
       /\ \A v \in N : /\ th'[v].pc = "created" /\ th'[v].call = "none"
                       /\ th'[v].at = r.at /\ th'[v].seen = 0 /\ r.at # 0
       /\ \A b \in Agents : b # a /\ b \notin N => th'[b] = th[b]
  BY <1>1, <1>10, Apart
<1>12. g' \in {0, made'}
  BY <1>2 DEF ControlInv, AtInv
<1>13. made <= made'
  BY <1>2 DEF ControlInv, TypeOK
<1> QED BY <1>2, <1>4, <1>6, <1>7, <1>8, <1>9, <1>11, <1>12, <1>13, HolderStep

\* While nobody adds workers or makes a TaskControl, a worker that runs belongs to
\* g_task_control, and what _workers holds are its workers.
LEMMA FreeMutex ==
    ASSUME ControlInv, mutex = NULL \/ \E t \in Callers : mutex = t /\ Setting(th[t])
    PROVE  /\ \A w \in Workers : th[w].pc \notin {"none", "exited"} => th[w].at = g /\ g # 0
           /\ g # 0 => Matched(g)
<1>1. \A t \in Callers : mutex = t => Setting(th[t])
  BY Apart
<1>2. \A a \in Agents : ~Adding(th[a])
  BY Apart DEF ControlInv, MutexInv, Adding, Setting
<1>3. ASSUME NEW w \in Workers, th[w].pc \notin {"none", "exited"}
      PROVE  th[w].at = g /\ g # 0
  <2>1. th[w].at # 0
    BY <1>3 DEF ControlInv, PlaceInv, WorkerPlace
  <2>2. \A t \in Callers : mutex = t => ~Making(th[t]) /\ th[t].pc # "crashed"
    BY <1>1 DEF Setting, Making, Deleting
  <2> QED BY <1>3, <2>1, <2>2 DEF ControlInv, AtInv
<1> QED BY <1>2, <1>3 DEF ControlInv, WorkersInv

(***************************************************************************)
(* A step of bthread_setconcurrency that takes, holds or releases the      *)
(* mutex and adds no worker.                                               *)
(***************************************************************************)
LEMMA SetStep ==
    ASSUME ControlInv, NEW t \in Callers, NEW r \in ThreadStates,
           (th[t].pc = "set_lock" /\ mutex = NULL) \/ Setting(th[t]),
           th' = [th EXCEPT ![t] = r], UNCHANGED controlVars, calls' = calls,
           conc' \in Nat, minc' = minc, never_set' \in BOOLEAN,
           mutex' = IF Setting(r) THEN t ELSE NULL,
           ~Adding(r), ~Making(r), CallerPlace(r), CallerAt(r), r.at <= made, ThreadNum(r),
           ThreadGroups(r)
    PROVE  ControlInv'
<1>1. t \in Agents /\ t \notin Workers
  BY Apart
<1>2. mutex = NULL \/ (mutex = t /\ Setting(th[t]))
  BY <1>1 DEF ControlInv, MutexInv
<1>3. /\ \A w \in Workers : th[w].pc \notin {"none", "exited"} => th[w].at = g
      /\ \A w \in Workers : th[w].pc = "none" => th[w].at = 0
      /\ g # 0 => Matched(g)
  BY <1>2, FreeMutex DEF ControlInv, PlaceInv, WorkerPlace
<1>4. /\ th' \in [Agents -> ThreadStates] /\ th'[t] = r
      /\ \A b \in Agents : b # t => th'[b] = th[b]
  BY <1>1, OneThread DEF ControlInv
<1>5. g' = g /\ made' = made /\ tc' = tc
  BY DEF controlVars
<1>6. TypeOK'
  <2>1. mutex' \in Agents \cup {NULL}
    BY <1>1
  <2> QED BY <1>4, <1>5, <2>1 DEF ControlInv, TypeOK
<1>7. \A w \in Workers : th'[w] = th[w]
  BY <1>1, <1>4, Apart
<1>8. g' # 0 => Matched(g)'
  <2>1. WorkersOf(g)' = WorkersOf(g)
    BY <1>5, <1>7 DEF WorkersOf
  <2> QED BY <1>3, <1>5, <2>1 DEF Matched, Slots
<1>9. /\ ThreadAt(r)' /\ AddingOK(r)' /\ MakingOK(r)' /\ CallerAt(r)'
  BY <1>5 DEF ThreadAt, AddingOK, MakingOK, CallerAt, Adding, Making
<1>10. \A c \in 1..Controls : c > made' => tc'[c] = NewControl
  BY <1>5 DEF ControlInv, NumInv
<1>11. /\ g' \in {0, made'} /\ made <= made'
  <2>1. made \in Nat /\ g \in {0, made}
    BY Apart DEF ControlInv, TypeOK, AtInv
  <2> QED BY <1>5, <2>1
<1>12. \A w \in Workers : th'[w].at \notin {0, g'} => th'[w].pc = "exited"
  BY <1>3, <1>5, <1>7
<1>13. PICK N : N = {}
  OBVIOUS
<1>14. /\ N \in SUBSET Workers /\ t \notin N
       /\ \A w \in N : /\ th'[w].pc = "created" /\ th'[w].call = "none"
                       /\ th'[w].at = r.at /\ th'[w].seen = 0 /\ r.at # 0
       /\ \A b \in Agents : b # t /\ b \notin N => th'[b] = th[b]
  BY <1>4, <1>13
<1> QED BY <1>1, <1>2, <1>4, <1>5, <1>6, <1>8, <1>9, <1>10, <1>11, <1>12, <1>14, HolderStep

\* add_workers begins: _workers has the n more slots, or could not be resized.
LEMMA BeginAddKeeps ==
    ASSUME ControlInv, NEW a \in Agents, g # 0,
           \/ mutex = NULL /\ th[a].pc \in {"min_lock", "grow_lock"}
           \/ a \in Callers /\ th[a].pc = "set_add",
           NEW n \in Nat, n >= 1, BeginAdd(a, g, n),
           UNCHANGED <<g, made, calls>>, UNCHANGED flagVars
    PROVE  ControlInv'
<1>1. /\ g \in 1..Controls /\ g = made /\ g <= made /\ Matched(g)
      /\ a \in Workers => th[a].at = g
  <2>1. mutex = NULL \/ \E t \in Callers : mutex = t /\ Setting(th[t])
    BY DEF ControlInv, MutexInv, Setting
  <2> QED BY <2>1, TheControl, FreeMutex
<1>2. /\ tc[g] \in ControlStates
      /\ tc[g].concurrency \in Nat /\ tc[g].workers \in Seq(Workers \cup {NULL})
  BY <1>1, ControlFields DEF ControlInv, NumInv, TypeOK
<1>3. PICK K \in Nat : /\ K = tc[g].concurrency /\ K = Len(tc[g].workers)
                       /\ Slots(g, K) = WorkersOf(g)
  BY <1>1, <1>2 DEF Matched
<1>4. /\ th[a] \in ThreadStates /\ th[a].seen = 0
      /\ a \in Workers => WorkerPlace(th[a])
      /\ a \in Callers => CallerPlace(th[a])
      /\ th[a].call \in {"set", "flag"} => th[a].num \in Nat
  <2>1. /\ th[a] \in ThreadStates /\ th[a].seen = 0
        /\ a \in Workers => WorkerPlace(th[a])
        /\ a \in Callers => CallerPlace(th[a])
    BY DEF ControlInv, TypeOK, PlaceInv, GroupsInv, ThreadGroups
  <2>2. th[a].call \in {"set", "flag"} => th[a].pc = "set_add"
    BY <2>1, Apart DEF WorkerPlace, CallerPlace, Setting
  <2>3. ThreadNum(th[a])
    BY DEF ControlInv, NumInv
  <2> QED BY <2>1, <2>2, <2>3 DEF ThreadNum, Adding, Setting
<1>5. ASSUME NEW r \in ThreadStates, th' = [th EXCEPT ![a] = r],
             r.pc \in {"add", "added"}, r.call = th[a].call, r.at = g, r.seen = 0,
             r.num = th[a].num, r.old = K, r.pc = "add" => r.idx = n,
             NEW k \in ControlStates, tc' = [tc EXCEPT ![g] = k],
             k.ngroup = tc[g].ngroup, k.stop = tc[g].stop, k.lots = tc[g].lots,
             k.groups = tc[g].groups, k.concurrency = K, mutex' = a,
             \A i \in 1..K : k.workers[i] = tc[g].workers[i],
             Len(k.workers) = IF r.pc = "add" THEN K + n ELSE K
      PROVE  ControlInv'
  <2>1. /\ th' \in [Agents -> ThreadStates] /\ th'[a] = r
        /\ \A b \in Agents : b # a => th'[b] = th[b]
    BY <1>5, OneThread DEF ControlInv
  <2>2. tc'[g] = k
    BY <1>1, <1>5 DEF ControlInv, TypeOK
  <2>3. WorkersOf(g)' = WorkersOf(g)
    <3>1. Stays(a, r)
      BY <1>1, <1>5 DEF Stays
    <3> QED BY <1>5, <3>1, WorkersStay DEF ControlInv
  <2>4. Slots(g, K)' = Slots(g, K)
    <3>1. tc'[g'] = k
      BY <2>2
    <3>2. PICK v, u : v = k.workers /\ u = tc[g].workers
      OBVIOUS
    <3>3. \A i \in 1..K : v[i] = u[i]
      BY <1>5, <3>2
    <3>4. {v[i] : i \in 1..K} = {u[i] : i \in 1..K}
      BY <3>3
    <3> QED BY <3>1, <3>2, <3>4 DEF Slots
  <2>5. AddingOK(r)'
    <3>1. tc'[r.at].concurrency = K /\ Len(tc'[r.at].workers) = Len(k.workers)
      BY <1>5, <2>2
    <3>2. Slots(r.at, K)' = WorkersOf(r.at)'
      BY <1>3, <1>5, <2>3, <2>4
    <3>3. CASE r.pc = "add"
      <4>1. Len(k.workers) = K + n /\ K >= K /\ r.idx >= 1 /\ K + r.idx = K + n
        BY <1>5, <3>3
      <4> QED BY <1>5, <3>1, <3>2, <3>3, <4>1 DEF AddingOK
    <3>4. CASE r.pc = "added"
      <4>1. Len(k.workers) = K /\ K >= K /\ K <= K
        BY <1>5, <3>4
      <4> QED BY <1>5, <3>1, <3>2, <3>4, <4>1 DEF AddingOK
    <3> QED BY <1>5, <3>3, <3>4
  <2>6. ThreadNum(r)
    BY <1>4, <1>5 DEF ThreadNum, Setting, Adding
  <2>7. Adding(r) /\ ~Making(r) /\ ThreadGroups(r)
    BY <1>5 DEF Adding, Making, Deleting, Setting, ThreadGroups
  <2>8. /\ a \in Workers => WorkerPlace(r)
        /\ a \in Callers => CallerPlace(r) /\ CallerAt(r)
    <3>1. g # 0
      BY <1>1
    <3> QED BY <1>4, <1>5, <2>7, <3>1 DEF WorkerPlace, CallerPlace, CallerAt, Deleting,
           Setting
  <2>9. NULL \in Workers \cup {NULL} /\ NULL # a
    BY Apart
  <2>10. /\ th[a].pc \notin {"exited", "crashed"} /\ (mutex = NULL \/ Setting(th[a]))
         /\ r.at <= made /\ (a \in Workers => r.at = th[a].at)
         /\ mutex' = IF Adding(r) \/ Setting(r) THEN a ELSE NULL
    BY <1>1, <1>5, <2>7 DEF Setting
  <2> QED BY <1>1, <1>5, <2>1, <2>5, <2>6, <2>7, <2>8, <2>9, <2>10, AddStep
<1>6. CASE /\ tc' = [tc EXCEPT ![g].workers =
                        [i \in 1..(K + n) |-> IF i <= Len(@) THEN @[i] ELSE NULL]]
           /\ th' = [th EXCEPT ![a] = [th[a] EXCEPT !.at = g, !.old = K, !.idx = n,
                                                    !.pc = "add"]]
           /\ mutex' = a
  <2>1. PICK r : r = [th[a] EXCEPT !.at = g, !.old = K, !.idx = n, !.pc = "add"]
    OBVIOUS
  <2>2. /\ r \in ThreadStates /\ r.pc = "add" /\ r.call = th[a].call /\ r.at = g
        /\ r.num = th[a].num
        /\ r.seen = 0 /\ r.old = K /\ r.idx = n
    <3>1. th[a] \in ThreadStates /\ th[a].seen = 0 /\ g \in 0..Controls
      BY <1>1, <1>4
    <3> QED BY <2>1, <3>1 DEF ThreadStates, Places
  <2>3. PICK ws : ws = [i \in 1..(K + n) |-> IF i <= K THEN tc[g].workers[i] ELSE NULL]
    OBVIOUS
  <2>4. /\ ws \in Seq(Workers \cup {NULL}) /\ Len(ws) = K + n
        /\ \A i \in 1..K : ws[i] = tc[g].workers[i]
    BY <1>2, <1>3, <2>3
  <2>5. PICK k : k = [tc[g] EXCEPT !.workers = ws]
    OBVIOUS
  <2>6. tc' = [tc EXCEPT ![g] = k]
    BY <1>3, <1>6, <2>3, <2>5
  <2>7. /\ k \in ControlStates /\ k.ngroup = tc[g].ngroup /\ k.stop = tc[g].stop
        /\ k.lots = tc[g].lots /\ k.groups = tc[g].groups /\ k.concurrency = K
        /\ k.workers = ws
    BY <1>2, <1>3, <2>4, <2>5 DEF ControlStates
  <2> QED BY <1>5, <1>6, <2>1, <2>2, <2>4, <2>6, <2>7
<1>7. CASE /\ th' = [th EXCEPT ![a] = [th[a] EXCEPT !.at = g, !.old = K, !.pc = "added"]]
           /\ tc' = tc /\ mutex' = a
  <2>1. PICK r : r = [th[a] EXCEPT !.at = g, !.old = K, !.pc = "added"]
    OBVIOUS
  <2>2. /\ r \in ThreadStates /\ r.pc = "added" /\ r.call = th[a].call /\ r.at = g
        /\ r.num = th[a].num
        /\ r.seen = 0 /\ r.old = K
    <3>1. th[a] \in ThreadStates /\ th[a].seen = 0 /\ g \in 0..Controls
      BY <1>1, <1>4
    <3> QED BY <2>1, <3>1 DEF ThreadStates, Places
  <2>3. tc' = [tc EXCEPT ![g] = tc[g]]
    BY <1>1, <1>7 DEF ControlInv, TypeOK
  <2> QED BY <1>2, <1>3, <1>5, <1>7, <2>1, <2>2, <2>3
<1> QED BY <1>3, <1>6, <1>7 DEF BeginAdd

\* bthread_setconcurrency under the mutex, up to add_workers and after it: what it does
\* with the flag, that others may store at the same time, changes no worker.
LEMMA SetLockKeeps ==
    ASSUME ControlInv, NEW t \in Callers,
           \/ SetLock(t) \/ SetRaise(t) \/ SetRepair(t) \/ SetMore(t) \/ SetStore(t)
           \/ SetEqual(t)
    PROVE  ControlInv'
<1>1. /\ t \in Agents /\ t \notin Workers /\ th[t] \in ThreadStates
      /\ UNCHANGED controlVars /\ calls' = calls /\ minc' = minc
      /\ (th[t].pc = "set_lock" /\ mutex = NULL) \/ Setting(th[t])
      /\ th[t].pc # "set_add"
  BY Apart DEF SetLock, SetRaise, SetRepair, SetMore, SetStore, SetEqual, At, Setting,
               ControlInv, TypeOK, flagVars
<1>2. /\ th[t].num \in Nat /\ th[t].old \in Nat /\ th[t].call \in {"set", "flag"}
      /\ th[t].at <= made /\ CallerPlace(th[t]) /\ th[t].seen = 0
  <2>1. /\ ThreadNum(th[t]) /\ CallerPlace(th[t]) /\ th[t].at <= made /\ th[t].old \in Nat
        /\ ThreadGroups(th[t])
    BY <1>1, Fields DEF ControlInv, NumInv, PlaceInv, AtInv, ThreadAt, GroupsInv
  <2> QED BY <1>1, <2>1 DEF ThreadNum, CallerPlace, ThreadGroups, Setting, Adding
<1>3. g # 0 => tc[g].concurrency \in Nat
  BY TheControl, ControlFields DEF ControlInv
<1>4. th[t].pc \in {"set_repair", "set_more", "set_store", "set_equal"} => g # 0
  BY DEF ControlInv, AtInv, CallerAt
<1>5. conc' \in Nat /\ never_set' \in BOOLEAN
  <2>1. conc \in Nat /\ never_set \in BOOLEAN
    BY DEF ControlInv, TypeOK
  <2>2. CASE SetLock(t) \/ SetMore(t) \/ SetEqual(t)
    BY <2>1, <2>2 DEF SetLock, SetMore, SetEqual, flagVars
  <2>3. CASE SetRaise(t) \/ SetStore(t)
    BY <1>2, <2>1, <2>3 DEF SetRaise, SetStore
  <2>4. CASE SetRepair(t)
    BY <1>3, <1>4, <2>1, <2>4 DEF SetRepair, At
  <2> QED BY <2>2, <2>3, <2>4
<1>6. CASE \E p \in {"set_raise", "set_repair", "set_more", "set_add", "set_equal"} :
              Hold(t, p) /\ (p # "set_raise" => g # 0)
  <2>1. PICK p \in {"set_raise", "set_repair", "set_more", "set_add", "set_equal"} :
                Hold(t, p) /\ (p # "set_raise" => g # 0)
    BY <1>6
  <2>2. PICK r : r = [th[t] EXCEPT !.pc = p]
    OBVIOUS
  <2>3. th' = [th EXCEPT ![t] = r] /\ mutex' = t
    BY <2>1, <2>2 DEF Hold, Goto
  <2>4. /\ r \in ThreadStates /\ r.pc = p /\ r.call = th[t].call /\ r.num = th[t].num
        /\ r.at = th[t].at /\ r.seen = th[t].seen
    <3>1. p \in Places /\ TypeOK
      BY DEF Places, ControlInv
    <3> QED BY <1>1, <2>2, <3>1, Moved
  <2>5. Setting(r) /\ ~Adding(r) /\ ~Making(r)
    BY <2>4 DEF Setting, Adding, Making, Deleting
  <2>6. CallerPlace(r) /\ CallerAt(r)
    BY <1>2, <2>1, <2>4, <2>5 DEF CallerPlace, CallerAt, Deleting, Setting
  <2>7. ThreadNum(r) /\ ThreadGroups(r)
    BY <1>2, <2>4 DEF ThreadNum, ThreadGroups, Adding, Setting
  <2> QED BY <1>1, <1>2, <1>5, <2>3, <2>4, <2>5, <2>6, <2>7, SetStep
<1>7. CASE \E ok \in BOOLEAN : Leave(t, ok)
  <2>1. PICK ok \in BOOLEAN : Leave(t, ok)
    BY <1>7
  <2>2. PICK r : r = Done(t, ok)
    OBVIOUS
  <2>3. th[t].pc \notin {"none", "exited"}
    BY <1>1 DEF Setting
  <2>4. /\ r \in ThreadStates /\ ~Adding(r) /\ ~Making(r) /\ ~Setting(r)
        /\ CallerPlace(r) /\ CallerAt(r) /\ r.at <= made /\ ThreadGroups(r)
        /\ r.pc = "idle" \/ (r.pc = "assign" /\ r.num = th[t].num)
    BY <1>1, <2>2, <2>3, DoneFacts
  <2>5. ThreadNum(r)
    BY <1>2, <2>4 DEF ThreadNum, Adding, Setting
  <2>6. th' = [th EXCEPT ![t] = r] /\ mutex' = NULL
    BY <2>1, <2>2 DEF Leave, Finish
  <2> QED BY <1>1, <1>5, <2>4, <2>5, <2>6, SetStep
<1>8. CASE SetLock(t)
  BY <1>6, <1>7, <1>8 DEF SetLock
<1>9. CASE SetMore(t)
  BY <1>4, <1>6, <1>9 DEF SetMore, At
<1>10. CASE SetRepair(t)
  BY <1>4, <1>6, <1>10 DEF SetRepair, At
<1>11. CASE SetRaise(t) \/ SetStore(t)
  BY <1>7, <1>11 DEF SetRaise, SetStore
<1>12. CASE SetEqual(t)
  <2>1. PICK ok \in BOOLEAN : ok = (th[t].num = conc)
    OBVIOUS
  <2> QED BY <1>7, <1>12, <2>1 DEF SetEqual
<1> QED BY <1>8, <1>9, <1>10, <1>11, <1>12

\* bthread_setconcurrency enters add_workers with the difference to the flag, whatever
\* the flag is by now.
LEMMA SetAddKeeps ==
    ASSUME ControlInv, NEW t \in Callers, SetAdd(t)
    PROVE  ControlInv'
<1>1. /\ t \in Agents /\ t \notin Workers /\ th[t] \in ThreadStates
      /\ th[t].pc = "set_add" /\ Setting(th[t]) /\ g # 0
      /\ UNCHANGED flagVars /\ UNCHANGED <<g, made, calls>>
  BY Apart DEF SetAdd, At, Setting, ControlInv, TypeOK, AtInv, CallerAt
<1>2. /\ th[t].num \in Nat /\ conc \in Nat /\ th[t].call \in {"set", "flag"}
      /\ th[t].at <= made /\ CallerPlace(th[t]) /\ th[t].seen = 0 /\ mutex = t
  <2>1. /\ ThreadNum(th[t]) /\ CallerPlace(th[t]) /\ th[t].at <= made /\ conc \in Nat
        /\ ThreadGroups(th[t]) /\ mutex = t
    BY <1>1 DEF ControlInv, NumInv, PlaceInv, AtInv, ThreadAt, GroupsInv, TypeOK, MutexInv
  <2> QED BY <1>1, <2>1 DEF ThreadNum, CallerPlace, ThreadGroups, Adding, Setting
<1>3. PICK n \in Int : n = th[t].num - conc
  BY <1>2
<1>4. CASE n > 0 /\ BeginAdd(t, g, n)
  <2>1. n \in Nat /\ n >= 1
    BY <1>4
  <2> QED BY <1>1, <1>4, <2>1, BeginAddKeeps
<1>5. CASE /\ th' = [th EXCEPT ![t].pc = "set_store", ![t].old = conc]
           /\ UNCHANGED <<mutex, tc>>
  <2>1. PICK r : r = [th[t] EXCEPT !.pc = "set_store", !.old = conc]
    OBVIOUS
  <2>2. th' = [th EXCEPT ![t] = r]
    BY <1>5, <2>1
  <2>3. /\ r \in ThreadStates /\ r.pc = "set_store" /\ r.call = th[t].call
        /\ r.num = th[t].num /\ r.at = th[t].at /\ r.seen = 0
    BY <1>1, <1>2, <2>1 DEF ThreadStates, Places
  <2>4. Setting(r) /\ ~Adding(r) /\ ~Making(r)
    BY <2>3 DEF Setting, Adding, Making, Deleting
  <2>5. CallerPlace(r) /\ CallerAt(r)
    BY <1>1, <1>2, <2>3, <2>4 DEF CallerPlace, CallerAt, Deleting, Setting
  <2>6. ThreadNum(r) /\ ThreadGroups(r)
    BY <1>2, <2>3 DEF ThreadNum, ThreadGroups, Adding, Setting
  <2>7. /\ UNCHANGED controlVars /\ calls' = calls /\ mutex' = t
        /\ conc' \in Nat /\ minc' = minc /\ never_set' \in BOOLEAN
    BY <1>1, <1>2, <1>5, FlagsStay DEF controlVars
  <2> QED BY <1>1, <1>2, <2>2, <2>3, <2>4, <2>5, <2>6, <2>7, SetStep
<1> QED BY <1>3, <1>4, <1>5 DEF SetAdd

\* The setter of the minimum takes the mutex.
LEMMA MinLockKeeps ==
    ASSUME ControlInv, NEW t \in Callers, MinLock(t)
    PROVE  ControlInv'
<1>1. /\ th[t].pc = "min_lock" /\ mutex = NULL /\ t \in Agents
      /\ UNCHANGED flagVars /\ calls' = calls
      /\ UNCHANGED <<g, made, calls>> /\ g' = g /\ made' = made
  BY Apart DEF MinLock, At
<1>2. /\ g # 0 /\ th[t].call = "min" /\ th[t].num \in Int
  <2>1. CallerAt(th[t]) /\ CallerPlace(th[t]) /\ th[t] \in ThreadStates
    BY <1>1 DEF ControlInv, TypeOK, AtInv, PlaceInv
  <2> QED BY <1>1, <2>1, Fields DEF CallerAt, CallerPlace, Setting
<1>3. PICK n \in Int, k \in Nat : n = th[t].num /\ k = tc[g].concurrency
  BY <1>2, TheControl, ControlFields DEF ControlInv
<1>4. /\ conc' \in Nat /\ minc' \in Nums \cup {0} /\ never_set' \in BOOLEAN
  BY <1>1, FlagsStay
<1>5. CASE n - k > 0
  <2>1. BeginAdd(t, g, n - k)
    BY <1>3, <1>5 DEF MinLock
  <2>2. n - k \in Nat /\ n - k >= 1
    BY <1>5
  <2> QED BY <1>1, <1>2, <2>1, <2>2, BeginAddKeeps
<1>6. CASE ~(n - k > 0)
  <2>1. Finish(t, TRUE) /\ tc' = tc /\ mutex' = mutex
    BY <1>3, <1>6 DEF MinLock
  <2>2. UNCHANGED <<mutex, controlVars>> /\ calls' \in 0..MaxCalls
    BY <1>1, <2>1 DEF controlVars, ControlInv, TypeOK
  <2>3. ~Adding(th[t]) /\ ~Making(th[t])
    BY <1>1 DEF Adding, Making, Deleting, Setting
  <2> QED BY <1>1, <1>2, <1>4, <2>1, <2>2, <2>3, FinishKeeps
<1> QED BY <1>5, <1>6

\* signal_task takes the mutex to add a worker.
LEMMA GrowLockKeeps ==
    ASSUME ControlInv, NEW a \in Agents, GrowLock(a)
    PROVE  ControlInv'
<1>1. /\ th[a].pc = "grow_lock" /\ mutex = NULL
      /\ UNCHANGED flagVars /\ calls' = calls
      /\ UNCHANGED <<g, made, calls>> /\ g' = g /\ made' = made
  BY DEF GrowLock, At
<1>2. g # 0 /\ th[a].at = g /\ th[a].call \in {"none", "start"}
  <2>1. CASE a \in Workers
    BY <1>1, <2>1, FreeMutex DEF ControlInv, PlaceInv, WorkerPlace
  <2>2. CASE a \in Callers
    BY <1>1, <2>2 DEF ControlInv, PlaceInv, CallerPlace, AtInv, CallerAt, Setting
  <2> QED BY <2>1, <2>2, Apart
<1>3. PICK c \in Nat, k \in Nat : c = conc /\ k = tc[g].concurrency
  BY <1>2, TheControl, ControlFields DEF ControlInv, TypeOK
<1>4. /\ conc' \in Nat /\ minc' \in Nums \cup {0} /\ never_set' \in BOOLEAN
  BY <1>1, FlagsStay
<1>5. CASE k < c
  <2>1. BeginAdd(a, g, 1)
    BY <1>2, <1>3, <1>5 DEF GrowLock, Tc
  <2>2. 1 \in Nat /\ 1 >= 1
    OBVIOUS
  <2> QED BY <1>1, <1>2, <2>1, <2>2, BeginAddKeeps
<1>6. CASE ~(k < c)
  <2>1. Finish(a, TRUE) /\ tc' = tc /\ mutex' = mutex
    BY <1>2, <1>3, <1>6 DEF GrowLock, Tc
  <2>2. UNCHANGED <<mutex, controlVars>> /\ calls' \in 0..MaxCalls
    BY <1>1, <2>1 DEF controlVars, ControlInv, TypeOK
  <2>3. ~Adding(th[a]) /\ ~Making(th[a])
    BY <1>1 DEF Adding, Making, Deleting, Setting
  <2> QED BY <1>1, <1>2, <1>4, <2>1, <2>2, <2>3, FinishKeeps
<1> QED BY <1>5, <1>6

\* The thread in add_workers: K workers are counted, n slots are there.
LEMMA AdderFacts ==
    ASSUME ControlInv, NEW a \in Agents, Adding(th[a])
    PROVE  /\ th[a] \in ThreadStates /\ th[a].at = g /\ g # 0 /\ mutex = a
           /\ g \in 1..Controls /\ g <= made /\ ~(g > made) /\ th[a].seen = 0
           /\ th[a].pc \notin {"none", "exited", "crashed"} /\ ~Making(th[a])
           /\ a \in Workers => WorkerPlace(th[a])
           /\ a \in Callers => CallerPlace(th[a])
           /\ AddingOK(th[a]) /\ ThreadNum(th[a])
           /\ tc[g] \in ControlStates /\ tc[g].concurrency \in Nat
           /\ tc[g].workers \in Seq(Workers \cup {NULL})
           /\ Len(tc[g].workers) \in Nat
           /\ th[a].old \in Nat /\ th[a].idx \in Nat
<1>1. /\ th[a] \in ThreadStates /\ th[a].at = g /\ g # 0 /\ mutex = a
      /\ th[a].seen = 0 /\ AddingOK(th[a]) /\ ThreadNum(th[a])
      /\ a \in Workers => WorkerPlace(th[a])
      /\ a \in Callers => CallerPlace(th[a])
      /\ th[a].pc \notin {"none", "exited", "crashed"} /\ ~Making(th[a])
  <2>1. /\ th[a] \in ThreadStates /\ th[a].at = g /\ g # 0 /\ mutex = a
        /\ AddingOK(th[a]) /\ ThreadNum(th[a]) /\ ThreadGroups(th[a])
        /\ a \in Workers => WorkerPlace(th[a])
        /\ a \in Callers => CallerPlace(th[a])
    BY DEF ControlInv, TypeOK, MutexInv, PlaceInv, AtInv, ThreadAt, WorkersInv, NumInv,
           GroupsInv
  <2> QED BY <2>1 DEF Adding, Making, Deleting, Setting, ThreadGroups
<1>2. g \in 1..Controls /\ g <= made /\ ~(g > made)
  BY <1>1, TheControl
<1>3. /\ tc[g] \in ControlStates /\ tc[g].concurrency \in Nat
      /\ tc[g].workers \in Seq(Workers \cup {NULL}) /\ Len(tc[g].workers) \in Nat
  BY <1>2, ControlFields DEF ControlInv
<1>4. th[a].old \in Nat /\ th[a].idx \in Nat
  BY <1>1, Fields
<1> QED BY <1>1, <1>2, <1>3, <1>4

(***************************************************************************)
(* A step of add_workers within the critical section, of a thread that     *)
(* becomes r.                                                              *)
(***************************************************************************)
LEMMA AddOn ==
    ASSUME ControlInv, NEW a \in Agents, Adding(th[a]),
           th' \in [Agents -> ThreadStates], NEW r \in ThreadStates, th'[a] = r,
           Adding(r), r.call = th[a].call, r.num = th[a].num, r.at = g, r.seen = 0,
           NEW w \in Workers \cup {NULL}, w # a,
           w # NULL => /\ th'[w].pc = "created" /\ th'[w].call = "none"
                       /\ th'[w].at = g /\ th'[w].seen = 0,
           \A b \in Agents : b # a /\ b # w => th'[b] = th[b],
           UNCHANGED flagVars, UNCHANGED <<mutex, g, made, calls>>,
           NEW k \in ControlStates, tc' = [tc EXCEPT ![g] = k],
           k.ngroup = tc[g].ngroup, k.stop = tc[g].stop, k.lots = tc[g].lots,
           k.groups = tc[g].groups, AddingOK(r)'
    PROVE  ControlInv'
<1>1. /\ th[a].at = g /\ g # 0 /\ mutex = a /\ g <= made /\ g \in 1..Controls
      /\ th[a].pc \notin {"exited", "crashed"}
      /\ a \in Workers => WorkerPlace(th[a])
      /\ a \in Callers => CallerPlace(th[a])
      /\ ThreadNum(th[a]) /\ mutex' = mutex
  BY AdderFacts
<1>2. ~Making(r) /\ ThreadGroups(r)
  BY DEF Adding, Making, Deleting, Setting, ThreadGroups
<1>3. /\ a \in Workers => WorkerPlace(r)
      /\ a \in Callers => CallerPlace(r) /\ CallerAt(r)
  <2>1. r.at # 0 /\ r.pc \in {"add", "add_create", "added"}
    BY <1>1 DEF Adding
  <2>2. a \in Workers => WorkerPlace(r)
    BY <1>1, <2>1 DEF WorkerPlace
  <2>3. a \in Callers => CallerPlace(r) /\ CallerAt(r)
    BY <1>1, <2>1 DEF CallerPlace, CallerAt, Deleting, Setting
  <2> QED BY <2>2, <2>3
<1>4. ThreadNum(r)
  BY <1>1 DEF ThreadNum, Adding, Setting
<1>5. UNCHANGED <<g, made, calls>>
  OBVIOUS
<1>6. mutex' = IF Adding(r) \/ Setting(r) THEN a ELSE NULL
  BY <1>1
<1>7. r.at <= made /\ (a \in Workers => r.at = th[a].at)
  BY <1>1
<1> QED BY <1>1, <1>2, <1>3, <1>4, <1>5, <1>6, <1>7, AddStep

\* _concurrency counts the worker that is created next.
LEMMA AddIncKeeps ==
    ASSUME ControlInv, NEW a \in Agents, AddInc(a)
    PROVE  ControlInv'
<1>1. th[a].pc = "add" /\ Adding(th[a])
  BY DEF AddInc, At, Adding
<1>2. /\ th[a] \in ThreadStates /\ th[a].at = g /\ g # 0 /\ g \in 1..Controls
      /\ th[a].seen = 0 /\ AddingOK(th[a]) /\ ThreadNum(th[a])
      /\ tc[g] \in ControlStates /\ tc[g].concurrency \in Nat
      /\ Len(tc[g].workers) \in Nat
      /\ th[a].old \in Nat /\ th[a].idx \in Nat
      /\ a \in Workers \/ a \in Callers
  BY <1>1, AdderFacts, Apart
<1>3. PICK K \in Nat, n \in Nat, o \in Nat, i \in Nat :
         /\ K = tc[g].concurrency /\ n = Len(tc[g].workers) /\ o = th[a].old
         /\ i = th[a].idx
  BY <1>2
<1>4. /\ K >= o /\ i >= 1 /\ K + i = n
      /\ Slots(g, K) = WorkersOf(g)
  BY <1>1, <1>2, <1>3 DEF AddingOK
<1>5. K + 1 \in Nat /\ K + 1 > o /\ (K + 1) - 1 = K
  BY <1>4
<1>6. PICK r : r = [th[a] EXCEPT !.pc = "add_create"]
  OBVIOUS
<1>7. /\ r \in ThreadStates /\ r.pc = "add_create" /\ r.call = th[a].call /\ r.at = g
      /\ r.num = th[a].num /\ r.seen = 0 /\ r.old = o /\ r.idx = i
  BY <1>2, <1>3, <1>6 DEF ThreadStates, Places
<1>8. PICK k : k = [tc[g] EXCEPT !.concurrency = K + 1]
  OBVIOUS
<1>9. /\ k \in ControlStates /\ k.ngroup = tc[g].ngroup /\ k.stop = tc[g].stop
      /\ k.lots = tc[g].lots /\ k.groups = tc[g].groups /\ k.concurrency = K + 1
      /\ k.workers = tc[g].workers
  BY <1>2, <1>5, <1>8 DEF ControlStates
<1>10. /\ tc' = [tc EXCEPT ![g] = k] /\ th' = [th EXCEPT ![a] = r]
       /\ UNCHANGED <<flagVars, mutex, g, made, calls>> /\ g' = g
  BY <1>2, <1>3, <1>6, <1>8 DEF AddInc, Goto
<1>11. /\ th' \in [Agents -> ThreadStates] /\ th'[a] = r
       /\ \A b \in Agents : b # a => th'[b] = th[b]
  BY <1>7, <1>10, OneThread DEF ControlInv
<1>12. AddingOK(r)'
  <2>1. tc'[g] = k /\ tc'[r.at] = k
    BY <1>2, <1>7, <1>10 DEF ControlInv, TypeOK
  <2>2. WorkersOf(g)' = WorkersOf(g)
    <3>1. Stays(a, r)
      BY <1>1, <1>2, <1>7 DEF Stays
    <3> QED BY <1>7, <1>10, <3>1, WorkersStay DEF ControlInv
  <2>3. Slots(g, K)' = Slots(g, K)
    BY <1>9, <1>10, <2>1 DEF Slots
  <2>4. Slots(r.at, (K + 1) - 1)' = WorkersOf(r.at)'
    BY <1>4, <1>5, <1>7, <1>10, <2>2, <2>3
  <2>5. tc'[r.at].concurrency = K + 1 /\ Len(tc'[r.at].workers) = n
    BY <1>3, <1>9, <2>1
  <2> QED BY <1>4, <1>5, <1>7, <2>4, <2>5 DEF AddingOK
<1>13. Adding(r)
  BY <1>7 DEF Adding
<1>14. NULL # a
  BY Apart
<1>15. UNCHANGED flagVars /\ UNCHANGED <<mutex, g, made, calls>>
  BY <1>10
<1> QED BY <1>1, <1>7, <1>9, <1>10, <1>11, <1>12, <1>13, <1>14, <1>15, AddOn

\* Worker w is in slot i of TaskControl c, which is now k, and its creator is r.
WorkerCreated(a, r, c, i, w, k) ==
    /\ w # a /\ w # NULL /\ th'[w].pc = "created" /\ th'[w].call = "none"
    /\ th'[w].at = c /\ th'[w].seen = 0
    /\ th' \in [Agents -> ThreadStates] /\ th'[a] = r
    /\ \A b \in Agents : b # a /\ b # w => th'[b] = th[b]
    /\ tc' = [tc EXCEPT ![c] = k] /\ tc'[c] = k
    /\ k.ngroup = tc[c].ngroup /\ k.stop = tc[c].stop /\ k.lots = tc[c].lots
    /\ k.groups = tc[c].groups /\ k.concurrency = tc[c].concurrency
    /\ Len(k.workers) = Len(tc[c].workers)
    /\ Slots(c, i - 1) = WorkersOf(c) => Slots(c, i)' = WorkersOf(c)'
    /\ \A n \in Nat : i <= n => Slots(c, i)' \subseteq Slots(c, n)'

(***************************************************************************)
(* pthread_create fills slot i of TaskControl c with a new worker of c,    *)
(* and its creator goes on as r.                                           *)
(***************************************************************************)
LEMMA Created ==
    ASSUME ControlInv, NEW a \in Agents, NEW r \in ThreadStates, NEW c \in 1..Controls,
           th[a].at = c, r.at = c, th[a].pc # "none",
           NEW i \in Nat, i >= 1, i <= Len(tc[c].workers), pthread_create(a, i, r)
    PROVE  \E w \in Workers, k \in ControlStates : WorkerCreated(a, r, c, i, w, k)
<1>1. PICK w \in Workers :
         /\ th[w].pc = "none"
         /\ tc' = [tc EXCEPT ![c].workers[i] = w]
         /\ th' = [th EXCEPT ![w] = [Thread("created") EXCEPT !.at = c], ![a] = r]
  BY DEF pthread_create, At
<1>2. /\ tc[c] \in ControlStates /\ tc[c].workers \in Seq(Workers \cup {NULL})
      /\ Len(tc[c].workers) \in Nat
  BY ControlFields DEF ControlInv
<1>3. i \in 1..Len(tc[c].workers) /\ i - 1 \in Nat
  BY <1>2
<1>4. PICK q : q = [Thread("created") EXCEPT !.at = c]
  OBVIOUS
<1>5. /\ q \in ThreadStates /\ q.pc = "created" /\ q.call = "none" /\ q.at = c /\ q.seen = 0
  <2>1. c \in 0..Controls /\ 0 \in 0..MaxConc
    BY Apart
  <2> QED BY <1>4, <2>1 DEF Thread, ThreadStates, Places
<1>6. /\ w # a /\ w # NULL /\ w \in Agents /\ th[w].at = 0
  BY <1>1, Apart DEF ControlInv, PlaceInv, WorkerPlace
<1>7. /\ th' \in [Agents -> ThreadStates] /\ th'[a] = r /\ th'[w] = q
      /\ \A b \in Agents : b # a /\ b # w => th'[b] = th[b]
  BY <1>1, <1>4, <1>5, <1>6 DEF ControlInv, TypeOK
<1>8. PICK ws : ws = [tc[c].workers EXCEPT ![i] = w]
  OBVIOUS
<1>9. /\ ws \in Seq(Workers \cup {NULL}) /\ Len(ws) = Len(tc[c].workers) /\ ws[i] = w
      /\ \A j \in 1..Len(tc[c].workers) : j # i => ws[j] = tc[c].workers[j]
  BY <1>2, <1>3, <1>8
<1>10. PICK k : k = [tc[c] EXCEPT !.workers = ws]
  OBVIOUS
<1>11. /\ k \in ControlStates /\ k.ngroup = tc[c].ngroup /\ k.stop = tc[c].stop
       /\ k.lots = tc[c].lots /\ k.groups = tc[c].groups
       /\ k.concurrency = tc[c].concurrency /\ k.workers = ws
  BY <1>2, <1>9, <1>10 DEF ControlStates
<1>12. tc' = [tc EXCEPT ![c] = k] /\ tc'[c] = k
  BY <1>1, <1>8, <1>10 DEF ControlInv, TypeOK
<1>13. WorkersOf(c)' = WorkersOf(c) \cup {w}
  <2>1. \A v \in Workers : v # w => th'[v].at = th[v].at
    BY <1>7, Apart
  <2> QED BY <1>5, <1>7, <2>1 DEF WorkersOf
<1>14. Slots(c, i - 1) = WorkersOf(c) => Slots(c, i)' = WorkersOf(c)'
  <2>1. Slots(c, i)' = {ws[j] : j \in 1..i}
    BY <1>11, <1>12 DEF Slots
  <2>2. 1..i = (1..(i - 1)) \cup {i}
    OBVIOUS
  <2>3. \A j \in 1..(i - 1) : j \in 1..Len(tc[c].workers) /\ j # i
    BY <1>2
  <2>4. PICK u : u = tc[c].workers
    OBVIOUS
  <2>5. \A j \in 1..(i - 1) : ws[j] = u[j]
    BY <1>9, <2>3, <2>4
  <2>6. {ws[j] : j \in 1..i} = {u[j] : j \in 1..(i - 1)} \cup {w}
    BY <1>9, <2>2, <2>5
  <2>7. Slots(c, i - 1) = {u[j] : j \in 1..(i - 1)}
    BY <2>4 DEF Slots
  <2> QED BY <1>13, <2>1, <2>6, <2>7
<1>15. ASSUME NEW n \in Nat, i <= n PROVE Slots(c, i)' \subseteq Slots(c, n)'
  <2>1. 1..i \subseteq 1..n
    BY <1>15
  <2> QED BY <2>1 DEF Slots
<1> QED BY <1>5, <1>6, <1>7, <1>9, <1>11, <1>12, <1>14, <1>15 DEF WorkerCreated

\* The next worker is created, or _concurrency goes back and add_workers is over.
LEMMA AddCreateKeeps ==
    ASSUME ControlInv, NEW a \in Agents, AddCreate(a)
    PROVE  ControlInv'
<1>1. th[a].pc = "add_create" /\ Adding(th[a])
  BY DEF AddCreate, At, Adding
<1>2. /\ th[a] \in ThreadStates /\ th[a].at = g /\ g # 0 /\ g \in 1..Controls
      /\ th[a].seen = 0 /\ AddingOK(th[a]) /\ ThreadNum(th[a])
      /\ tc[g] \in ControlStates /\ tc[g].concurrency \in Nat
      /\ Len(tc[g].workers) \in Nat
      /\ th[a].old \in Nat /\ th[a].idx \in Nat
  BY <1>1, AdderFacts
<1>3. PICK K \in Nat, n \in Nat, o \in Nat, i \in Nat :
         /\ K = tc[g].concurrency /\ n = Len(tc[g].workers) /\ o = th[a].old
         /\ i = th[a].idx
  BY <1>2
<1>4. K > o /\ i >= 1 /\ K - 1 + i = n /\ Slots(g, K - 1) = WorkersOf(g)
  BY <1>1, <1>2, <1>3 DEF AddingOK
<1>5. K >= 1 /\ K <= n /\ K - 1 \in Nat /\ K - 1 >= o /\ K >= o /\ K - 1 <= n
  BY <1>4
<1>6. UNCHANGED <<flagVars, mutex, g, made, calls>> /\ g' = g
  BY DEF AddCreate
<1>7. CASE pthread_create(a, K, [th[a] EXCEPT !.idx = i - 1,
                                              !.pc = IF i > 1 THEN "add" ELSE "added"])
  <2>1. PICK r : r = [th[a] EXCEPT !.idx = i - 1, !.pc = IF i > 1 THEN "add" ELSE "added"]
    OBVIOUS
  <2>2. /\ r \in ThreadStates /\ r.pc = (IF i > 1 THEN "add" ELSE "added")
        /\ r.call = th[a].call /\ r.at = g
        /\ r.num = th[a].num /\ r.seen = 0 /\ r.old = o /\ r.idx = i - 1
    <3>1. PICK j \in Nat, p \in Places : j = i - 1 /\ p = IF i > 1 THEN "add" ELSE "added"
      BY <1>4 DEF Places
    <3>2. r = [th[a] EXCEPT !.idx = j, !.pc = p]
      BY <2>1, <3>1
    <3>3. /\ r \in ThreadStates /\ r.pc = p /\ r.call = th[a].call /\ r.at = th[a].at
          /\ r.num = th[a].num /\ r.seen = th[a].seen /\ r.old = th[a].old /\ r.idx = j
      BY <1>2, <3>2 DEF ThreadStates
    <3> QED BY <1>2, <1>3, <3>1, <3>3
  <2>3. pthread_create(a, K, r) /\ th[a].pc # "none" /\ K <= Len(tc[g].workers)
    BY <1>1, <1>3, <1>5, <1>7, <2>1
  <2>4. PICK w \in Workers, k \in ControlStates :
              /\ w # a /\ w # NULL /\ th'[w].pc = "created" /\ th'[w].call = "none"
              /\ th'[w].at = g /\ th'[w].seen = 0
              /\ th' \in [Agents -> ThreadStates] /\ th'[a] = r
              /\ \A b \in Agents : b # a /\ b # w => th'[b] = th[b]
              /\ tc' = [tc EXCEPT ![g] = k] /\ tc'[g] = k
              /\ k.ngroup = tc[g].ngroup /\ k.stop = tc[g].stop /\ k.lots = tc[g].lots
              /\ k.groups = tc[g].groups /\ k.concurrency = K
              /\ Len(k.workers) = n
              /\ Slots(g, K - 1) = WorkersOf(g) => Slots(g, K)' = WorkersOf(g)'
    <3>1. PICK c \in 1..Controls : c = g
      BY <1>2
    <3>2. /\ th[a].at = c /\ r.at = c /\ K <= Len(tc[c].workers)
          /\ K = tc[c].concurrency /\ n = Len(tc[c].workers)
          /\ \A j : Slots(c, j)' = Slots(g, j)'
          /\ WorkersOf(c)' = WorkersOf(g)'
      BY <1>2, <1>3, <1>6, <2>2, <2>3, <3>1 DEF Slots, WorkersOf
    <3>3. PICK w \in Workers, k \in ControlStates : WorkerCreated(a, r, c, K, w, k)
      BY <1>5, <2>2, <2>3, <3>2, Created
    <3> QED BY <3>1, <3>2, <3>3 DEF WorkerCreated
  <2>5. AddingOK(r)'
    <3>1. tc'[r.at].concurrency = K /\ Len(tc'[r.at].workers) = n
      BY <2>2, <2>4
    <3>2. Slots(r.at, K)' = WorkersOf(r.at)'
      BY <1>4, <1>6, <2>2, <2>4
    <3>3. CASE i > 1
      <4>1. K >= o /\ i - 1 >= 1 /\ K + (i - 1) = n
        BY <1>4, <1>5, <3>3
      <4> QED BY <2>2, <3>1, <3>2, <3>3, <4>1 DEF AddingOK
    <3>4. CASE ~(i > 1)
      BY <1>5, <2>2, <3>1, <3>2, <3>4 DEF AddingOK
    <3> QED BY <3>3, <3>4
  <2>6. Adding(r)
    BY <2>2 DEF Adding
  <2>7. UNCHANGED flagVars /\ UNCHANGED <<mutex, g, made, calls>>
    BY <1>6
  <2>8. w \in Workers \cup {NULL}
    OBVIOUS
  <2> QED BY <1>1, <2>2, <2>4, <2>5, <2>6, <2>7, <2>8, AddOn
<1>8. CASE tc' = [tc EXCEPT ![g].concurrency = K - 1] /\ Goto(a, "added")
  <2>1. PICK r : r = [th[a] EXCEPT !.pc = "added"]
    OBVIOUS
  <2>2. /\ r \in ThreadStates /\ r.pc = "added" /\ r.call = th[a].call /\ r.at = g
        /\ r.num = th[a].num /\ r.seen = 0 /\ r.old = o
    BY <1>2, <1>3, <2>1 DEF ThreadStates, Places
  <2>3. PICK k : k = [tc[g] EXCEPT !.concurrency = K - 1]
    OBVIOUS
  <2>4. /\ k \in ControlStates /\ k.ngroup = tc[g].ngroup /\ k.stop = tc[g].stop
        /\ k.lots = tc[g].lots /\ k.groups = tc[g].groups /\ k.concurrency = K - 1
        /\ k.workers = tc[g].workers
    BY <1>2, <1>5, <2>3 DEF ControlStates
  <2>5. tc' = [tc EXCEPT ![g] = k] /\ th' = [th EXCEPT ![a] = r]
    BY <1>8, <2>1, <2>3 DEF Goto
  <2>6. /\ th' \in [Agents -> ThreadStates] /\ th'[a] = r
        /\ \A b \in Agents : b # a => th'[b] = th[b]
    BY <2>2, <2>5, OneThread DEF ControlInv
  <2>7. AddingOK(r)'
    <3>1. tc'[g] = k /\ tc'[r.at] = k
      BY <1>2, <2>2, <2>5 DEF ControlInv, TypeOK
    <3>2. WorkersOf(g)' = WorkersOf(g)
      <4>1. Stays(a, r)
        BY <1>1, <1>2, <2>2 DEF Stays
      <4> QED BY <1>6, <2>2, <2>5, <4>1, WorkersStay DEF ControlInv
    <3>3. Slots(g, K - 1)' = Slots(g, K - 1)
      BY <1>6, <2>4, <3>1 DEF Slots
    <3>4. Slots(r.at, K - 1)' = WorkersOf(r.at)'
      BY <1>4, <1>6, <2>2, <3>2, <3>3
    <3>5. tc'[r.at].concurrency = K - 1 /\ Len(tc'[r.at].workers) = n
      BY <1>3, <2>4, <3>1
    <3> QED BY <1>5, <2>2, <3>4, <3>5 DEF AddingOK
  <2>8. Adding(r) /\ NULL # a
    BY <2>2, Apart DEF Adding
  <2>9. UNCHANGED flagVars /\ UNCHANGED <<mutex, g, made, calls>>
    BY <1>6
  <2> QED BY <1>1, <2>2, <2>4, <2>5, <2>6, <2>7, <2>8, <2>9, AddOn
<1> QED BY <1>2, <1>3, <1>7, <1>8 DEF AddCreate, Tc

\* add_workers is over: the slots that were not used are dropped, so every slot has its
\* worker again when the mutex is released.
LEMMA EndAddKeeps ==
    ASSUME ControlInv, NEW a \in Agents, EndAdd(a), NEW r \in ThreadStates,
           th' = [th EXCEPT ![a] = r], Stays(a, r), ~Adding(r), ~Making(r),
           mutex' = IF Setting(r) THEN a ELSE NULL, UNCHANGED flagVars,
           a \in Workers => WorkerPlace(r),
           a \in Callers => CallerPlace(r) /\ CallerAt(r),
           r.at <= made, ThreadNum(r), ThreadGroups(r)
    PROVE  ControlInv'
<1>1. th[a].pc = "added" /\ Adding(th[a])
  BY DEF EndAdd, At, Adding
<1>2. /\ th[a] \in ThreadStates /\ th[a].at = g /\ g # 0 /\ g \in 1..Controls
      /\ AddingOK(th[a]) /\ th[a].pc \notin {"none", "exited", "crashed"}
      /\ tc[g] \in ControlStates /\ tc[g].concurrency \in Nat
      /\ tc[g].workers \in Seq(Workers \cup {NULL}) /\ Len(tc[g].workers) \in Nat
  BY <1>1, AdderFacts
<1>3. PICK K \in Nat, n \in Nat : K = tc[g].concurrency /\ n = Len(tc[g].workers)
  BY <1>2
<1>4. K <= n /\ Slots(g, K) = WorkersOf(g)
  BY <1>1, <1>2, <1>3 DEF AddingOK
<1>5. UNCHANGED <<g, made, calls>> /\ g' = g
  BY DEF EndAdd
<1>6. /\ th' \in [Agents -> ThreadStates] /\ th'[a] = r
      /\ \A b \in Agents : b # a => th'[b] = th[b]
  BY OneThread DEF ControlInv
<1>7. PICK ws : ws = SubSeq(tc[g].workers, 1, K)
  OBVIOUS
<1>8. /\ ws \in Seq(Workers \cup {NULL}) /\ Len(ws) = K
       /\ \A i \in 1..K : ws[i] = tc[g].workers[i]
  <2>1. PICK u \in Seq(Workers \cup {NULL}) : u = tc[g].workers /\ K <= Len(u)
    BY <1>2, <1>3, <1>4
  <2>2. SubSeq(u, 1, K) = [i \in 1..K |-> u[i]]
    BY <2>1
  <2>3. Len(u) \in Nat /\ u \in [1..Len(u) -> Workers \cup {NULL}]
    BY <2>1
  <2>4. \A i \in 1..K : u[i] \in Workers \cup {NULL}
    BY <2>1, <2>3
  <2> QED BY <1>7, <2>1, <2>2, <2>4
<1>9. PICK k : k = [tc[g] EXCEPT !.workers = ws]
  OBVIOUS
<1>10. /\ k \in ControlStates /\ k.ngroup = tc[g].ngroup /\ k.stop = tc[g].stop
       /\ k.lots = tc[g].lots /\ k.groups = tc[g].groups /\ k.concurrency = K
       /\ k.workers = ws
  BY <1>2, <1>3, <1>8, <1>9 DEF ControlStates
<1>11. tc' = [tc EXCEPT ![g] = k]
  BY <1>2, <1>3, <1>7, <1>9 DEF EndAdd, Tc
<1>12. Matched(g)'
  <2>1. tc'[g'] = k
    BY <1>2, <1>5, <1>11 DEF ControlInv, TypeOK
  <2>2. WorkersOf(g)' = WorkersOf(g)
    BY <1>5, WorkersStay DEF ControlInv
  <2>3. PICK u : u = tc[g].workers
    OBVIOUS
  <2>4. {ws[i] : i \in 1..K} = {u[i] : i \in 1..K}
    BY <1>8, <2>3
  <2>5. Slots(g, K)' = {ws[i] : i \in 1..K}
    BY <1>10, <2>1 DEF Slots
  <2>6. Slots(g, K) = {u[i] : i \in 1..K}
    BY <2>3 DEF Slots
  <2> QED BY <1>4, <1>8, <1>10, <2>1, <2>2, <2>4, <2>5, <2>6 DEF Matched
<1>13. NULL \in Workers \cup {NULL} /\ NULL # a
  BY Apart
<1>14. /\ AddingOK(r)' /\ mutex' = IF Adding(r) \/ Setting(r) THEN a ELSE NULL
       /\ a \in Workers => r.at = th[a].at
  BY DEF AddingOK, Adding, Stays
<1> QED BY <1>1, <1>2, <1>5, <1>6, <1>10, <1>11, <1>12, <1>13, <1>14, AddStep

\* add_workers is over for one of its three callers.
LEMMA AddedKeeps ==
    ASSUME ControlInv, NEW a \in Agents, SetAdded(a) \/ MinAdded(a) \/ GrowAdded(a)
    PROVE  ControlInv'
<1>1. EndAdd(a) /\ th[a].pc = "added" /\ Adding(th[a])
  BY DEF SetAdded, MinAdded, GrowAdded, EndAdd, At, Adding
<1>2. /\ th[a] \in ThreadStates /\ th[a].at = g /\ g # 0 /\ g <= made /\ mutex = a
      /\ tc[g].concurrency \in Nat /\ th[a].seen = 0 /\ ThreadNum(th[a])
      /\ AddingOK(th[a]) /\ th[a].old \in Nat /\ th[a].pc \notin {"none", "exited"}
      /\ a \in Workers => WorkerPlace(th[a])
  BY <1>1, AdderFacts
<1>3. PICK K \in Nat, o \in Nat : K = tc[g].concurrency /\ o = th[a].old /\ Added(a) = K - o
  BY <1>2 DEF Added, Tc
<1>4. K >= o
  BY <1>1, <1>2, <1>3 DEF AddingOK
<1>5. CASE SetAdded(a)
  <2>1. PICK s \in Nat : s = conc + (K - o)
    BY <1>4 DEF ControlInv, TypeOK
  <2>2. PICK r : r = [th[a] EXCEPT !.pc = "set_store", !.old = s]
    OBVIOUS
  <2>3. /\ th[a].call \in {"set", "flag"} /\ UNCHANGED flagVars /\ mutex' = a
        /\ th' = [th EXCEPT ![a] = r]
    BY <1>2, <1>3, <1>5, <2>1, <2>2 DEF SetAdded
  <2>4. /\ r \in ThreadStates /\ r.pc = "set_store" /\ r.call = th[a].call
        /\ r.num = th[a].num /\ r.at = g /\ r.seen = 0
    BY <1>2, <2>1, <2>2 DEF ThreadStates, Places
  <2>5. a \notin Workers
    BY <1>2, <2>3 DEF WorkerPlace
  <2>6. /\ ~Adding(r) /\ ~Making(r) /\ Setting(r) /\ Stays(a, r) /\ ThreadGroups(r)
    BY <2>4, <2>5 DEF Adding, Making, Deleting, Setting, Stays, ThreadGroups
  <2>7. CallerPlace(r) /\ CallerAt(r)
    BY <1>2, <2>3, <2>4 DEF CallerPlace, CallerAt, Deleting, Setting
  <2>8. ThreadNum(r)
    BY <1>1, <1>2, <2>3, <2>4 DEF ThreadNum, Adding, Setting
  <2> QED BY <1>1, <1>2, <2>3, <2>4, <2>5, <2>6, <2>7, <2>8, EndAddKeeps
<1>6. ASSUME NEW ok \in BOOLEAN, Leave(a, ok), UNCHANGED flagVars, th[a].call # "set"
      PROVE  ControlInv'
  <2>1. PICK r : r = Done(a, ok)
    OBVIOUS
  <2>2. /\ r \in ThreadStates /\ Stays(a, r) /\ ~Adding(r) /\ ~Making(r) /\ ~Setting(r)
        /\ a \in Workers => WorkerPlace(r)
        /\ a \in Callers => CallerPlace(r) /\ CallerAt(r)
        /\ r.at <= made /\ ThreadGroups(r)
        /\ \/ r.pc \in {"idle", "run"}
           \/ r.pc = "assign" /\ r.call = th[a].call /\ r.num = th[a].num
    BY <1>2, <2>1, DoneFacts
  <2>3. ThreadNum(r)
    BY <1>1, <1>2, <2>2 DEF ThreadNum, Adding, Setting
  <2>4. th' = [th EXCEPT ![a] = r] /\ mutex' = IF Setting(r) THEN a ELSE NULL
    BY <1>6, <2>1, <2>2 DEF Leave, Finish
  <2> QED BY <1>1, <1>6, <2>2, <2>3, <2>4, EndAddKeeps
<1>7. CASE MinAdded(a)
  <2>1. PICK ok \in BOOLEAN : ok = (Added(a) = th[a].num - th[a].old)
    OBVIOUS
  <2>2. Leave(a, ok) /\ th[a].call # "set" /\ UNCHANGED flagVars
    BY <1>7, <2>1 DEF MinAdded
  <2> QED BY <1>6, <2>2
<1>8. CASE GrowAdded(a)
  BY <1>6, <1>8 DEF GrowAdded
<1> QED BY <1>5, <1>7, <1>8

-----------------------------------------------------------------------------
(* The invariant is inductive: TaskControl::init.                          *)

\* The thread that makes or deletes a TaskControl nobody else has seen.
LEMMA MakerFacts ==
    ASSUME ControlInv, NEW t \in Callers, Making(th[t])
    PROVE  /\ t \in Agents /\ t \notin Workers /\ mutex = t /\ g = 0
           /\ made \in 1..Controls /\ made \in Nat /\ ~(made > made) /\ made <= made
           /\ th[t] \in ThreadStates /\ th[t].at = made /\ th[t].seen = 0
           /\ CallerPlace(th[t]) /\ th[t].call = "start" /\ MakingOK(th[t])
           /\ tc[made] \in ControlStates /\ tc[made].concurrency \in Nat
           /\ tc[made].workers \in Seq(Workers \cup {NULL})
           /\ Len(tc[made].workers) \in Nat
<1>1. t \in Agents /\ t \notin Workers
  BY Apart
<1>2. /\ mutex = t /\ g = 0 /\ made # 0 /\ th[t].at = made /\ made \in 0..Controls
      /\ th[t] \in ThreadStates /\ CallerPlace(th[t]) /\ MakingOK(th[t])
      /\ ThreadGroups(th[t])
  BY <1>1 DEF ControlInv, MutexInv, AtInv, ThreadAt, TypeOK, PlaceInv, WorkersInv, GroupsInv
<1>3. made \in 1..Controls /\ made \in Nat /\ ~(made > made) /\ made <= made
  BY <1>2, Apart
<1>4. th[t].call = "start" /\ th[t].seen = 0
  BY <1>2 DEF Making, Deleting, CallerPlace, ThreadGroups, Setting
<1>5. /\ tc[made] \in ControlStates /\ tc[made].concurrency \in Nat
      /\ tc[made].workers \in Seq(Workers \cup {NULL}) /\ Len(tc[made].workers) \in Nat
  BY <1>3, ControlFields DEF ControlInv, NumInv
<1> QED BY <1>1, <1>2, <1>3, <1>4, <1>5

(***************************************************************************)
(* A step of that thread, which becomes r: worker w is created, or the     *)
(* TaskControl is published, or it is gone with its workers.               *)
(***************************************************************************)
LEMMA MakeStep ==
    ASSUME ControlInv, NEW t \in Callers, Making(th[t]),
           th' \in [Agents -> ThreadStates], NEW r \in ThreadStates, th'[t] = r,
           NEW w \in Workers \cup {NULL}, w # t,
           w # NULL => /\ th'[w].pc = "created" /\ th'[w].call = "none"
                       /\ th'[w].at = made /\ th'[w].seen = 0 /\ Making(r),
           \A b \in Agents : b # t /\ b # w => th'[b] = th[b],
           UNCHANGED flagVars, UNCHANGED <<made, calls>>,
           NEW k \in ControlStates, tc' = [tc EXCEPT ![made] = k],
           k.ngroup = tc[made].ngroup, k.stop = tc[made].stop, k.lots = tc[made].lots,
           k.groups = tc[made].groups, k.concurrency = tc[made].concurrency,
           ~Adding(r), ~Setting(r), CallerPlace(r), CallerAt(r)', r.at <= made,
           g' \in {0, made}, g' # 0 => tc[made].ngroup # 0,
           mutex' = IF Making(r) THEN t ELSE NULL,
           Making(r) => g' = 0 /\ r.at = made,
           ~Making(r) /\ g' = 0 => \A v \in WorkersOf(made) : th[v].pc = "exited",
           g' # 0 => Matched(g)',
           MakingOK(r)', ThreadNum(r), ThreadGroups(r)
    PROVE  ControlInv'
<1>1. /\ t \in Agents /\ t \notin Workers /\ mutex = t /\ g = 0
      /\ made \in 1..Controls /\ ~(made > made) /\ made <= made
      /\ th[t].at = made
  BY MakerFacts
<1>2. /\ made' = made /\ calls' = calls
      /\ conc' \in Nat /\ minc' \in Nums \cup {0} /\ never_set' \in BOOLEAN
  BY FlagsStay
<1>3. /\ tc' \in [1..Controls -> ControlStates] /\ tc'[made] = k
      /\ \A c \in 1..Controls : c # made => tc'[c] = tc[c]
  BY <1>1 DEF ControlInv, TypeOK
<1>4. TypeOK'
  <2>1. mutex' \in Agents \cup {NULL} /\ g' \in 0..Controls
    BY <1>1, Apart
  <2> QED BY <1>2, <1>3, <2>1 DEF ControlInv, TypeOK
<1>5. \A c \in 1..Controls :
         /\ tc'[c].ngroup = tc[c].ngroup /\ tc'[c].stop = tc[c].stop
         /\ tc'[c].lots = tc[c].lots /\ tc'[c].groups = tc[c].groups
         /\ c > made' => tc'[c] = NewControl
  BY <1>1, <1>2, <1>3 DEF ControlInv, NumInv
<1>6. PICK N : N = {w} \ {NULL}
  OBVIOUS
<1>7. /\ N \in SUBSET Workers /\ t \notin N
      /\ \A v \in N : /\ th'[v].pc = "created" /\ th'[v].call = "none"
                      /\ th'[v].at = r.at /\ th'[v].seen = 0 /\ r.at # 0
      /\ \A b \in Agents : b # t /\ b \notin N => th'[b] = th[b]
  BY <1>1, <1>6, Apart
<1>8. ThreadAt(r)' /\ AddingOK(r)'
  BY <1>1, <1>2 DEF ThreadAt, AddingOK, Adding
<1>9. ASSUME NEW v \in Workers, th'[v].at \notin {0, g'}, th'[v].pc # "exited"
      PROVE  mutex' = t /\ Making(r) /\ r.at = th'[v].at
  <2>1. CASE v = w
    BY <1>9, <2>1, Apart
  <2>2. CASE v # w
    <3>1. th'[v] = th[v]
      BY <1>1, <2>2, Apart
    <3>2. PICK u \in Callers : mutex = u /\ th[u].at = th[v].at
      BY <1>1, <1>9, <3>1 DEF ControlInv, AtInv
    <3>3. th[v].at = made
      BY <1>1, <3>2
    <3>4. v \in WorkersOf(made) /\ g' = 0
      BY <1>9, <3>1, <3>3 DEF WorkersOf
    <3> QED BY <1>9, <3>1, <3>3, <3>4
  <2> QED BY <2>1, <2>2
<1>10. /\ g' \in {0, made'} /\ (g # 0 => g' = g) /\ made <= made'
       /\ Adding(r) \/ Making(r) \/ Setting(r) => mutex' = t
       /\ g' # g => g' \in 1..Controls /\ tc[g'].ngroup # 0
  BY <1>1, <1>2
<1>11. \A v \in Workers :
          th'[v].at \notin {0, g'} /\ th'[v].pc # "exited" =>
              \E u \in Callers :
                  /\ mutex' = u /\ (Making(th'[u]) \/ th'[u].pc = "crashed")
                  /\ th'[u].at = th'[v].at
  BY <1>9
<1> QED BY <1>1, <1>2, <1>4, <1>5, <1>7, <1>8, <1>10, <1>11, HolderStep

\* A TaskControl is allocated; it has no workers yet.
LEMMA NewTaskControlKeeps ==
    ASSUME ControlInv, NEW t \in Callers, th[t].pc = "get_lock", mutex = NULL, g = 0,
           NewTaskControl(t)
    PROVE  ControlInv'
<1>1. /\ made < Controls /\ mutex' = t /\ made' = made + 1 /\ UNCHANGED flagVars
      /\ g' = g /\ calls' = calls
      /\ t \in Agents /\ t \notin Workers /\ th[t] \in ThreadStates
  BY Apart DEF NewTaskControl, ControlInv, TypeOK
<1>2. PICK c \in 1..Controls : c = made + 1 /\ c > made /\ c # 0 /\ made <= c /\ ~(c > c)
  BY <1>1, Apart DEF ControlInv, TypeOK
<1>3. /\ conc' \in Nat /\ minc' \in Nums \cup {0} /\ never_set' \in BOOLEAN
  BY <1>1, FlagsStay
<1>4. PICK n \in Nat : n = (IF minc > 0 THEN minc ELSE conc)
  <2>1. conc \in Nat /\ minc \in Int
    BY Number DEF ControlInv, TypeOK
  <2> QED BY <2>1
<1>5. PICK ws \in {<<>>, [i \in 1..n |-> NULL]} :
          /\ tc' = [tc EXCEPT ![c].concurrency = n, ![c].workers = ws]
          /\ th' = [th EXCEPT ![t] =
                [@ EXCEPT !.at = c, !.idx = 1,
                          !.pc = IF ws = <<>> THEN "delete" ELSE "init"]]
  BY <1>2, <1>4 DEF NewTaskControl
<1>6. /\ ws \in Seq(Workers \cup {NULL})
      /\ ws # <<>> => Len(ws) = n /\ n >= 1
  <2>1. CASE ws = <<>>
    BY <2>1
  <2>2. CASE ws = [i \in 1..n |-> NULL] /\ ws # <<>>
    <3>1. ws \in Seq(Workers \cup {NULL}) /\ Len(ws) = n
      BY <2>2
    <3>2. n # 0
      BY <2>2, <3>1
    <3> QED BY <3>1, <3>2
  <2> QED BY <1>5, <2>1, <2>2
<1>7. PICK r : r = [th[t] EXCEPT !.at = c, !.idx = 1,
                                 !.pc = IF ws = <<>> THEN "delete" ELSE "init"]
  OBVIOUS
<1>8. CallerPlace(th[t]) /\ th[t].call = "start" /\ th[t].seen = 0
  BY <1>1 DEF ControlInv, PlaceInv, CallerPlace, GroupsInv, ThreadGroups, Setting
<1>9. /\ r \in ThreadStates /\ r.call = "start" /\ r.at = c /\ r.seen = 0 /\ r.idx = 1
      /\ r.pc = (IF ws = <<>> THEN "delete" ELSE "init")
  <2>1. PICK p \in Places : p = IF ws = <<>> THEN "delete" ELSE "init"
    BY DEF Places
  <2>2. r = [th[t] EXCEPT !.at = c, !.idx = 1, !.pc = p] /\ c \in 0..Controls
    BY <1>7, <2>1
  <2>3. /\ r \in ThreadStates /\ r.call = th[t].call /\ r.at = c /\ r.seen = th[t].seen
        /\ r.idx = 1 /\ r.pc = p
    BY <1>1, <2>2 DEF ThreadStates
  <2> QED BY <1>8, <2>1, <2>3
<1>10. /\ th' \in [Agents -> ThreadStates] /\ th'[t] = r
       /\ \A b \in Agents : b # t => th'[b] = th[b]
  <2>1. th' = [th EXCEPT ![t] = r]
    BY <1>5, <1>7
  <2> QED BY <1>1, <1>9, <2>1, OneThread DEF ControlInv
<1>11. tc[c] = NewControl /\ tc[c] \in ControlStates
  BY <1>2, ControlFields DEF ControlInv, NumInv
<1>12. PICK k : k = [tc[c] EXCEPT !.concurrency = n, !.workers = ws]
  OBVIOUS
<1>13. /\ k \in ControlStates /\ k.ngroup = tc[c].ngroup /\ k.stop = tc[c].stop
       /\ k.lots = tc[c].lots /\ k.groups = tc[c].groups /\ k.concurrency = n
       /\ k.workers = ws
  BY <1>6, <1>11, <1>12 DEF ControlStates
<1>14. /\ tc' \in [1..Controls -> ControlStates] /\ tc'[c] = k
       /\ \A d \in 1..Controls : d # c => tc'[d] = tc[d]
  <2>1. tc' = [tc EXCEPT ![c] = k]
    BY <1>5, <1>12
  <2> QED BY <1>13, <2>1 DEF ControlInv, TypeOK
<1>15. TypeOK'
  <2>1. made' \in 0..Controls /\ mutex' \in Agents \cup {NULL}
    BY <1>1, <1>2
  <2> QED BY <1>1, <1>3, <1>10, <1>14, <2>1 DEF ControlInv, TypeOK
<1>16. ASSUME NEW d \in 1..Controls
       PROVE  /\ tc'[d].ngroup = tc[d].ngroup /\ tc'[d].stop = tc[d].stop
              /\ tc'[d].lots = tc[d].lots /\ tc'[d].groups = tc[d].groups
              /\ d > made' => tc'[d] = NewControl
  <2>1. CASE d = c
    BY <1>1, <1>2, <1>4, <1>13, <1>14, <2>1
  <2>2. CASE d # c
    <3>1. made \in Nat /\ (d > made + 1 => d > made)
      BY Apart DEF ControlInv, TypeOK
    <3> QED BY <1>1, <1>3, <1>14, <2>2, <3>1 DEF ControlInv, NumInv
  <2> QED BY <2>1, <2>2
<1>17. WorkersOf(c)' = {}
  <2>1. ASSUME NEW v \in Workers PROVE th'[v].at # c
    <3>1. th'[v] = th[v] /\ th[v].at <= made /\ th[v].at \in Nat /\ made \in Nat
      BY <1>1, <1>10, Fields, Apart DEF ControlInv, AtInv, ThreadAt, TypeOK
    <3> QED BY <1>2, <3>1
  <2> QED BY <2>1 DEF WorkersOf
<1>18. ~Adding(r) /\ ~Setting(r) /\ Making(r) /\ r.pc \in {"init", "delete"}
  BY <1>9 DEF Adding, Making, Deleting, Setting
<1>19. MakingOK(r)'
  <2>1. WorkersOf(r.at)' \subseteq Slots(r.at, Len(tc[r.at].workers))'
    BY <1>9, <1>17
  <2>2. ASSUME r.pc = "init"
        PROVE  /\ tc'[r.at].concurrency = Len(tc'[r.at].workers)
               /\ r.idx \in 1..Len(tc'[r.at].workers)
               /\ Slots(r.at, r.idx - 1)' = WorkersOf(r.at)'
    <3>1. ws # <<>> /\ Len(ws) = n /\ 1 \in 1..n
      BY <1>6, <1>9, <2>2
    <3>2. Slots(c, 0)' = {}
      BY DEF Slots
    <3>3. r.idx - 1 = 0
      BY <1>9
    <3> QED BY <1>9, <1>13, <1>14, <1>17, <3>1, <3>2, <3>3
  <2> QED BY <1>18, <2>1, <2>2 DEF MakingOK
<1>20. ThreadNum(r) /\ ThreadGroups(r) /\ AddingOK(r)'
  BY <1>9, <1>18 DEF ThreadNum, ThreadGroups, AddingOK, Adding, Setting
<1>21. CallerPlace(r) /\ CallerAt(r)' /\ ThreadAt(r)'
  BY <1>1, <1>2, <1>9, <1>18 DEF CallerPlace, CallerAt, ThreadAt, Deleting, Setting
<1>22. ASSUME NEW v \in Workers, th'[v].at \notin {0, g'}, th'[v].pc # "exited"
       PROVE  FALSE
  <2>1. th'[v] = th[v]
    BY <1>1, <1>10, Apart
  <2>2. PICK u \in Callers : mutex = u
    BY <1>1, <1>22, <2>1 DEF ControlInv, AtInv
  <2> QED BY <2>2, Apart
<1>23. PICK N : N = {}
  OBVIOUS
<1>24. /\ N \in SUBSET Workers /\ t \notin N
       /\ \A w \in N : /\ th'[w].pc = "created" /\ th'[w].call = "none"
                       /\ th'[w].at = r.at /\ th'[w].seen = 0 /\ r.at # 0
       /\ \A b \in Agents : b # t /\ b \notin N => th'[b] = th[b]
  BY <1>10, <1>23
<1>25. g' = 0 /\ g' \in {0, made'} /\ made <= made'
  BY <1>1, <1>2
<1> QED BY <1>1, <1>3, <1>9, <1>10, <1>15, <1>16, <1>18, <1>19, <1>20, <1>21, <1>22, <1>24,
           <1>25, HolderStep

\* init creates the worker of the next slot, or fails.
LEMMA InitCreateKeeps ==
    ASSUME ControlInv, NEW t \in Callers, InitCreate(t)
    PROVE  ControlInv'
<1>1. /\ th[t].pc = "init" /\ UNCHANGED flagVars /\ g' = g /\ mutex' = mutex
      /\ UNCHANGED <<flagVars, mutex, g, made, calls>>
      /\ UNCHANGED <<made, calls>> /\ made' = made
  BY DEF InitCreate, At
<1>2. Making(th[t])
  BY <1>1 DEF Making
<1>3. /\ t \in Agents /\ t \notin Workers /\ mutex = t /\ g = 0
      /\ made \in 1..Controls /\ made <= made
      /\ th[t] \in ThreadStates /\ th[t].at = made /\ th[t].seen = 0
      /\ th[t].call = "start" /\ MakingOK(th[t])
      /\ tc[made] \in ControlStates /\ tc[made].concurrency \in Nat
      /\ Len(tc[made].workers) \in Nat
  BY <1>2, MakerFacts
<1>4. PICK c \in 1..Controls, n \in Nat, i \in Nat :
         c = made /\ n = Len(tc[c].workers) /\ i = th[t].idx
  BY <1>3, Fields
<1>5. /\ tc[c].concurrency = n /\ i \in 1..n /\ Slots(c, i - 1) = WorkersOf(c)
      /\ WorkersOf(c) \subseteq Slots(c, n)
  BY <1>1, <1>2, <1>3, <1>4 DEF MakingOK
<1>6. CASE pthread_create(t, i, [th[t] EXCEPT !.pc = IF i = n THEN "wait" ELSE "init",
                                              !.idx = i + 1])
  <2>1. PICK r : r = [th[t] EXCEPT !.pc = IF i = n THEN "wait" ELSE "init", !.idx = i + 1]
    OBVIOUS
  <2>2. /\ r \in ThreadStates /\ r.pc = (IF i = n THEN "wait" ELSE "init")
        /\ r.call = "start" /\ r.at = c /\ r.seen = 0 /\ r.idx = i + 1
    <3>1. PICK p \in Places, j \in Nat : p = (IF i = n THEN "wait" ELSE "init") /\ j = i + 1
      BY DEF Places
    <3>2. r = [th[t] EXCEPT !.pc = p, !.idx = j]
      BY <2>1, <3>1
    <3>3. /\ r \in ThreadStates /\ r.pc = p /\ r.call = th[t].call /\ r.at = th[t].at
          /\ r.seen = th[t].seen /\ r.idx = j
      BY <1>3, <3>2 DEF ThreadStates
    <3> QED BY <1>3, <1>4, <3>1, <3>3
  <2>3. /\ pthread_create(t, i, r) /\ th[t].pc # "none" /\ i <= Len(tc[c].workers)
        /\ i >= 1 /\ th[t].at = c
    BY <1>1, <1>3, <1>4, <1>5, <1>6, <2>1
  <2>4. PICK w \in Workers, k \in ControlStates : WorkerCreated(t, r, c, i, w, k)
    BY <1>3, <1>4, <2>2, <2>3, Created
  <2>5. /\ w # t /\ w # NULL /\ th'[w].pc = "created" /\ th'[w].call = "none"
        /\ th'[w].at = c /\ th'[w].seen = 0
        /\ th' \in [Agents -> ThreadStates] /\ th'[t] = r
        /\ \A b \in Agents : b # t /\ b # w => th'[b] = th[b]
        /\ tc' = [tc EXCEPT ![c] = k] /\ tc'[c] = k
        /\ k.ngroup = tc[c].ngroup /\ k.stop = tc[c].stop /\ k.lots = tc[c].lots
        /\ k.groups = tc[c].groups /\ k.concurrency = tc[c].concurrency
        /\ Len(k.workers) = Len(tc[c].workers)
    BY <2>4 DEF WorkerCreated
  <2>6. /\ tc'[c].concurrency = n /\ Len(tc'[c].workers) = n
        /\ Slots(c, i)' = WorkersOf(c)' /\ WorkersOf(c)' \subseteq Slots(c, n)'
    BY <1>4, <1>5, <2>3, <2>4, <2>5 DEF WorkerCreated
  <2>7. MakingOK(r)'
    <3>1. CASE i = n
      <4>1. Matched(r.at)'
        BY <2>2, <2>6, <3>1 DEF Matched
      <4> QED BY <2>2, <2>6, <3>1, <4>1 DEF MakingOK, Making, Deleting
    <3>2. CASE i # n
      <4>1. i + 1 \in 1..n /\ (i + 1) - 1 = i
        BY <1>5, <3>2
      <4> QED BY <2>2, <2>6, <3>2, <4>1 DEF MakingOK, Making, Deleting
    <3> QED BY <3>1, <3>2
  <2>8. /\ ~Adding(r) /\ Making(r) /\ ~Setting(r) /\ ThreadNum(r) /\ ThreadGroups(r)
        /\ CallerPlace(r) /\ CallerAt(r)'
    BY <2>2 DEF Adding, Making, Deleting, Setting, ThreadNum, ThreadGroups, CallerPlace,
                CallerAt
  <2>9. /\ mutex' = (IF Making(r) THEN t ELSE NULL) /\ g' \in {0, made} /\ g' = 0
        /\ w \in Workers \cup {NULL} /\ r.at = made /\ r.at <= made
        /\ tc' = [tc EXCEPT ![made] = k]
        /\ k.ngroup = tc[made].ngroup /\ k.stop = tc[made].stop /\ k.lots = tc[made].lots
        /\ k.groups = tc[made].groups /\ k.concurrency = tc[made].concurrency
        /\ th'[w].at = made
    BY <1>1, <1>3, <1>4, <2>2, <2>5, <2>8
  <2> QED BY <1>1, <1>2, <2>2, <2>5, <2>7, <2>8, <2>9, MakeStep
<1>7. CASE Goto(t, "delete") /\ tc' = tc
  <2>1. PICK r : r = [th[t] EXCEPT !.pc = "delete"]
    OBVIOUS
  <2>2. /\ r \in ThreadStates /\ r.pc = "delete" /\ r.call = th[t].call /\ r.at = th[t].at
        /\ r.seen = 0
    BY <1>3, <2>1 DEF ThreadStates, Places
  <2>3. th' = [th EXCEPT ![t] = r]
    BY <1>7, <2>1 DEF Goto
  <2>4. MakingOK(r) /\ Deleting(r) /\ ThreadGroups(r)
    BY <1>3, <1>4, <1>5, <2>2 DEF MakingOK, Deleting, ThreadGroups
  <2>5. GroupsInv'
    <3>1. g' = g
      BY <1>1
    <3> QED BY <1>3, <1>7, <2>2, <2>3, <2>4, <3>1, GroupsStay
  <2>6. /\ tc' \in [1..Controls -> ControlStates]
        /\ \A d \in 1..Controls : /\ tc'[d].concurrency = tc[d].concurrency
                                  /\ tc'[d].workers = tc[d].workers
                                  /\ d > made => tc'[d] = tc[d]
    BY <1>7 DEF ControlInv, TypeOK
  <2> QED BY <1>1, <2>2, <2>3, <2>4, <2>5, <2>6, DeleterStep
<1> QED BY <1>3, <1>4, <1>6, <1>7 DEF InitCreate, Tc

\* The TaskControl has a group and is published, with all its workers.
LEMMA InitWaitKeeps ==
    ASSUME ControlInv, NEW t \in Callers, InitWait(t)
    PROVE  ControlInv'
<1>1. /\ th[t].pc = "wait" /\ UNCHANGED flagVars /\ UNCHANGED <<made, calls>>
      /\ made' = made /\ g' = th[t].at /\ mutex' = NULL /\ tc' = tc /\ Goto(t, "choose")
      /\ tc[th[t].at].ngroup # 0
  BY DEF InitWait, At, Tc
<1>2. Making(th[t])
  BY <1>1 DEF Making
<1>3. /\ t \in Agents /\ t \notin Workers /\ made \in 1..Controls /\ made <= made
      /\ th[t] \in ThreadStates /\ th[t].at = made /\ th[t].seen = 0
      /\ th[t].call = "start" /\ MakingOK(th[t]) /\ tc[made] \in ControlStates
  BY <1>2, MakerFacts
<1>4. PICK r : r = [th[t] EXCEPT !.pc = "choose"]
  OBVIOUS
<1>5. /\ r \in ThreadStates /\ r.pc = "choose" /\ r.call = "start" /\ r.at = made
      /\ r.seen = 0
  BY <1>3, <1>4 DEF ThreadStates, Places
<1>6. /\ th' \in [Agents -> ThreadStates] /\ th'[t] = r
      /\ \A b \in Agents : b # t => th'[b] = th[b]
  <2>1. th' = [th EXCEPT ![t] = r]
    BY <1>1, <1>4 DEF Goto
  <2> QED BY <1>3, <1>5, <2>1, OneThread DEF ControlInv
<1>7. /\ ~Adding(r) /\ ~Making(r) /\ ~Setting(r) /\ ThreadNum(r) /\ ThreadGroups(r)
      /\ CallerPlace(r) /\ MakingOK(r)'
  BY <1>5 DEF Adding, Making, Deleting, Setting, ThreadNum, ThreadGroups, CallerPlace,
              MakingOK
<1>8. g' = made /\ g' # 0 /\ CallerAt(r)'
  BY <1>1, <1>3, <1>5 DEF CallerAt, Deleting
<1>9. Matched(g)'
  <2>1. Matched(made)
    BY <1>1, <1>3 DEF MakingOK
  <2>2. WorkersOf(made)' = WorkersOf(made)
    <3>1. \A w \in Workers : th'[w] = th[w]
      BY <1>3, <1>6, Apart
    <3> QED BY <1>1, <3>1 DEF WorkersOf
  <2>3. Matched(made)'
    BY <1>1, <2>1, <2>2 DEF Matched, Slots
  <2> QED BY <1>1, <1>8, <2>3 DEF Matched, Slots, WorkersOf
<1>10. tc' = [tc EXCEPT ![made] = tc[made]]
  BY <1>1, <1>3 DEF ControlInv, TypeOK
<1>11. NULL \in Workers \cup {NULL} /\ NULL # t
  BY <1>3, Apart
<1> QED BY <1>1, <1>2, <1>3, <1>5, <1>6, <1>7, <1>8, <1>9, <1>10, <1>11, MakeStep

\* stop_and_join: the workers have exited one after the other when a failed TaskControl
\* is gone and the mutex is released.
LEMMA JoinKeeps ==
    ASSUME ControlInv, NEW t \in Callers, Join(t)
    PROVE  ControlInv'
<1>1. /\ th[t].pc = "join" /\ Deleting(th[t])
      /\ UNCHANGED flagVars /\ UNCHANGED controlVars /\ calls' = calls
      /\ g' = g /\ made' = made /\ tc' = tc
  BY DEF Join, At, Deleting, controlVars
<1>2. /\ t \in Agents /\ t \notin Workers /\ th[t] \in ThreadStates
      /\ th[t].at \in 1..Controls /\ th[t].seen = 0 /\ th[t].call \in {"start", "stop"}
      /\ ~Adding(th[t]) /\ (th[t].call = "start" => Making(th[t]))
  BY <1>1, DeleterFacts
<1>3. PICK c \in 1..Controls, n \in Nat, i \in Nat :
         c = th[t].at /\ n = Len(tc[c].workers) /\ i = th[t].idx
  BY <1>2, Fields, ControlFields DEF ControlInv
<1>4. PICK u : u = tc[c].workers
  OBVIOUS
<1>5. u \in Seq(Workers \cup {NULL}) /\ n = Len(u)
  BY <1>3, <1>4, ControlFields DEF ControlInv
<1>6. MakingOK(th[t])
  BY <1>2 DEF ControlInv, WorkersInv
<1>7. ASSUME NEW r \in ThreadStates, th' = [th EXCEPT ![t] = r], r.call = th[t].call,
             r.at = th[t].at, r.seen = 0, Deleting(r) \/ r.pc = "crashed", MakingOK(r),
             mutex' = mutex, r.pc # "lots"
      PROVE  ControlInv'
  <2>1. GroupsInv'
    <3>1. ThreadGroups(r)
      BY <1>7 DEF ThreadGroups, Deleting
    <3> QED BY <1>1, <1>2, <1>7, <3>1, GroupsStay
  <2>2. /\ tc' \in [1..Controls -> ControlStates]
        /\ \A d \in 1..Controls : /\ tc'[d].concurrency = tc[d].concurrency
                                  /\ tc'[d].workers = tc[d].workers
                                  /\ d > made => tc'[d] = tc[d]
    BY <1>1 DEF ControlInv, TypeOK
  <2>3. UNCHANGED <<flagVars, mutex, g, made, calls>>
    BY <1>1, <1>7
  <2> QED BY <1>1, <1>7, <2>1, <2>2, <2>3, DeleterStep
<1>8. CASE i > n /\ Finish(t, FALSE) /\ th[t].call = "stop" /\ mutex' = mutex
  <2>1. ~Making(th[t])
    BY <1>1, <1>8 DEF Making, Deleting
  <2>2. UNCHANGED <<mutex, controlVars>> /\ calls' \in 0..MaxCalls
    BY <1>1, <1>8 DEF ControlInv, TypeOK
  <2> QED BY <1>1, <1>2, <1>8, <2>1, <2>2, FlagsStay, FinishKeeps
<1>9. CASE i > n /\ Finish(t, FALSE) /\ th[t].call = "start" /\ mutex' = NULL
  <2>1. /\ Making(th[t]) /\ g = 0 /\ made \in 1..Controls /\ th[t].at = made /\ made <= made
        /\ tc[made] \in ControlStates
    BY <1>2, <1>9, MakerFacts
  <2>2. PICK r : r = Done(t, FALSE)
    OBVIOUS
  <2>3. /\ r \in ThreadStates /\ ~Adding(r) /\ ~Making(r) /\ ~Setting(r)
        /\ CallerPlace(r) /\ CallerAt(r) /\ r.at <= made /\ ThreadGroups(r) /\ r.pc = "idle"
    BY <1>1, <1>2, <2>2, DoneFacts
  <2>4. /\ th' \in [Agents -> ThreadStates] /\ th'[t] = r
        /\ \A b \in Agents : b # t => th'[b] = th[b]
    <3>1. th' = [th EXCEPT ![t] = r]
      BY <1>9, <2>2 DEF Finish
    <3> QED BY <1>2, <2>3, <3>1, OneThread DEF ControlInv
  <2>5. ASSUME NEW v \in WorkersOf(made) PROVE th[v].pc = "exited"
    <3>1. v \in Slots(made, n)
      BY <1>3, <1>6, <2>1 DEF MakingOK
    <3>2. PICK j \in 1..n : v = tc[made].workers[j]
      BY <3>1 DEF Slots
    <3>3. j < i
      BY <1>9
    <3> QED BY <1>1, <1>3, <1>6, <2>1, <3>2, <3>3 DEF MakingOK
  <2>6. CallerAt(r)' /\ MakingOK(r)' /\ ThreadNum(r)
    BY <2>3 DEF CallerAt, MakingOK, Making, ThreadNum, Deleting, Adding, Setting
  <2>7. tc' = [tc EXCEPT ![made] = tc[made]]
    BY <1>1, <2>1 DEF ControlInv, TypeOK
  <2>8. /\ NULL \in Workers \cup {NULL} /\ NULL # t /\ g' \in {0, made} /\ ~(g' # 0)
        /\ mutex' = IF Making(r) THEN t ELSE NULL
    BY <1>1, <1>2, <1>9, <2>1, <2>3, Apart
  <2>9. UNCHANGED <<made, calls>>
    BY <1>1
  <2> QED BY <1>1, <2>1, <2>3, <2>4, <2>5, <2>6, <2>7, <2>8, <2>9, MakeStep
<1>10. CASE Goto(t, "crashed") /\ mutex' = mutex
  <2>1. PICK r : r = [th[t] EXCEPT !.pc = "crashed"]
    OBVIOUS
  <2>2. /\ r \in ThreadStates /\ r.pc = "crashed" /\ r.call = th[t].call /\ r.at = th[t].at
        /\ r.seen = 0
    BY <1>2, <2>1 DEF ThreadStates, Places
  <2>3. th' = [th EXCEPT ![t] = r]
    BY <1>10, <2>1 DEF Goto
  <2>4. MakingOK(r)
    BY <2>2 DEF MakingOK, Making, Deleting
  <2> QED BY <1>7, <1>10, <2>2, <2>3, <2>4
<1>11. CASE /\ i <= n /\ u[i] # NULL /\ th[u[i]].pc = "exited"
            /\ th' = [th EXCEPT ![t].idx = i + 1] /\ mutex' = mutex
  <2>1. PICK r : r = [th[t] EXCEPT !.idx = i + 1]
    OBVIOUS
  <2>2. /\ r \in ThreadStates /\ r.pc = "join" /\ r.call = th[t].call /\ r.at = th[t].at
        /\ r.seen = 0 /\ r.idx = i + 1
    BY <1>1, <1>2, <2>1 DEF ThreadStates
  <2>3. th' = [th EXCEPT ![t] = r]
    BY <1>11, <2>1
  <2>4. MakingOK(r) /\ Deleting(r)
    <3>1. Deleting(r)
      BY <2>2 DEF Deleting
    <3>2. ASSUME Making(r)
          PROVE  /\ i + 1 >= 1 /\ WorkersOf(c) \subseteq Slots(c, n)
                 /\ \A j \in 1..n : j < i + 1 => u[j] \in Workers /\ th[u[j]].pc = "exited"
      <4>1. Making(th[t])
        BY <1>1, <2>2, <3>2 DEF Making, Deleting
      <4>2. /\ i >= 1 /\ WorkersOf(c) \subseteq Slots(c, n)
            /\ \A j \in 1..n : j < i => u[j] \in Workers /\ th[u[j]].pc = "exited"
        BY <1>1, <1>3, <1>4, <1>6, <4>1 DEF MakingOK
      <4>3. u[i] \in Workers
        <5>1. i \in 1..n
          BY <1>11, <4>2
        <5>2. u[i] \in Workers \cup {NULL}
          BY <1>5, <5>1
        <5> QED BY <1>11, <5>2
      <4>4. \A j \in 1..n : j < i + 1 => j < i \/ j = i
        OBVIOUS
      <4> QED BY <1>11, <4>2, <4>3, <4>4
    <3> QED BY <1>3, <1>4, <2>2, <3>1, <3>2 DEF MakingOK
  <2> QED BY <1>7, <1>11, <2>2, <2>3, <2>4
<1> QED
  <2>1. At(u[i], "exited") <=> th[u[i]].pc = "exited"
    BY DEF At
  <2> QED BY <1>2, <1>3, <1>4, <1>8, <1>9, <1>10, <1>11, <2>1 DEF Join, Tc

\* get_or_new_task_control, outside init.
LEMMA GetTaskControlKeeps ==
    ASSUME ControlInv, NEW t \in Callers, Get(t) \/ GetLock(t)
    PROVE  ControlInv'
<1>1. /\ t \in Agents /\ t \notin Workers /\ th[t].pc \in {"get", "get_lock"}
  BY Apart DEF Get, GetLock, At
<1>2. CASE Get(t)
  <2>1. PICK p \in {"choose", "get_lock"} : p = IF g # 0 THEN "choose" ELSE "get_lock"
    OBVIOUS
  <2>2. th' = [th EXCEPT ![t] = [th[t] EXCEPT !.pc = p, !.at = g]]
    BY <1>2, <2>1 DEF Get
  <2>3. UNCHANGED <<flagVars, mutex, controlVars, calls>>
    BY <1>2 DEF Get
  <2> QED BY <1>1, <2>1, <2>2, <2>3, GetKeeps
<1>3. CASE /\ g # 0
           /\ th' = [th EXCEPT ![t].pc = "choose", ![t].at = g]
           /\ UNCHANGED <<flagVars, mutex, controlVars, calls>>
  <2>1. th' = [th EXCEPT ![t] = [th[t] EXCEPT !.pc = "choose", !.at = g]]
    BY <1>3
  <2> QED BY <1>1, <1>3, <2>1, GetKeeps
<1>4. CASE th[t].pc = "get_lock" /\ Finish(t, FALSE)
           /\ UNCHANGED <<flagVars, mutex, controlVars, calls>>
  <2>1. ~Adding(th[t]) /\ ~Making(th[t])
    BY <1>4 DEF Adding, Making, Deleting, Setting
  <2>2. calls' \in 0..MaxCalls /\ UNCHANGED flagVars /\ UNCHANGED <<mutex, controlVars>>
    BY <1>4 DEF ControlInv, TypeOK
  <2> QED BY <1>1, <1>4, <2>1, <2>2, FlagsStay, FinishKeeps
<1>5. CASE th[t].pc = "get_lock" /\ mutex = NULL /\ g = 0 /\ NewTaskControl(t)
  BY <1>5, NewTaskControlKeeps
<1> QED BY <1>2, <1>3, <1>4, <1>5 DEF GetLock, At

-----------------------------------------------------------------------------
(* Every step, and what follows.                                           *)

\* Every step and a stutter keep the invariant.
LEMMA NextKeeps ==
    ASSUME ControlInv, [Next]_vars
    PROVE  ControlInv'
<1>1. CASE UNCHANGED vars
  <2>1. /\ conc' = conc /\ minc' = minc /\ never_set' = never_set
        /\ mutex' = mutex /\ g' = g /\ made' = made /\ tc' = tc
        /\ th' = th /\ calls' = calls
    BY <1>1 DEF vars, flagVars, controlVars
  <2>2. TypeOK' /\ MutexInv' /\ PlaceInv'
    BY <2>1 DEF ControlInv, TypeOK, MutexInv, PlaceInv
  <2>3. AtInv' /\ GroupsInv'
    BY <2>1 DEF ControlInv, AtInv, ThreadAt, CallerAt, GroupsInv, ThreadGroups
  <2>4. WorkersInv'
    <3>1. \A c : Matched(c)' <=> Matched(c)
      BY <2>1 DEF Matched, Slots, WorkersOf
    <3>2. \A a \in Agents : AddingOK(th[a])' <=> AddingOK(th[a])
      BY <2>1 DEF AddingOK, Slots, WorkersOf
    <3>3. \A a \in Agents : MakingOK(th[a])' <=> MakingOK(th[a])
      BY <2>1, <3>1 DEF MakingOK, Slots, WorkersOf
    <3> QED BY <2>1, <3>1, <3>2, <3>3 DEF ControlInv, WorkersInv
  <2>5. NumInv'
    BY <2>1 DEF ControlInv, NumInv, ThreadNum, Adding, Setting
  <2> QED BY <2>2, <2>3, <2>4, <2>5 DEF ControlInv
<1>2. ASSUME NEW t \in Callers, CallerStep(t) PROVE ControlInv'
  <2>1. CASE FlagAssign(t)
    BY <2>1, FlagAssignKeeps
  <2>2. CASE bthread_setconcurrency(t)
    <3>1. t \in Agents
      BY Apart
    <3> QED BY <2>2, <3>1, SetEnterKeeps, SetFlagKeeps, SetPeekKeeps, SetLockKeeps,
               SetAddKeeps, AddedKeeps DEF bthread_setconcurrency
  <2>3. CASE validate_bthread_min_concurrency(t)
    <3>1. t \in Agents
      BY Apart
    <3> QED BY <2>3, <3>1, MinEnterKeeps, MinLockKeeps, AddedKeeps
        DEF validate_bthread_min_concurrency
  <2>4. CASE get_or_new_task_control(t)
    BY <2>4, GetTaskControlKeeps, InitCreateKeeps, InitWaitKeeps DEF get_or_new_task_control
  <2>5. CASE choose_one_group(t)
    BY <2>5, ChooseKeeps
  <2>6. CASE bthread_stop_world(t)
    BY <2>6, StopWorldKeeps
  <2>7. CASE stop_and_join(t)
    BY <2>7, StopGroupsKeeps, JoinKeeps DEF stop_and_join
  <2> QED BY <1>2, <2>1, <2>2, <2>3, <2>4, <2>5, <2>6, <2>7 DEF CallerStep
<1>3. ASSUME NEW w \in Workers, worker_thread(w) PROVE ControlInv'
  BY <1>3, CreateGroupKeeps, DestroyGroupKeeps DEF worker_thread
<1>4. ASSUME NEW a \in Agents, Step(a) PROVE ControlInv'
  BY <1>4, AddIncKeeps, AddCreateKeeps, SignalKeeps, GrowLockKeeps, AddedKeeps DEF Step
<1>5. ASSUME NEW t \in Callers, NEW kind \in {"set", "flag", "min"}, NEW n \in Nums,
             Call(t, kind, n)
      PROVE  ControlInv'
  BY <1>5, CallKeeps
<1>6. ASSUME NEW t \in Callers, NEW kind \in {"start", "stop"}, Call(t, kind, 0)
      PROVE  ControlInv'
  BY <1>6, CallKeeps
<1>7. ASSUME NEW w \in Workers, RunSignal(w) PROVE ControlInv'
  BY <1>7, RunKeeps
<1> QED BY <1>1, <1>2, <1>3, <1>4, <1>5, <1>6, <1>7 DEF Next, Progress

\* Every reachable state satisfies the invariant: the mutex has one holder, who knows
\* how many workers there are at each step of add_workers, init and stop_and_join.
THEOREM ControlInvariant == Spec => []ControlInv
<1>1. Init => ControlInv
  BY InitInv
<1>2. ControlInv /\ [Next]_vars => ControlInv'
  BY NextKeeps
<1> QED BY <1>1, <1>2, PTL DEF Spec

\* _concurrency, the size of _workers and the pthreads that were created agree whenever
\* g_task_control_mutex is free, so stop_and_join joins every worker and nothing else.
THEOREM WorkersAreKnown == Spec => []WorkersMatch
<1>1. ControlInv => WorkersMatch
  <2> SUFFICES ASSUME ControlInv, mutex = NULL, g # 0
               PROVE  LET ws == tc[g].workers IN
                      /\ tc[g].concurrency = Len(ws)
                      /\ {ws[i] : i \in 1..Len(ws)} = {w \in Workers : th[w].at = g}
    BY DEF WorkersMatch, ControlInv
  <2>1. Matched(g)
    BY FreeMutex
  <2> QED BY <2>1 DEF Matched, Slots, WorkersOf
<1> QED BY <1>1, ControlInvariant, PTL

\* Nobody uses a TaskControl that is not g_task_control but the thread that makes or
\* deletes it and the workers that it is about to join.
THEOREM ControlIsUnique == Spec => []OneControl
<1>1. ControlInv => OneControl
  <2> SUFFICES ASSUME ControlInv PROVE OneControl
    OBVIOUS
  <2>1. ASSUME NEW t \in Callers, th[t].pc \in {"choose", "index", "push"}
        PROVE  th[t].at = g
    BY <2>1 DEF ControlInv, AtInv, CallerAt
  <2>2. ASSUME NEW w \in Workers, th[w].at \notin {0, g}, th[w].pc # "exited"
        PROVE  \E t \in Callers : mutex = t /\ th[t].at = th[w].at
    BY <2>2 DEF ControlInv, AtInv
  <2> QED BY <2>1, <2>2 DEF OneControl, At
<1> QED BY <1>1, ControlInvariant, PTL

\* choose_one_group returns a group: there is one from the publication of the
\* TaskControl until it is stopped.
THEOREM GroupsAreFound == Spec => []GroupFound
<1>1. ControlInv => GroupFound
  <2> SUFFICES ASSUME ControlInv, NEW t \in Callers
               PROVE  /\ th[t].pc = "null_group" => tc[th[t].at].stop
                      /\ th[t].pc = "push" => th[t].held # NULL
    BY DEF GroupFound, At, Tc
  <2> QED BY Apart DEF ControlInv, GroupsInv, ThreadGroups
<1> QED BY <1>1, ControlInvariant, PTL

=============================================================================
