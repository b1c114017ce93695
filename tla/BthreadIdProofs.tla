-------------------------- MODULE BthreadIdProofs --------------------------
(***************************************************************************)
(* TLAPS proofs about BthreadId for any number of threads, calls and       *)
(* lives: the lock is exclusive, ids of a former RPC are refused, who slept *)
(* as counted is not forgotten and errors put aside are handled.           *)
(***************************************************************************)
EXTENDS BthreadId, ListLemmas, FiniteSetTheorems

-----------------------------------------------------------------------------
(* The inductive invariant.                                                *)

\* The widths an id can have.
Widths == ({1} \cup Ranges) \ {0}

\* The versions: what the id covers, and what the slot looks like when it is free.
VersionInv ==
    /\ first_ver > 0
    /\ locked_ver = first_ver \/ \E r \in Widths : locked_ver = first_ver + r
    /\ ~live => first_ver = locked_ver /\ waiters = <<>>
    /\ pending_q <= calls

\* Who has the lock, or is destroying the id, is alone.
HolderInv ==
    /\ \A t, u \in Threads :
          /\ th[t].pc \in {"hold", "shut", "wakeall"}
          /\ th[u].pc \in {"hold", "shut", "wakeall"}
          => t = u
    /\ \A t \in Holders : live /\ butex # first_ver /\ has_version(th[t].ver)
    /\ butex # first_ver => Holders # {}
    /\ \A t \in Threads : At(t, "shut") => butex = unlockable_ver
    /\ \A t \in Threads : At(t, "wakeall") => live /\ first_ver = locked_ver
    /\ live /\ first_ver = locked_ver => \E t \in Threads : At(t, "wakeall")

\* An id tells the RPC it was given out for by its version.
IssuedInv ==
    /\ \A id \in issued :
          /\ id.ver < locked_ver
          /\ id.ver >= first_ver => id.life = life
          /\ id.ver < first_ver => id.life < life \/ first_ver = locked_ver
    /\ \A t \in Threads :
          th[t].pc \notin {"idle", "wake", "wakeall"} =>
              [ver |-> th[t].ver, life |-> th[t].life] \in issued

\* The threads that sleep on a butex are those that are queued on it.
QueueInv ==
    /\ IsInjective(waiters) /\ Range(waiters) = {t \in Threads : At(t, "asleep")}
    /\ IsInjective(joiners) /\ Range(joiners) = {t \in Threads : At(t, "joining")}

\* What a thread waits for was the contended_ver of the RPC of its id, which grows with
\* the range; a join is over when the version of its id is.
WaitInv ==
    /\ \A t \in Threads : th[t].pc \in {"wait", "asleep"} => th[t].ever_contended
    /\ \A t \in Threads :
          At(t, "wait") =>
              \/ th[t].expected_ver < first_ver
              \/ /\ has_version(th[t].ver)
                 /\ first_ver < th[t].expected_ver /\ th[t].expected_ver <= contended_ver
    /\ \A t \in Threads : At(t, "asleep") => has_version(th[t].ver) \/ first_ver = locked_ver
    /\ \A t \in Threads : At(t, "joined") => th[t].ver < first_ver

\* The sleepers of whom the butex told, and who will wake them, other than the holder.
Counted == Range(waiters) \ uncounted

Wakes(t) ==
    \/ th[t].pc \in {"wake", "shut", "wakeall"}
    \/ At(t, "lock") /\ th[t].ever_contended /\ has_version(th[t].ver)

WakeInv ==
    waiters # <<>> =>
       /\ Counted # {} => butex = contended_ver \/ \E t \in Threads : Wakes(t)
       /\ butex = unlockable_ver => \E t \in Threads : At(t, "shut")

BthreadIdInv ==
    /\ TypeOK /\ VersionInv /\ HolderInv /\ IssuedInv /\ QueueInv /\ WaitInv /\ WakeInv
    /\ ErrorsAreHandled

-----------------------------------------------------------------------------
(* Facts about the state that the actions share.                           *)

\* A list of members of T is a list over T.
LEMMA SeqRetype ==
    ASSUME NEW S, NEW T, NEW s \in Seq(S), Range(s) \subseteq T
    PROVE  s \in Seq(T)
<1>1. DOMAIN s = 1..Len(s) /\ Len(s) \in Nat
  OBVIOUS
<1>2. \A i \in 1..Len(s) : s[i] \in T
  BY <1>1 DEF Range
<1>3. s = [i \in 1..Len(s) |-> s[i]]
  OBVIOUS
<1> QED BY <1>1, <1>2, <1>3, SeqDef

\* The lists under either name of the set of their members.
LEMMA ToSetIsRange == ASSUME NEW s PROVE ToSet(s) = Range(s)
BY DEF ToSet, Range

\* Go changes the local variables of one thread.
LEMMA GoFacts ==
    ASSUME th \in [Threads -> Locals], NEW t \in Threads, NEW l \in Locals, Go(t, l)
    PROVE  /\ th' \in [Threads -> Locals] /\ th'[t] = l
           /\ \A u \in Threads : u # t => th'[u] = th[u]
BY DEF Go

\* The locals of a thread that is in no call.
LEMMA IdleLocals == Idle \in Locals
BY BoundsAreNat DEF Idle, Locals, Places

\* A thread moves on with the same locals.
LEMMA NewPlace ==
    ASSUME NEW x \in Locals, NEW p \in Places
    PROVE  /\ [x EXCEPT !.pc = p] \in Locals /\ [x EXCEPT !.pc = p].pc = p
           /\ [x EXCEPT !.pc = p].ver = x.ver /\ [x EXCEPT !.pc = p].life = x.life
BY DEF Locals

\* Nobody is in a call and the slot was never taken.
LEMMA InitInv == Init => BthreadIdInv
<1> SUFFICES ASSUME Init PROVE BthreadIdInv
  OBVIOUS
<1>1. th \in [Threads -> Locals] /\ \A t \in Threads : th[t].pc = "idle"
  BY IdleLocals DEF Init, Idle
<1>2. /\ waiters = <<>> /\ joiners = <<>> /\ Range(<<>>) = {} /\ IsInjective(<<>>)
      /\ uncounted = {}
  BY DEF Init, Range, IsInjective
<1>3. TypeOK
  <2>1. /\ waiters \in Seq({t \in Threads : At(t, "asleep")})
        /\ joiners \in Seq({t \in Threads : At(t, "joining")})
    BY <1>2
  <2>2. /\ life \in 0..MaxLives /\ calls \in 0..MaxCalls /\ pending_q \in 0..MaxCalls
        /\ butex = first_ver /\ first_ver \in Nat
        /\ locked_ver \in Nat /\ join_butex \in Nat /\ issued = {}
    BY BoundsAreNat DEF Init
  <2>3. live \in BOOLEAN
    BY Zenon DEF Init
  <2> QED BY <1>1, <1>2, <2>1, <2>2, <2>3 DEF TypeOK
<1>4. VersionInv /\ HolderInv /\ ErrorsAreHandled
  BY <1>1 DEF Init, VersionInv, HolderInv, Holders, At, ErrorsAreHandled
<1>5. IssuedInv /\ QueueInv /\ WaitInv /\ WakeInv
  BY <1>1, <1>2 DEF Init, IssuedInv, QueueInv, WaitInv, WakeInv, At, contended_ver
<1> QED BY <1>3, <1>4, <1>5 DEF BthreadIdInv

\* Widths and versions are natural numbers, and the versions are in order.
LEMMA Numbers ==
    ASSUME BthreadIdInv
    PROVE  /\ Widths \subseteq Nat \ {0}
           /\ first_ver \in Nat /\ locked_ver \in Nat /\ first_ver <= locked_ver
           /\ butex \in Nat /\ first_ver <= butex
           /\ th \in [Threads -> Locals]
           /\ \A t \in Threads : th[t].ver \in Nat
           /\ \A id \in issued : id.ver \in Nat /\ id.life \in 1..life
           /\ waiters \in Seq(Threads) /\ joiners \in Seq(Threads)
<1>1. /\ first_ver \in Nat /\ locked_ver \in Nat
      /\ butex \in {first_ver} \cup locked_ver..unlockable_ver
      /\ th \in [Threads -> Locals]
      /\ issued \subseteq [ver : Nat, life : 1..life]
  BY DEF BthreadIdInv, TypeOK
<1>2. Widths \subseteq Nat \ {0}
  BY BoundsAreNat DEF Widths
<1>3. first_ver <= locked_ver
  BY <1>1, <1>2 DEF BthreadIdInv, VersionInv
<1>4. \A t \in Threads : th[t].ver \in Nat
  BY <1>1 DEF Locals
<1>5. waiters \in Seq(Threads) /\ joiners \in Seq(Threads)
  <2>1. Range(waiters) \subseteq Threads /\ Range(joiners) \subseteq Threads
    BY DEF BthreadIdInv, QueueInv
  <2>2. /\ waiters \in Seq({t \in Threads : At(t, "asleep")})
        /\ joiners \in Seq({t \in Threads : At(t, "joining")})
    BY DEF BthreadIdInv, TypeOK
  <2> QED BY <2>1, <2>2, SeqRetype
<1>6. butex \in Nat /\ first_ver <= butex
  BY <1>1, <1>3 DEF unlockable_ver
<1> QED BY <1>1, <1>2, <1>3, <1>4, <1>5, <1>6

\* The lists keep their types while they hold the sleepers.
LEMMA QueuesTyped ==
    ASSUME waiters' \in Seq(Threads), joiners' \in Seq(Threads), QueueInv'
    PROVE  /\ waiters' \in Seq({t \in Threads : At(t, "asleep")'})
           /\ joiners' \in Seq({t \in Threads : At(t, "joining")'})
<1>1. /\ Range(waiters') = {t \in Threads : At(t, "asleep")'}
      /\ Range(joiners') = {t \in Threads : At(t, "joining")'}
  BY DEF QueueInv
<1> QED BY <1>1, SeqRetype

\* A step that puts no thread to sleep and wakes none leaves the lists alone.
LEMMA QueuesStay ==
    ASSUME BthreadIdInv, UNCHANGED <<waiters, joiners>>,
           \A u \in Threads : /\ th'[u].pc = "asleep" <=> th[u].pc = "asleep"
                              /\ th'[u].pc = "joining" <=> th[u].pc = "joining"
    PROVE  /\ QueueInv'
           /\ waiters' \in Seq({t \in Threads : At(t, "asleep")'})
           /\ joiners' \in Seq({t \in Threads : At(t, "joining")'})
<1>1. QueueInv'
  BY DEF BthreadIdInv, QueueInv, At
<1>2. waiters' \in Seq(Threads) /\ joiners' \in Seq(Threads)
  BY Numbers
<1> QED BY <1>1, <1>2, QueuesTyped

-----------------------------------------------------------------------------
(* The invariant is inductive: one lemma per action.                       *)

\* The slot is taken: its butex shows that it is free, and no id of it is valid yet.
LEMMA CreateKeeps == ASSUME BthreadIdInv, Create PROVE BthreadIdInv'
<1>1. /\ UNCHANGED <<first_ver, butex, join_butex, pending_q, waiters, joiners, th,
                   uncounted, calls>>
      /\ ~live /\ live' /\ life < MaxLives /\ life' = life + 1
      /\ locked_ver' = first_ver + 1
      /\ issued' = issued \cup {[ver |-> first_ver, life |-> life + 1]}
  BY DEF Create, Issue
<1>2. /\ locked_ver = first_ver /\ waiters = <<>> /\ butex = first_ver
      /\ \A t \in Threads : th[t].pc \notin {"hold", "shut", "wakeall"}
  BY <1>1 DEF BthreadIdInv, VersionInv, HolderInv, Holders, At
<1>3. \A t \in Threads : ~At(t, "asleep")
  BY <1>2 DEF BthreadIdInv, QueueInv, Range
<1>4. TypeOK'
  <2>1. live' \in BOOLEAN
    BY Zenon DEF Create
  <2>2. /\ waiters' \in Seq({t \in Threads : At(t, "asleep")'})
        /\ joiners' \in Seq({t \in Threads : At(t, "joining")'})
    BY <1>1, QueuesStay
  <2>3. life \in 0..MaxLives /\ life' \in 1..MaxLives
    BY <1>1, BoundsAreNat DEF BthreadIdInv, TypeOK
  <2>4. issued' \subseteq [ver : Nat, life : 1..life']
    <3>1. issued \subseteq [ver : Nat, life : 1..life] /\ first_ver \in Nat
      BY DEF BthreadIdInv, TypeOK
    <3>2. [ver : Nat, life : 1..life] \subseteq [ver : Nat, life : 1..life']
      BY <1>1, <2>3
    <3>3. [ver |-> first_ver, life |-> life + 1] \in [ver : Nat, life : 1..life']
      BY <1>1, <2>3, <3>1
    <3> QED BY <1>1, <3>1, <3>2, <3>3
  <2>5. butex' \in {first_ver'} \cup locked_ver'..unlockable_ver'
    BY <1>1, <1>2
  <2> QED BY <1>1, <2>1, <2>2, <2>3, <2>4, <2>5, Numbers DEF BthreadIdInv, TypeOK
<1>5. VersionInv'
  BY <1>1, <1>2 DEF BthreadIdInv, VersionInv, Widths
<1>6. HolderInv'
  BY <1>1, <1>2, Numbers DEF BthreadIdInv, HolderInv, Holders, At
<1>7. IssuedInv'
  <2>1. life \in Nat
    BY BoundsAreNat DEF BthreadIdInv, TypeOK
  <2>2. ASSUME NEW id \in issued'
        PROVE  /\ id.ver < locked_ver'
               /\ id.ver >= first_ver' => id.life = life'
               /\ id.ver < first_ver' => id.life < life' \/ first_ver' = locked_ver'
    <3>1. CASE id \in issued
      <4>1. id.ver < first_ver /\ id.life <= life /\ id.ver \in Nat /\ id.life \in Nat
        BY <1>2, <3>1, <2>1, Numbers DEF BthreadIdInv, IssuedInv
      <4> QED BY <1>1, <4>1, <2>1, Numbers
    <3>2. CASE id = [ver |-> first_ver, life |-> life + 1]
      BY <1>1, <3>2, Numbers
    <3> QED BY <1>1, <2>2, <3>1, <3>2
  <2> QED BY <1>1, <2>2 DEF BthreadIdInv, IssuedInv
<1>8. QueueInv'
  BY <1>1, QueuesStay
<1>9. WaitInv'
  BY <1>1, <1>2, <1>3, Numbers DEF BthreadIdInv, WaitInv, At, has_version, contended_ver
<1>10. WakeInv' /\ ErrorsAreHandled'
  BY <1>1, <1>2 DEF BthreadIdInv, WakeInv, ErrorsAreHandled
<1> QED BY <1>4, <1>5, <1>6, <1>7, <1>8, <1>9, <1>10 DEF BthreadIdInv

\* A thread goes on in a way that changes nothing but its local variables, and that
\* the parts of the invariant about it allow.
LEMMA LocalKeeps ==
    ASSUME BthreadIdInv, NEW t \in Threads, NEW l \in Locals, Go(t, l),
           UNCHANGED <<meta, waiters, joiners, history>>,
           calls' \in Nat, calls <= calls', calls' <= MaxCalls,
           th[t].pc \notin {"hold", "shut", "wakeall", "asleep", "joining"},
           l.pc \notin {"hold", "shut", "wakeall", "asleep", "joining", "wake", "wait"},
           l.pc # "idle" => [ver |-> l.ver, life |-> l.life] \in issued,
           l.pc = "joined" => l.ver < first_ver,
           Wakes(t) /\ waiters # <<>> /\ butex # contended_ver =>
              \E u \in Threads : (u # t /\ Wakes(u))
                  \/ (l.pc = "lock" /\ l.ever_contended /\ has_version(l.ver))
    PROVE  BthreadIdInv'
<1>1. /\ th' \in [Threads -> Locals] /\ th'[t] = l
      /\ \A u \in Threads : u # t => th'[u] = th[u]
  BY Numbers, GoFacts
<1>2. /\ UNCHANGED <<live, first_ver, locked_ver, butex, join_butex, pending_q>>
      /\ UNCHANGED <<waiters, joiners, life, issued, uncounted>>
  BY DEF meta, history
<1>3. /\ QueueInv'
      /\ waiters' \in Seq({u \in Threads : At(u, "asleep")'})
      /\ joiners' \in Seq({u \in Threads : At(u, "joining")'})
  BY <1>1, <1>2, QueuesStay
<1>4. TypeOK'
  BY <1>1, <1>2, <1>3, BoundsAreNat DEF BthreadIdInv, TypeOK, unlockable_ver
<1>5. VersionInv' /\ ErrorsAreHandled'
  BY <1>2, BoundsAreNat DEF BthreadIdInv, TypeOK, VersionInv, ErrorsAreHandled
<1>6. HolderInv'
  BY <1>1, <1>2 DEF BthreadIdInv, HolderInv, Holders, At, has_version, unlockable_ver
<1>7. IssuedInv'
  BY <1>1, <1>2 DEF BthreadIdInv, IssuedInv
<1>8. WaitInv'
  BY <1>1, <1>2 DEF BthreadIdInv, WaitInv, At, has_version, contended_ver
<1>9. WakeInv'
  <2> SUFFICES ASSUME waiters # <<>>
               PROVE  /\ Counted # {} => butex = contended_ver \/ \E u \in Threads : Wakes(u)'
                      /\ butex = unlockable_ver => \E u \in Threads : At(u, "shut")'
    BY <1>2 DEF WakeInv, Counted, contended_ver, unlockable_ver
  <2>1. butex = unlockable_ver => \E u \in Threads : At(u, "shut")'
    BY <1>1 DEF BthreadIdInv, WakeInv, At
  <2>2. ASSUME Counted # {}, butex # contended_ver PROVE \E u \in Threads : Wakes(u)'
    <3>1. \/ \E u \in Threads : u # t /\ Wakes(u)
          \/ l.pc = "lock" /\ l.ever_contended /\ has_version(l.ver)
      BY <2>2 DEF BthreadIdInv, WakeInv
    <3>2. CASE \E u \in Threads : u # t /\ Wakes(u)
      BY <1>1, <1>2, <3>2 DEF Wakes, At, has_version
    <3>3. CASE l.pc = "lock" /\ l.ever_contended /\ has_version(l.ver)
      BY <1>1, <1>2, <3>3 DEF Wakes, At, has_version
    <3> QED BY <3>1, <3>2, <3>3
  <2> QED BY <2>1, <2>2
<1> QED BY <1>3, <1>4, <1>5, <1>6, <1>7, <1>8, <1>9 DEF BthreadIdInv

\* A call starts with an id that was given out.
LEMMA CallKeeps ==
    ASSUME BthreadIdInv, NEW t \in Threads, NEW r \in Ranges \cup {0},
           NEW p \in {"lock", "join"}, Call(t, p, r)
    PROVE  BthreadIdInv'
<1>1. PICK id \in issued :
         Go(t, [Idle EXCEPT !.pc = p, !.ver = id.ver, !.life = id.life, !.range = r])
  BY DEF Call
<1> DEFINE l == [Idle EXCEPT !.pc = p, !.ver = id.ver, !.life = id.life, !.range = r]
<1>2. id \in [ver : Nat, life : 1..life] /\ life \in 0..MaxLives
  BY DEF BthreadIdInv, TypeOK
<1>3. /\ l \in Locals /\ l.pc = p /\ l.ver = id.ver /\ l.life = id.life
      /\ [ver |-> l.ver, life |-> l.life] = id
  <2>1. id.ver \in Nat /\ id.life \in 0..MaxLives /\ id = [ver |-> id.ver, life |-> id.life]
    BY <1>2, BoundsAreNat
  <2>2. p \in Places /\ r \in Ranges \cup {0}
    BY DEF Places
  <2>3. l \in Locals /\ l.pc = p /\ l.ver = id.ver /\ l.life = id.life
    BY <2>1, <2>2 DEF Idle, Locals
  <2> QED BY <2>1, <2>3
<1>4. calls' \in Nat /\ calls <= calls' /\ calls' <= MaxCalls
  <2>1. calls \in 0..MaxCalls /\ calls < MaxCalls /\ calls' = calls + 1
    BY DEF Call, BthreadIdInv, TypeOK
  <2> QED BY <2>1, BoundsAreNat
<1>5. th[t].pc = "idle" /\ ~Wakes(t)
  BY DEF Call, At, Wakes
<1>6. UNCHANGED <<meta, waiters, joiners, history>>
  BY DEF Call
<1> HIDE DEF l
<1> QED BY <1>1, <1>3, <1>4, <1>5, <1>6, LocalKeeps DEF l

\* The steps of a thread that leave the shared state alone keep calls as it is.
LEMMA SameCalls ==
    ASSUME BthreadIdInv, UNCHANGED calls
    PROVE  calls' \in Nat /\ calls <= calls' /\ calls' <= MaxCalls
BY BoundsAreNat DEF BthreadIdInv, TypeOK

\* The lock is refused: if the thread was to wake others, AboutToDestroy does it.
LEMMA RefuseKeeps ==
    ASSUME BthreadIdInv, NEW t \in Threads, At(t, "lock"),
           ~has_version(th[t].ver) \/ butex = unlockable_ver,
           Go(t, Idle), UNCHANGED <<meta, waiters, joiners, history, calls>>
    PROVE  BthreadIdInv'
<1>1. Wakes(t) /\ waiters # <<>> => \E u \in Threads : u # t /\ Wakes(u)
  BY DEF BthreadIdInv, WakeInv, Wakes, At
<1>2. Idle.pc = "idle" /\ th[t].pc = "lock"
  BY DEF Idle, At
<1>3. calls' \in Nat /\ calls <= calls' /\ calls' <= MaxCalls
  BY SameCalls
<1> QED BY <1>1, <1>2, <1>3, IdleLocals, LocalKeeps

\* What the holder gets: the range is extended and the ids of it are given out.
LEMMA TakeKeeps ==
    ASSUME BthreadIdInv, NEW t \in Threads, At(t, "lock"), has_version(th[t].ver),
           Take(t), UNCHANGED <<waiters, joiners, life, uncounted, calls>>
    PROVE  BthreadIdInv'
<1> DEFINE l == [Idle EXCEPT !.pc = "hold", !.ver = th[t].ver, !.life = th[t].life]
<1>1. th[t] \in Locals
  BY Numbers
<1>2. /\ l \in Locals /\ l.pc = "hold" /\ l.ver = th[t].ver /\ l.life = th[t].life
  BY <1>1, BoundsAreNat DEF Idle, Locals, Places
<1>3. /\ th' \in [Threads -> Locals] /\ th'[t] = l
      /\ \A u \in Threads : u # t => th'[u] = th[u]
  <2>1. Go(t, l)
    BY DEF Take
  <2> HIDE DEF l
  <2> QED BY <1>2, <2>1, Numbers, GoFacts
<1> HIDE DEF l
<1>4. PICK r \in Nat : r = th[t].range /\ (r = 0 \/ r \in Widths)
  <2>1. th[t].range \in Ranges \cup {0}
    BY <1>1 DEF Locals
  <2> QED BY <2>1, BoundsAreNat DEF Widths
<1>5. PICK m \in Nat, b \in Nat :
         /\ locked_ver' = m /\ butex' = b
         /\ first_ver < locked_ver /\ locked_ver <= m
         /\ m = locked_ver \/ (r \in Widths /\ m = first_ver + r)
         /\ b = m \/ b = m + 1
         /\ th[t].ever_contended => b = m + 1
  <2>1. /\ first_ver \in Nat /\ locked_ver \in Nat /\ th[t].ver \in Nat
        /\ first_ver <= th[t].ver /\ th[t].ver < locked_ver
    BY Numbers DEF has_version
  <2> DEFINE m == IF first_ver + r <= locked_ver THEN locked_ver ELSE first_ver + r
  <2>2. /\ first_ver < locked_ver /\ locked_ver <= m /\ m \in Nat
        /\ m = locked_ver \/ (r # 0 /\ m = first_ver + r)
    BY <2>1
  <2>3. locked_ver' = m
    BY <1>4 DEF Take
  <2>4. butex' = IF th[t].ever_contended THEN m + 1 ELSE m
    BY <2>3 DEF Take
  <2> HIDE DEF m
  <2>5. m + 1 \in Nat
    BY <2>2
  <2>6. r # 0 => r \in Widths
    BY <1>4
  <2>7. CASE th[t].ever_contended
    BY <2>2, <2>3, <2>4, <2>5, <2>6, <2>7
  <2>8. CASE ~th[t].ever_contended
    BY <2>2, <2>3, <2>4, <2>5, <2>6, <2>8
  <2> QED BY <2>7, <2>8
<1>6. /\ butex = first_ver /\ UNCHANGED <<live, first_ver, join_butex, pending_q>>
      /\ issued' = issued \cup {[ver |-> first_ver, life |-> life], [ver |-> m - 1, life |-> life]}
      /\ first_ver \in Nat /\ locked_ver \in Nat
      /\ first_ver <= th[t].ver /\ th[t].ver < m /\ b # first_ver /\ first_ver # m
  <2>1. /\ first_ver \in Nat /\ locked_ver \in Nat /\ th[t].ver \in Nat
        /\ first_ver <= th[t].ver /\ th[t].ver < locked_ver
    BY Numbers DEF has_version
  <2>2. /\ first_ver <= th[t].ver /\ th[t].ver < m /\ b # first_ver /\ first_ver # m
    BY <1>5, <2>1
  <2> QED BY <1>5, <2>1, <2>2 DEF Take, Issue
<1>7. live /\ \A u \in Threads : th[u].pc \notin {"hold", "shut", "wakeall"}
  BY <1>5, <1>6 DEF BthreadIdInv, VersionInv, HolderInv, Holders, At
<1>8. th[t].pc = "lock" /\ [ver |-> th[t].ver, life |-> th[t].life] \in issued
  BY DEF At, BthreadIdInv, IssuedInv
<1>9. /\ QueueInv'
      /\ waiters' \in Seq({u \in Threads : At(u, "asleep")'})
      /\ joiners' \in Seq({u \in Threads : At(u, "joining")'})
  BY <1>2, <1>3, <1>8, QueuesStay
<1>10. TypeOK'
  <2>1. life \in 1..MaxLives /\ issued \subseteq [ver : Nat, life : 1..life]
    BY <1>8, BoundsAreNat DEF BthreadIdInv, TypeOK
  <2>2. first_ver \in Nat /\ m - 1 \in Nat
    BY <1>5, <1>6
  <2>3. issued' \subseteq [ver : Nat, life : 1..life']
    BY <1>6, <2>1, <2>2
  <2>4. butex' \in {first_ver'} \cup locked_ver'..unlockable_ver'
    <3>1. b \in m..(m + 2)
      BY <1>5
    <3> QED BY <1>5, <3>1 DEF unlockable_ver
  <2> QED BY <1>3, <1>5, <1>6, <1>9, <2>3, <2>4 DEF BthreadIdInv, TypeOK
<1>11. VersionInv' /\ ErrorsAreHandled'
  BY <1>5, <1>6, <1>7 DEF BthreadIdInv, VersionInv, ErrorsAreHandled
<1>12. HolderInv'
  BY <1>2, <1>3, <1>5, <1>6, <1>7 DEF HolderInv, Holders, At, has_version
<1>13. IssuedInv'
  <2>1. ASSUME NEW id \in issued'
        PROVE  /\ id.ver < m
               /\ id.ver >= first_ver => id.life = life
               /\ id.ver < first_ver => id.life < life
    <3>1. CASE id \in issued
      <4>1. /\ id.ver < locked_ver
            /\ id.ver >= first_ver => id.life = life
            /\ id.ver < first_ver => id.life < life \/ first_ver = locked_ver
        BY <3>1 DEF BthreadIdInv, IssuedInv
      <4>2. id.ver \in Nat
        BY <3>1, Numbers
      <4> QED BY <1>5, <1>6, <4>1, <4>2
    <3>2. CASE id \notin issued
      <4>1. id = [ver |-> first_ver, life |-> life] \/ id = [ver |-> m - 1, life |-> life]
        BY <1>6, <2>1, <3>2
      <4>2. id.life = life /\ (id.ver = first_ver \/ id.ver = m - 1)
        BY <4>1
      <4> QED BY <1>5, <1>6, <4>2
    <3> QED BY <3>1, <3>2
  <2>2. ASSUME NEW u \in Threads, th'[u].pc \notin {"idle", "wake", "wakeall"}
        PROVE  [ver |-> th'[u].ver, life |-> th'[u].life] \in issued'
    BY <1>2, <1>3, <1>6, <1>8, <2>2 DEF BthreadIdInv, IssuedInv
  <2> QED BY <1>5, <1>6, <2>1, <2>2 DEF IssuedInv
<1>14. \A u \in Threads : u # t =>
          /\ has_version(th[u].ver) => has_version(th[u].ver)'
          /\ th'[u] = th[u]
  <2> SUFFICES ASSUME NEW u \in Threads, u # t, has_version(th[u].ver)
               PROVE  has_version(th[u].ver)'
    BY <1>3
  <2>1. th[u].ver \in Nat
    BY Numbers
  <2>2. first_ver <= th[u].ver /\ th[u].ver < m
    BY <1>5, <1>6, <2>1 DEF has_version
  <2> QED BY <1>3, <1>5, <1>6, <2>2 DEF has_version
<1>15. WaitInv'
  <2> SUFFICES ASSUME NEW u \in Threads
               PROVE  /\ th'[u].pc \in {"wait", "asleep"} => th'[u].ever_contended
                      /\ At(u, "wait")' =>
                            \/ th'[u].expected_ver < first_ver
                            \/ /\ has_version(th[u].ver)'
                               /\ first_ver < th'[u].expected_ver
                               /\ th'[u].expected_ver <= m + 1
                      /\ At(u, "asleep")' => has_version(th[u].ver)' \/ first_ver = m
                      /\ At(u, "joined")' => th'[u].ver < first_ver
    BY <1>5, <1>6 DEF WaitInv, contended_ver
  <2>1. CASE u = t
    BY <1>2, <1>3, <2>1 DEF At
  <2>2. CASE u # t
    <3>1. th[u].expected_ver \in Nat /\ first_ver \in Nat /\ locked_ver \in Nat
      BY <1>6, Numbers DEF Locals
    <3>2. /\ th[u].pc \in {"wait", "asleep"} => th[u].ever_contended
          /\ At(u, "asleep") => has_version(th[u].ver)
          /\ At(u, "joined") => th[u].ver < first_ver
      BY <1>5, <1>6 DEF BthreadIdInv, WaitInv, contended_ver
    <3>3. At(u, "wait") =>
             \/ th[u].expected_ver < first_ver
             \/ /\ has_version(th[u].ver)
                /\ first_ver < th[u].expected_ver /\ th[u].expected_ver <= m + 1
      <4>1. CASE th[u].expected_ver <= locked_ver + 1
        BY <1>5, <3>1, <4>1 DEF BthreadIdInv, WaitInv, contended_ver
      <4>2. CASE ~(th[u].expected_ver <= locked_ver + 1)
        BY <4>2 DEF BthreadIdInv, WaitInv, contended_ver
      <4> QED BY <4>1, <4>2
    <3> QED BY <1>14, <2>2, <3>2, <3>3 DEF At
  <2> QED BY <2>1, <2>2
<1>16. WakeInv'
  <2>1. b # m + 2
    BY <1>5
  <2> SUFFICES ASSUME waiters # <<>>
               PROVE  Counted # {} => b = m + 1 \/ \E u \in Threads : Wakes(u)'
    BY <1>5, <2>1 DEF WakeInv, Counted, contended_ver, unlockable_ver
  <2> SUFFICES ASSUME Counted # {} PROVE b = m + 1 \/ \E u \in Threads : Wakes(u)'
    OBVIOUS
  <2>2. CASE th[t].ever_contended
    BY <1>5, <2>2
  <2>3. CASE ~th[t].ever_contended
    <3>1. PICK u \in Threads : Wakes(u)
      BY <1>5, <1>6 DEF BthreadIdInv, WakeInv, contended_ver
    <3>2. u # t
      BY <1>8, <2>3, <3>1 DEF Wakes, At
    <3>3. Wakes(u)'
      BY <1>14, <3>1, <3>2 DEF Wakes, At
    <3> QED BY <3>3
  <2> QED BY <2>2, <2>3
<1> QED BY <1>9, <1>10, <1>11, <1>12, <1>13, <1>15, <1>16 DEF BthreadIdInv

\* A thread that does not get the lock tells so to the holder before it waits.
LEMMA ContendKeeps ==
    ASSUME BthreadIdInv, NEW t \in Threads, At(t, "lock"), has_version(th[t].ver),
           Contend(t), UNCHANGED <<waiters, joiners, life, uncounted, calls>>
    PROVE  BthreadIdInv'
<1> DEFINE l == [th[t] EXCEPT !.pc = "wait", !.ever_contended = TRUE,
                              !.expected_ver = contended_ver]
<1>1. /\ butex \notin {first_ver, unlockable_ver} /\ butex' = locked_ver + 1
      /\ UNCHANGED <<live, first_ver, locked_ver, join_butex, pending_q, issued>>
      /\ UNCHANGED <<waiters, joiners, life, uncounted, calls>>
  BY DEF Contend, contended_ver
<1>2. /\ l \in Locals /\ l.pc = "wait" /\ l.ever_contended /\ l.expected_ver = locked_ver + 1
      /\ l.ver = th[t].ver /\ l.life = th[t].life
  <2>1. th[t] \in Locals /\ locked_ver + 1 \in Nat
    BY Numbers
  <2> QED BY <2>1 DEF contended_ver, Locals, Places
<1>3. /\ th' \in [Threads -> Locals] /\ th'[t] = l
      /\ \A u \in Threads : u # t => th'[u] = th[u]
  <2>1. Go(t, l)
    BY DEF Contend
  <2> HIDE DEF l
  <2> QED BY <1>2, <2>1, Numbers, GoFacts
<1> HIDE DEF l
<1>4. /\ th[t].pc = "lock" /\ [ver |-> th[t].ver, life |-> th[t].life] \in issued
      /\ \A u \in Threads : th[u].pc # "shut"
  BY <1>1 DEF At, BthreadIdInv, IssuedInv, HolderInv
<1>5. /\ QueueInv'
      /\ waiters' \in Seq({u \in Threads : At(u, "asleep")'})
      /\ joiners' \in Seq({u \in Threads : At(u, "joining")'})
  BY <1>1, <1>2, <1>3, <1>4, QueuesStay
<1>6. TypeOK'
  BY <1>1, <1>3, <1>5, Numbers DEF BthreadIdInv, TypeOK, unlockable_ver
<1>7. butex' # first_ver'
  BY <1>1, Numbers
<1>8. VersionInv' /\ ErrorsAreHandled'
  BY <1>1, <1>7 DEF BthreadIdInv, VersionInv, ErrorsAreHandled
<1>9. HolderInv'
  BY <1>1, <1>2, <1>3, <1>4, <1>7 DEF BthreadIdInv, HolderInv, Holders, At, has_version
<1>10. IssuedInv'
  BY <1>1, <1>2, <1>3, <1>4 DEF BthreadIdInv, IssuedInv
<1>11. WaitInv'
  <2>1. /\ first_ver \in Nat /\ locked_ver \in Nat /\ th[t].ver \in Nat
        /\ first_ver <= th[t].ver /\ th[t].ver < locked_ver
    BY Numbers DEF has_version
  <2>2. first_ver < l.expected_ver /\ l.expected_ver <= locked_ver + 1
    BY <1>2, <2>1
  <2> QED BY <1>1, <1>2, <1>3, <2>2 DEF BthreadIdInv, WaitInv, At, has_version, contended_ver
<1>12. WakeInv'
  BY <1>1, Numbers DEF WakeInv, contended_ver, unlockable_ver
<1> QED BY <1>5, <1>6, <1>8, <1>9, <1>10, <1>11, <1>12 DEF BthreadIdInv

\* One turn of the loop of bthread_id_lock.
LEMMA LockKeeps ==
    ASSUME BthreadIdInv, NEW t \in Threads, Lock(t)
    PROVE  BthreadIdInv'
<1>1. At(t, "lock") /\ UNCHANGED <<waiters, joiners, life, uncounted, calls>>
  BY DEF Lock
<1>2. CASE has_version(th[t].ver) /\ Take(t)
  BY <1>1, <1>2, TakeKeeps
<1>3. CASE has_version(th[t].ver) /\ Contend(t)
  BY <1>1, <1>3, ContendKeeps
<1>4. CASE /\ ~has_version(th[t].ver) \/ butex = unlockable_ver
           /\ Go(t, Idle) /\ UNCHANGED <<meta, issued>>
  <2>1. UNCHANGED <<meta, waiters, joiners, history, calls>>
    BY <1>1, <1>4 DEF history
  <2> QED BY <1>1, <1>4, <2>1, RefuseKeeps
<1> QED BY <1>2, <1>3, <1>4 DEF Lock

\* Who goes to sleep on the butex found the contended_ver of now, or the locked_ver:
\* then it is not counted.
LEMMA WaitKeeps ==
    ASSUME BthreadIdInv, NEW t \in Threads, Wait(t)
    PROVE  BthreadIdInv'
<1>1. /\ th[t].pc = "wait" /\ th[t].ever_contended /\ th[t] \in Locals
      /\ [ver |-> th[t].ver, life |-> th[t].life] \in issued
  BY Numbers DEF Wait, At, BthreadIdInv, WaitInv, IssuedInv, contended_ver
<1>2. CASE butex # th[t].expected_ver
  <2> DEFINE l == [th[t] EXCEPT !.pc = "lock", !.expected_ver = 0]
  <2>1. Go(t, l) /\ UNCHANGED <<meta, waiters, joiners, history, calls>>
    BY <1>2 DEF Wait, history
  <2>2. /\ l \in Locals /\ l.pc = "lock" /\ l.ever_contended
        /\ l.ver = th[t].ver /\ l.life = th[t].life
    BY <1>1 DEF Locals, Places
  <2>3. ~Wakes(t)
    BY <1>1 DEF Wakes, At
  <2>4. calls' \in Nat /\ calls <= calls' /\ calls' <= MaxCalls
    BY <2>1, SameCalls
  <2> HIDE DEF l
  <2> QED BY <1>1, <2>1, <2>2, <2>3, <2>4, LocalKeeps
<1>3. CASE butex = th[t].expected_ver
  <2> DEFINE l == To(t, "asleep")
  <2>1. /\ waiters' = Append(waiters, t) /\ Go(t, l)
        /\ UNCHANGED <<live, first_ver, locked_ver, butex, join_butex, pending_q>>
        /\ UNCHANGED <<joiners, life, issued, calls>>
        /\ uncounted' = IF butex = locked_ver THEN uncounted \cup {t} ELSE uncounted \ {t}
    BY <1>3 DEF Wait, meta
  <2>2. /\ l \in Locals /\ l.pc = "asleep" /\ l.ever_contended
        /\ l.ver = th[t].ver /\ l.life = th[t].life
    BY <1>1 DEF To, Locals, Places
  <2> HIDE DEF l
  <2>3. /\ th' \in [Threads -> Locals] /\ th'[t] = l
        /\ \A u \in Threads : u # t => th'[u] = th[u]
    BY <2>1, <2>2, Numbers, GoFacts
  <2>4. has_version(th[t].ver) /\ (butex = locked_ver \/ butex = locked_ver + 1)
    <3>1. /\ first_ver \in Nat /\ locked_ver \in Nat /\ butex \in Nat /\ first_ver <= butex
          /\ first_ver <= locked_ver
      BY Numbers
    <3>2. has_version(th[t].ver) /\ first_ver < butex /\ butex <= locked_ver + 1
      BY <1>1, <1>3, <3>1 DEF BthreadIdInv, WaitInv, At, contended_ver
    <3>3. butex = first_ver \/ butex \in locked_ver..locked_ver + 2
      BY DEF BthreadIdInv, TypeOK, unlockable_ver
    <3> QED BY <3>1, <3>2, <3>3
  <2>5. /\ waiters \in Seq(Threads) /\ joiners \in Seq(Threads)
        /\ IsInjective(waiters) /\ t \notin Range(waiters)
    BY <1>1, Numbers DEF BthreadIdInv, QueueInv, At
  <2>6. /\ waiters' \in Seq(Threads) /\ IsInjective(waiters')
        /\ Range(waiters') = Range(waiters) \cup {t}
    BY <2>1, <2>5, AppendRange
  <2>7. QueueInv'
    BY <1>1, <2>1, <2>2, <2>3, <2>6 DEF BthreadIdInv, QueueInv, At
  <2>8. /\ waiters' \in Seq({u \in Threads : At(u, "asleep")'})
        /\ joiners' \in Seq({u \in Threads : At(u, "joining")'})
    BY <2>1, <2>5, <2>6, <2>7, QueuesTyped
  <2>9. TypeOK'
    <3>1. uncounted' \subseteq Threads
      BY <2>1 DEF BthreadIdInv, TypeOK
    <3> QED BY <2>1, <2>3, <2>8, <3>1 DEF BthreadIdInv, TypeOK, unlockable_ver
  <2>10. HolderInv' /\ IssuedInv'
    BY <1>1, <2>1, <2>2, <2>3
       DEF BthreadIdInv, HolderInv, IssuedInv, Holders, At, has_version, unlockable_ver
  <2>11. live
    BY <2>4, Numbers DEF BthreadIdInv, VersionInv, has_version
  <2>12. VersionInv' /\ ErrorsAreHandled'
    BY <2>1, <2>11 DEF BthreadIdInv, VersionInv, ErrorsAreHandled
  <2>13. WaitInv'
    BY <2>1, <2>2, <2>3, <2>4 DEF BthreadIdInv, WaitInv, At, has_version, contended_ver
  <2>14. WakeInv'
    <3>1. butex' # unlockable_ver'
      BY <2>1, <2>4, Numbers DEF unlockable_ver
    <3>2. CASE butex = locked_ver + 1
      BY <2>1, <3>1, <3>2 DEF WakeInv, contended_ver
    <3>3. CASE butex = locked_ver
      <4>1. Counted' \subseteq Counted
        BY <2>1, <2>6, <3>3 DEF Counted
      <4>2. Counted # {} => waiters # <<>>
        BY SmallRange DEF Counted
      <4>3. Counted # {} => \E u \in Threads : Wakes(u)
        BY <3>3, <4>2, Numbers DEF BthreadIdInv, WakeInv, contended_ver
      <4>4. \A u \in Threads : Wakes(u) => u # t
        BY <1>1 DEF Wakes, At
      <4>5. \A u \in Threads : Wakes(u) => Wakes(u)'
        BY <2>1, <2>3, <4>4 DEF Wakes, At, has_version
      <4> QED BY <3>1, <4>1, <4>3, <4>5 DEF WakeInv
    <3> QED BY <2>4, <3>2, <3>3
  <2> QED BY <2>7, <2>9, <2>10, <2>12, <2>13, <2>14 DEF BthreadIdInv
<1> QED BY <1>2, <1>3

\* An interrupted sleeper goes on with the loop, as the one to wake the others.
LEMMA InterruptKeeps ==
    ASSUME BthreadIdInv, NEW t \in Threads, Interrupt(t)
    PROVE  BthreadIdInv'
<1>1. /\ UNCHANGED <<live, first_ver, locked_ver, butex, join_butex, pending_q>>
      /\ UNCHANGED <<life, issued, uncounted, calls>>
  BY DEF Interrupt, meta, history
<1>2. waiters \in Seq(Threads) /\ joiners \in Seq(Threads) /\ th[t] \in Locals
  BY Numbers
<1>3. PICK p \in {"lock", "join"} :
        /\ Go(t, To(t, p))
        /\ p = "lock" => /\ At(t, "asleep") /\ UNCHANGED joiners
                         /\ waiters' = RemoveFirst(waiters, t)
        /\ p = "join" => /\ At(t, "joining") /\ UNCHANGED waiters
                         /\ joiners' = RemoveFirst(joiners, t)
  BY DEF Interrupt
<1> DEFINE l == To(t, p)
<1>4. l \in Locals /\ l.pc = p /\ l.ver = th[t].ver /\ l.life = th[t].life
  BY <1>2 DEF To, Locals, Places
<1>5. /\ th' \in [Threads -> Locals] /\ th'[t] = l
      /\ \A u \in Threads : u # t => th'[u] = th[u]
  BY <1>3, <1>4, Numbers, GoFacts
<1>6. /\ [ver |-> th[t].ver, life |-> th[t].life] \in issued
      /\ th[t].pc \in {"asleep", "joining"}
  BY <1>3 DEF BthreadIdInv, IssuedInv, At
<1> HIDE DEF l
<1>7. /\ waiters' \in Seq(Threads) /\ joiners' \in Seq(Threads) /\ QueueInv'
      /\ Range(waiters') \subseteq Range(waiters)
  <2>1. CASE p = "lock"
    <3>1. t \in Range(waiters)
      BY <1>3, <2>1 DEF BthreadIdInv, QueueInv
    <3>2. /\ waiters' \in Seq(Threads) /\ IsInjective(waiters')
          /\ Range(waiters') = Range(waiters) \ {t}
      BY <1>2, <1>3, <2>1, <3>1, RemoveFirstRange DEF BthreadIdInv, QueueInv
    <3> QED BY <1>2, <1>3, <1>4, <1>5, <2>1, <3>2 DEF BthreadIdInv, QueueInv, At
  <2>2. CASE p = "join"
    <3>1. t \in Range(joiners)
      BY <1>3, <2>2 DEF BthreadIdInv, QueueInv
    <3>2. /\ joiners' \in Seq(Threads) /\ IsInjective(joiners')
          /\ Range(joiners') = Range(joiners) \ {t}
      BY <1>2, <1>3, <2>2, <3>1, RemoveFirstRange DEF BthreadIdInv, QueueInv
    <3> QED BY <1>2, <1>3, <1>4, <1>5, <2>2, <3>2 DEF BthreadIdInv, QueueInv, At
  <2> QED BY <2>1, <2>2
<1>8. TypeOK'
  <2>1. /\ waiters' \in Seq({u \in Threads : At(u, "asleep")'})
        /\ joiners' \in Seq({u \in Threads : At(u, "joining")'})
    BY <1>7, QueuesTyped
  <2> QED BY <1>1, <1>5, <2>1 DEF BthreadIdInv, TypeOK, unlockable_ver
<1>9. HolderInv' /\ IssuedInv'
  BY <1>1, <1>4, <1>5, <1>6
     DEF BthreadIdInv, HolderInv, IssuedInv, Holders, At, has_version, unlockable_ver
<1>10. waiters' # <<>> => waiters # <<>>
  <2>1. CASE waiters = <<>>
    <3>1. p = "join"
      BY <1>3, <2>1 DEF BthreadIdInv, QueueInv, Range
    <3> QED BY <1>3, <3>1
  <2> QED BY <2>1
<1>11. VersionInv' /\ ErrorsAreHandled'
  BY <1>1, <1>10 DEF BthreadIdInv, VersionInv, ErrorsAreHandled
<1>12. WaitInv'
  BY <1>1, <1>4, <1>5 DEF BthreadIdInv, WaitInv, At, has_version, contended_ver
<1>13. WakeInv'
  <2>1. \A u \in Threads : /\ Wakes(u) => Wakes(u)'
                           /\ At(u, "shut") => At(u, "shut")'
    BY <1>1, <1>5, <1>6 DEF Wakes, At, has_version
  <2>2. Counted' \subseteq Counted
    BY <1>1, <1>7 DEF Counted
  <2> QED BY <1>1, <1>10, <2>1, <2>2 DEF BthreadIdInv, WakeInv, contended_ver, unlockable_ver
<1> QED BY <1>7, <1>8, <1>9, <1>11, <1>12, <1>13 DEF BthreadIdInv

\* The lock is free again after the pending errors were handled; if a waiter
\* announced itself, the thread wakes it.
LEMMA UnlockKeeps ==
    ASSUME BthreadIdInv, NEW t \in Threads, Unlock(t)
    PROVE  BthreadIdInv'
<1>1. /\ UNCHANGED <<live, first_ver, locked_ver, join_butex>>
      /\ UNCHANGED <<waiters, joiners, life, issued, uncounted, calls>>
      /\ th[t].pc = "hold" /\ pending_q \in Nat
  BY BoundsAreNat DEF Unlock, history, At, BthreadIdInv, TypeOK
<1>2. CASE pending_q > 0
  <2>1. pending_q' = pending_q - 1 /\ UNCHANGED <<butex, th>>
    BY <1>2 DEF Unlock
  <2>2. pending_q - 1 \in Nat /\ pending_q - 1 <= calls /\ pending_q - 1 <= MaxCalls
    BY <1>1, <1>2, BoundsAreNat DEF BthreadIdInv, TypeOK, VersionInv
  <2>3. butex # first_ver
    BY <1>1 DEF BthreadIdInv, HolderInv, Holders
  <2>4. /\ QueueInv' /\ waiters' \in Seq({u \in Threads : At(u, "asleep")'})
        /\ joiners' \in Seq({u \in Threads : At(u, "joining")'})
    BY <1>1, <2>1, QueuesStay
  <2>5. TypeOK'
    BY <1>1, <2>1, <2>2, <2>4, BoundsAreNat DEF BthreadIdInv, TypeOK, unlockable_ver
  <2>6. VersionInv' /\ ErrorsAreHandled'
    BY <1>1, <2>1, <2>2, <2>3 DEF BthreadIdInv, VersionInv, ErrorsAreHandled
  <2>7. HolderInv' /\ IssuedInv'
    BY <1>1, <2>1
       DEF BthreadIdInv, HolderInv, IssuedInv, Holders, At, has_version, unlockable_ver
  <2>8. WaitInv' /\ WakeInv'
    BY <1>1, <2>1 
       DEF BthreadIdInv, WaitInv, WakeInv, Counted, Wakes, At, has_version, contended_ver,
           unlockable_ver
  <2> QED BY <2>4, <2>5, <2>6, <2>7, <2>8 DEF BthreadIdInv
<1>3. CASE ~(pending_q > 0)
  <2>1. /\ butex' = first_ver /\ pending_q = 0 /\ UNCHANGED pending_q
        /\ butex # unlockable_ver
    BY <1>1, <1>3 DEF Unlock
  <2> DEFINE l == IF butex = contended_ver THEN [Idle EXCEPT !.pc = "wake"] ELSE Idle
  <2>2. /\ l \in Locals /\ l.pc \in {"idle", "wake"}
        /\ butex = contended_ver => l.pc = "wake"
    <3>1. "wake" \in Places
      BY DEF Places
    <3>3. [Idle EXCEPT !.pc = "wake"] \in Locals /\ [Idle EXCEPT !.pc = "wake"].pc = "wake"
      BY <3>1, IdleLocals, NewPlace
    <3>2. Idle.pc = "idle"
      BY DEF Idle
    <3> QED BY <3>2, <3>3, IdleLocals
  <2>3. Go(t, l)
    BY <1>3 DEF Unlock
  <2> HIDE DEF l
  <2>4. /\ th' \in [Threads -> Locals] /\ th'[t] = l
        /\ \A u \in Threads : u # t => th'[u] = th[u]
    BY <2>2, <2>3, Numbers, GoFacts
  <2>5. live /\ first_ver < locked_ver /\ first_ver \in Nat /\ locked_ver \in Nat
    BY <1>1, Numbers DEF BthreadIdInv, HolderInv, Holders, has_version
  <2>6. \A u \in Threads : th'[u].pc \notin {"hold", "shut", "wakeall"}
    BY <1>1, <2>2, <2>4 DEF BthreadIdInv, HolderInv
  <2>7. /\ QueueInv' /\ waiters' \in Seq({u \in Threads : At(u, "asleep")'})
        /\ joiners' \in Seq({u \in Threads : At(u, "joining")'})
    BY <1>1, <2>2, <2>4, QueuesStay
  <2>8. TypeOK'
    BY <1>1, <2>1, <2>4, <2>7 DEF BthreadIdInv, TypeOK
  <2>9. VersionInv' /\ ErrorsAreHandled'
    BY <1>1, <2>1 DEF BthreadIdInv, VersionInv, ErrorsAreHandled
  <2>10. HolderInv'
    BY <1>1, <2>1, <2>5, <2>6 DEF HolderInv, Holders, At
  <2>11. IssuedInv'
    BY <1>1, <2>2, <2>4 DEF BthreadIdInv, IssuedInv
  <2>12. WaitInv'
    BY <1>1, <2>2, <2>4 DEF BthreadIdInv, WaitInv, At, has_version, contended_ver
  <2>13. WakeInv'
    <3> SUFFICES ASSUME waiters # <<>>, Counted # {} PROVE \E u \in Threads : Wakes(u)'
      BY <1>1, <2>1, <2>5 DEF WakeInv, Counted, unlockable_ver
    <3>1. CASE butex = contended_ver
      BY <2>2, <2>4, <3>1 DEF Wakes
    <3>2. CASE butex # contended_ver
      <4>1. PICK u \in Threads : Wakes(u)
        BY <3>2 DEF BthreadIdInv, WakeInv
      <4>2. u # t
        BY <1>1, <4>1 DEF Wakes, At
      <4> QED BY <1>1, <2>4, <4>1, <4>2 DEF Wakes, At, has_version
    <3> QED BY <3>1, <3>2
  <2> QED BY <2>7, <2>8, <2>9, <2>10, <2>11, <2>12, <2>13 DEF BthreadIdInv
<1> QED BY <1>2, <1>3

\* A woken waiter will take the lock as contended, so it wakes the next.
LEMMA WakeKeeps ==
    ASSUME BthreadIdInv, NEW t \in Threads, Wake(t)
    PROVE  BthreadIdInv'
<1>1. /\ UNCHANGED <<live, first_ver, locked_ver, butex, join_butex, pending_q>>
      /\ UNCHANGED <<joiners, life, issued, uncounted, calls>>
      /\ th[t].pc = "wake"
  BY DEF Wake, meta, history, At
<1>2. CASE waiters = <<>>
  <2>1. Go(t, Idle) /\ UNCHANGED <<meta, waiters, joiners, history, calls>>
    BY <1>2 DEF Wake
  <2>2. Idle.pc = "idle"
    BY DEF Idle
  <2>3. calls' \in Nat /\ calls <= calls' /\ calls' <= MaxCalls
    BY <2>1, SameCalls
  <2> QED BY <1>1, <1>2, <2>1, <2>2, <2>3, IdleLocals, LocalKeeps
<1>3. CASE waiters # <<>>
  <2> DEFINE h == Head(waiters)
  <2>1. /\ waiters \in Seq(Threads) /\ joiners \in Seq(Threads)
        /\ IsInjective(waiters) /\ Range(waiters) = {u \in Threads : At(u, "asleep")}
    BY Numbers DEF BthreadIdInv, QueueInv
  <2>2. /\ waiters' \in Seq(Threads) /\ IsInjective(waiters')
        /\ Range(waiters') = Range(waiters) \ {h} /\ h \in Range(waiters)
    <3>1. waiters' = Tail(waiters)
      BY <1>3 DEF Wake
    <3> QED BY <1>3, <2>1, <3>1, TailRange, SmallRange
  <2>3. /\ h \in Threads /\ th[h].pc = "asleep" /\ h # t /\ th[h].ever_contended
        /\ [ver |-> th[h].ver, life |-> th[h].life] \in issued
        /\ has_version(th[h].ver) \/ first_ver = locked_ver
    BY <1>1, <2>1, <2>2 DEF At, BthreadIdInv, WaitInv, IssuedInv, contended_ver
  <2> HIDE DEF h
  <2>4. /\ th' \in [Threads -> Locals]
        /\ th'[t] = Idle /\ th'[h] = [th[h] EXCEPT !.pc = "lock"]
        /\ \A u \in Threads : u # t /\ u # h => th'[u] = th[u]
    <3>1. th' = [th EXCEPT ![t] = Idle, ![h].pc = "lock"]
      BY <1>3 DEF Wake, h
    <3>2. [th[h] EXCEPT !.pc = "lock"] \in Locals
      <4>1. th[h] \in Locals
        BY <2>3, Numbers
      <4> QED BY <4>1 DEF Locals, Places
    <3>3. th \in [Threads -> Locals]
      BY Numbers
    <3> QED BY <2>3, <3>1, <3>2, <3>3, IdleLocals
  <2>5. th'[t].pc = "idle"
    BY <2>4 DEF Idle
  <2>6. /\ th'[h].pc = "lock" /\ th'[h].ever_contended
        /\ th'[h].ver = th[h].ver /\ th'[h].life = th[h].life
    <3>1. th[h] \in Locals
      BY <2>3, Numbers
    <3> QED BY <2>3, <2>4, <3>1 DEF Locals
  <2>7. QueueInv'
    <3>1. \A u \in Threads : /\ At(u, "asleep")' <=> At(u, "asleep") /\ u # h
                             /\ At(u, "joining")' <=> At(u, "joining")
      BY <1>1, <2>3, <2>4, <2>5, <2>6 DEF At
    <3> QED BY <1>1, <2>1, <2>2, <3>1 DEF BthreadIdInv, QueueInv
  <2>8. TypeOK'
    <3>1. /\ waiters' \in Seq({u \in Threads : At(u, "asleep")'})
          /\ joiners' \in Seq({u \in Threads : At(u, "joining")'})
      BY <1>1, <2>1, <2>2, <2>7, QueuesTyped
    <3> QED BY <1>1, <2>4, <3>1 DEF BthreadIdInv, TypeOK, unlockable_ver
  <2>9. HolderInv'
    <3>1. \A u \in Threads :
             /\ th'[u].pc \in {"hold", "shut", "wakeall"} => th'[u] = th[u]
             /\ th[u].pc \in {"hold", "shut", "wakeall"} => th'[u] = th[u]
      BY <1>1, <2>3, <2>4, <2>5, <2>6
    <3> QED BY <1>1, <3>1
            DEF BthreadIdInv, HolderInv, Holders, At, has_version, unlockable_ver
  <2>10. IssuedInv'
    <3>1. ASSUME NEW u \in Threads, th'[u].pc \notin {"idle", "wake", "wakeall"}
          PROVE  [ver |-> th'[u].ver, life |-> th'[u].life] \in issued
      <4>1. CASE u = h
        BY <2>3, <2>6, <4>1
      <4>2. CASE u # h
        BY <2>4, <2>5, <3>1, <4>2 DEF BthreadIdInv, IssuedInv
      <4> QED BY <4>1, <4>2
    <3> QED BY <1>1, <3>1 DEF BthreadIdInv, IssuedInv
  <2>11. WaitInv'
    <3>1. \A u \in Threads : th'[u].pc \in {"wait", "asleep", "joined"} => th'[u] = th[u]
      BY <2>4, <2>5, <2>6
    <3> QED BY <1>1, <3>1 DEF BthreadIdInv, WaitInv, At, has_version, contended_ver
  <2>12. live
    BY <1>3 DEF BthreadIdInv, VersionInv
  <2>13. VersionInv' /\ ErrorsAreHandled'
    BY <1>1, <2>12 DEF BthreadIdInv, VersionInv, ErrorsAreHandled
  <2>14. WakeInv'
    <3>1. \E u \in Threads : Wakes(u)'
      <4>1. CASE has_version(th[h].ver)
        BY <1>1, <2>3, <2>6, <4>1 DEF Wakes, At, has_version
      <4>2. CASE first_ver = locked_ver
        <5>1. PICK u \in Threads : At(u, "wakeall")
          BY <2>12, <4>2 DEF BthreadIdInv, HolderInv
        <5>2. th'[u] = th[u]
          BY <1>1, <2>3, <2>4, <5>1 DEF At
        <5> QED BY <5>1, <5>2 DEF Wakes, At
      <4> QED BY <2>3, <4>1, <4>2
    <3>2. butex = unlockable_ver => \E u \in Threads : At(u, "shut")'
      <4>1. \A u \in Threads : At(u, "shut") => At(u, "shut")'
        BY <1>1, <2>3, <2>4 DEF At
      <4> QED BY <1>3, <4>1 DEF BthreadIdInv, WakeInv
    <3> QED BY <1>1, <3>1, <3>2 DEF WakeInv, unlockable_ver
  <2> QED BY <2>7, <2>8, <2>9, <2>10, <2>11, <2>13, <2>14 DEF BthreadIdInv
<1> QED BY <1>2, <1>3

\* An error is put aside while somebody has the lock; else its thread takes the lock.
LEMMA ErrorKeeps ==
    ASSUME BthreadIdInv, NEW t \in Threads, Error(t)
    PROVE  BthreadIdInv'
<1>1. /\ UNCHANGED <<live, first_ver, locked_ver, join_butex>>
      /\ UNCHANGED <<waiters, joiners, life, issued, uncounted>>
      /\ th[t].pc = "idle" /\ calls < MaxCalls /\ calls' = calls + 1
  BY DEF Error, At, history
<1>2. PICK id \in issued :
        /\ has_version(id.ver)
        /\ \/ /\ butex = first_ver
              /\ butex' = locked_ver /\ UNCHANGED pending_q
              /\ Go(t, [Idle EXCEPT !.pc = "hold", !.ver = id.ver, !.life = id.life])
           \/ /\ butex \notin {first_ver, unlockable_ver}
              /\ pending_q' = pending_q + 1 /\ UNCHANGED <<butex, th>>
  BY DEF Error
<1>3. /\ first_ver \in Nat /\ locked_ver \in Nat /\ id.ver \in Nat
      /\ first_ver < locked_ver /\ live
  BY <1>2, Numbers DEF has_version, BthreadIdInv, VersionInv
<1>4. /\ calls \in Nat /\ calls + 1 \in 0..MaxCalls
      /\ pending_q \in Nat /\ pending_q + 1 <= calls + 1
  BY <1>1, BoundsAreNat DEF BthreadIdInv, TypeOK, VersionInv
<1>5. CASE /\ butex \notin {first_ver, unlockable_ver}
           /\ pending_q' = pending_q + 1 /\ UNCHANGED <<butex, th>>
  <2>1. pending_q + 1 \in 0..MaxCalls
    BY <1>4, BoundsAreNat
  <2>2. /\ QueueInv' /\ waiters' \in Seq({u \in Threads : At(u, "asleep")'})
        /\ joiners' \in Seq({u \in Threads : At(u, "joining")'})
    BY <1>1, <1>5, QueuesStay
  <2>3. TypeOK'
    BY <1>1, <1>4, <1>5, <2>1, <2>2 DEF BthreadIdInv, TypeOK, unlockable_ver
  <2>4. VersionInv' /\ ErrorsAreHandled'
    BY <1>1, <1>4, <1>5 DEF BthreadIdInv, VersionInv, ErrorsAreHandled
  <2>5. HolderInv' /\ IssuedInv'
    BY <1>1, <1>5
       DEF BthreadIdInv, HolderInv, IssuedInv, Holders, At, has_version, unlockable_ver
  <2>6. WaitInv' /\ WakeInv'
    BY <1>1, <1>5 DEF BthreadIdInv, WaitInv, WakeInv, Counted, Wakes, At, has_version,
                      contended_ver, unlockable_ver
  <2> QED BY <2>2, <2>3, <2>4, <2>5, <2>6 DEF BthreadIdInv
<1>6. CASE /\ butex = first_ver
           /\ butex' = locked_ver /\ UNCHANGED pending_q
           /\ Go(t, [Idle EXCEPT !.pc = "hold", !.ver = id.ver, !.life = id.life])
  <2> DEFINE l == [Idle EXCEPT !.pc = "hold", !.ver = id.ver, !.life = id.life]
  <2>1. l \in Locals /\ l.pc = "hold" /\ l.ver = id.ver /\ l.life = id.life
    <3>1. id.ver \in Nat /\ id.life \in 0..MaxLives
      <4>1. id.life \in 1..life /\ life \in 0..MaxLives
        BY <1>2, Numbers DEF BthreadIdInv, TypeOK
      <4> QED BY <1>3, <4>1, BoundsAreNat
    <3> QED BY <3>1, BoundsAreNat DEF Idle, Locals, Places
  <2>2. id = [ver |-> l.ver, life |-> l.life]
    <3>1. issued \subseteq [ver : Nat, life : 1..life]
      BY DEF BthreadIdInv, TypeOK
    <3>2. id = [ver |-> id.ver, life |-> id.life]
      BY <1>2, <3>1
    <3> QED BY <2>1, <3>2
  <2> HIDE DEF l
  <2>3. /\ th' \in [Threads -> Locals] /\ th'[t] = l
        /\ \A u \in Threads : u # t => th'[u] = th[u]
    BY <1>6, <2>1, Numbers, GoFacts DEF l
  <2>4. \A u \in Threads : th[u].pc \notin {"hold", "shut", "wakeall"}
    BY <1>3, <1>6 DEF BthreadIdInv, HolderInv, Holders, At
  <2>5. /\ QueueInv' /\ waiters' \in Seq({u \in Threads : At(u, "asleep")'})
        /\ joiners' \in Seq({u \in Threads : At(u, "joining")'})
    BY <1>1, <2>1, <2>3, QueuesStay
  <2>6. TypeOK'
    BY <1>1, <1>3, <1>4, <1>6, <2>3, <2>5 DEF BthreadIdInv, TypeOK, unlockable_ver
  <2>7. VersionInv' /\ ErrorsAreHandled'
    BY <1>1, <1>3, <1>4, <1>6 DEF BthreadIdInv, VersionInv, ErrorsAreHandled
  <2>8. HolderInv'
    BY <1>1, <1>2, <1>3, <1>6, <2>1, <2>3, <2>4 DEF HolderInv, Holders, At, has_version
  <2>9. IssuedInv'
    BY <1>1, <1>2, <2>1, <2>2, <2>3 DEF BthreadIdInv, IssuedInv
  <2>10. WaitInv'
    BY <1>1, <2>1, <2>3 DEF BthreadIdInv, WaitInv, At, has_version, contended_ver
  <2>11. WakeInv'
    <3> SUFFICES ASSUME waiters # <<>>, Counted # {} PROVE \E u \in Threads : Wakes(u)'
      BY <1>1, <1>3, <1>6 DEF WakeInv, Counted, unlockable_ver
    <3>1. PICK u \in Threads : Wakes(u)
      BY <1>3, <1>6 DEF BthreadIdInv, WakeInv, contended_ver
    <3>2. th'[u] = th[u]
      BY <1>1, <2>3, <3>1 DEF Wakes, At
    <3> QED BY <1>1, <3>1, <3>2 DEF Wakes, At, has_version
  <2> QED BY <2>5, <2>6, <2>7, <2>8, <2>9, <2>10, <2>11 DEF BthreadIdInv
<1> QED BY <1>2, <1>5, <1>6

\* The holder announces that nobody else will get the lock.
LEMMA AboutToDestroyKeeps ==
    ASSUME BthreadIdInv, NEW t \in Threads, AboutToDestroy(t)
    PROVE  BthreadIdInv'
<1>1. /\ UNCHANGED <<live, first_ver, locked_ver, join_butex, pending_q>>
      /\ UNCHANGED <<waiters, joiners, life, issued, uncounted, calls>>
      /\ th[t].pc = "hold" /\ butex' = locked_ver + 2
  BY DEF AboutToDestroy, history, At, unlockable_ver
<1> DEFINE l == To(t, "shut")
<1>2. l \in Locals /\ l.pc = "shut" /\ l.ver = th[t].ver /\ l.life = th[t].life
  <2>1. th[t] \in Locals /\ "shut" \in Places
    BY Numbers DEF Places
  <2> QED BY <2>1, NewPlace DEF To
<1>3. Go(t, l)
  BY DEF AboutToDestroy
<1> HIDE DEF l
<1>4. /\ th' \in [Threads -> Locals] /\ th'[t] = l
      /\ \A u \in Threads : u # t => th'[u] = th[u]
  BY <1>2, <1>3, Numbers, GoFacts
<1>5. /\ live /\ first_ver < locked_ver /\ first_ver \in Nat /\ locked_ver \in Nat
      /\ locked_ver + 2 # first_ver
  BY <1>1, Numbers DEF BthreadIdInv, HolderInv, Holders, has_version
<1>6. /\ QueueInv' /\ waiters' \in Seq({u \in Threads : At(u, "asleep")'})
      /\ joiners' \in Seq({u \in Threads : At(u, "joining")'})
  BY <1>1, <1>2, <1>4, QueuesStay
<1>7. TypeOK'
  BY <1>1, <1>4, <1>5, <1>6 DEF BthreadIdInv, TypeOK, unlockable_ver
<1>8. VersionInv' /\ ErrorsAreHandled'
  BY <1>1, <1>5 DEF BthreadIdInv, VersionInv, ErrorsAreHandled
<1>9. HolderInv'
  BY <1>1, <1>2, <1>4, <1>5
     DEF BthreadIdInv, HolderInv, Holders, At, has_version, unlockable_ver
<1>10. IssuedInv'
  BY <1>1, <1>2, <1>4 DEF BthreadIdInv, IssuedInv
<1>11. WaitInv'
  BY <1>1, <1>2, <1>4 DEF BthreadIdInv, WaitInv, At, has_version, contended_ver
<1>12. WakeInv'
  BY <1>2, <1>4 DEF WakeInv, Wakes, At
<1> QED BY <1>6, <1>7, <1>8, <1>9, <1>10, <1>11, <1>12 DEF BthreadIdInv

\* Those who wait for a lock that nobody gets any more are woken.
LEMMA ShutKeeps ==
    ASSUME BthreadIdInv, NEW t \in Threads, Shut(t)
    PROVE  BthreadIdInv'
<1>1. /\ UNCHANGED <<live, first_ver, locked_ver, butex, join_butex, pending_q>>
      /\ UNCHANGED <<joiners, life, issued, uncounted, calls>>
      /\ th[t].pc = "shut" /\ waiters' = <<>>
  BY DEF Shut, At, meta, history
<1>2. /\ th' \in [Threads -> Locals]
      /\ \A u \in Threads :
            /\ th'[u].ver = th[u].ver /\ th'[u].life = th[u].life
            /\ u = t => th'[u].pc = "hold"
            /\ th[u].pc = "asleep" => th'[u].pc = "lock"
            /\ u # t /\ th[u].pc # "asleep" => th'[u] = th[u]
  <2>1. \A u \in Threads : u \in ToSet(waiters) <=> th[u].pc = "asleep"
    BY ToSetIsRange DEF BthreadIdInv, QueueInv, At
  <2>2. th' = [u \in Threads |-> CASE u = t -> To(u, "hold")
                                   [] u \in ToSet(waiters) -> To(u, "lock")
                                   [] OTHER -> th[u]]
    BY DEF Shut
  <2>3. ASSUME NEW u \in Threads
        PROVE  /\ To(u, "hold") \in Locals /\ To(u, "lock") \in Locals /\ th[u] \in Locals
               /\ To(u, "hold").pc = "hold" /\ To(u, "lock").pc = "lock"
               /\ To(u, "hold").ver = th[u].ver /\ To(u, "hold").life = th[u].life
               /\ To(u, "lock").ver = th[u].ver /\ To(u, "lock").life = th[u].life
    <3>1. th[u] \in Locals /\ "hold" \in Places /\ "lock" \in Places
      BY Numbers DEF Places
    <3> QED BY <3>1, NewPlace DEF To
  <2>4. ASSUME NEW u \in Threads
        PROVE  /\ u = t => th'[u] = To(u, "hold") /\ th[u].pc = "shut"
               /\ th[u].pc = "asleep" => th'[u] = To(u, "lock")
               /\ u # t /\ th[u].pc # "asleep" => th'[u] = th[u]
    <3>1. th'[u] = CASE u = t -> To(u, "hold")
                     [] th[u].pc = "asleep" -> To(u, "lock")
                     [] OTHER -> th[u]
      BY <2>1, <2>2
    <3>2. u = t => th[u].pc = "shut"
      BY <1>1
    <3>3. CASE u = t
      BY <3>1, <3>2, <3>3
    <3>4. CASE u # t
      BY <3>1, <3>4
    <3> QED BY <3>3, <3>4
  <2>5. th' \in [Threads -> Locals]
    BY <2>2, <2>3
  <2>6. ASSUME NEW u \in Threads
        PROVE  /\ th'[u].ver = th[u].ver /\ th'[u].life = th[u].life
               /\ u = t => th'[u].pc = "hold"
               /\ th[u].pc = "asleep" => th'[u].pc = "lock"
               /\ u # t /\ th[u].pc # "asleep" => th'[u] = th[u]
    <3>1. CASE u = t
      BY <2>3, <2>4, <3>1
    <3>2. CASE u # t /\ th[u].pc = "asleep"
      BY <2>3, <2>4, <3>2
    <3>3. CASE u # t /\ th[u].pc # "asleep"
      BY <2>4, <3>3
    <3> QED BY <3>1, <3>2, <3>3
  <2> QED BY <2>5, <2>6
<1>3. waiters' \in Seq(Threads) /\ joiners' \in Seq(Threads)
  BY <1>1, Numbers, SmallRange
<1>4. QueueInv'
  <2>1. Range(waiters') = {} /\ IsInjective(waiters')
    BY <1>1, SmallRange
  <2>2. \A u \in Threads : /\ ~At(u, "asleep")'
                           /\ At(u, "joining")' <=> At(u, "joining")
    BY <1>1, <1>2 DEF At
  <2> QED BY <1>1, <2>1, <2>2 DEF BthreadIdInv, QueueInv
<1>5. TypeOK'
  <2>1. /\ waiters' \in Seq({u \in Threads : At(u, "asleep")'})
        /\ joiners' \in Seq({u \in Threads : At(u, "joining")'})
    BY <1>3, <1>4, QueuesTyped
  <2> QED BY <1>1, <1>2, <2>1 DEF BthreadIdInv, TypeOK, unlockable_ver
<1>6. VersionInv' /\ ErrorsAreHandled' /\ WakeInv'
  BY <1>1 DEF BthreadIdInv, VersionInv, ErrorsAreHandled, WakeInv
<1>7. HolderInv'
  <2>1. \A u \in Threads : th'[u].pc \in {"hold", "shut", "wakeall"} => u = t
    BY <1>1, <1>2 DEF BthreadIdInv, HolderInv
  <2>2. th'[t].pc = "hold" /\ th'[t].ver = th[t].ver
    BY <1>2
  <2>3. live /\ butex # first_ver /\ has_version(th[t].ver) /\ first_ver # locked_ver
    <3>1. live /\ butex # first_ver /\ has_version(th[t].ver)
      BY <1>1 DEF BthreadIdInv, HolderInv, Holders
    <3> QED BY <3>1, Numbers DEF has_version
  <2> QED BY <1>1, <2>1, <2>2, <2>3 DEF HolderInv, Holders, At, has_version
<1>8. IssuedInv'
  <2>1. \A u \in Threads : th'[u].pc \notin {"idle", "wake", "wakeall"} =>
                              th[u].pc \notin {"idle", "wake", "wakeall"}
    BY <1>1, <1>2
  <2> QED BY <1>1, <1>2, <2>1 DEF BthreadIdInv, IssuedInv
<1>9. WaitInv'
  <2>1. ASSUME NEW u \in Threads, th'[u].pc \in {"wait", "asleep", "joined"}
        PROVE  th'[u] = th[u]
    <3>1. CASE u = t
      BY <1>2, <2>1, <3>1
    <3>2. CASE u # t /\ th[u].pc = "asleep"
      BY <1>2, <2>1, <3>2
    <3>3. CASE u # t /\ th[u].pc # "asleep"
      BY <1>2, <3>3
    <3> QED BY <3>1, <3>2, <3>3
  <2> QED BY <1>1, <2>1 DEF BthreadIdInv, WaitInv, At, has_version, contended_ver
<1> QED BY <1>4, <1>5, <1>6, <1>7, <1>8, <1>9 DEF BthreadIdInv

\* The versions of the id are over: no one has a valid one until the slot is taken.
LEMMA DestroyKeeps ==
    ASSUME BthreadIdInv, NEW t \in Threads, Destroy(t)
    PROVE  BthreadIdInv'
<1>1. /\ UNCHANGED <<live, waiters, joiners, life, issued, uncounted, calls>>
      /\ th[t].pc = "hold"
      /\ first_ver' = locked_ver + 3 /\ locked_ver' = locked_ver + 3
      /\ butex' = locked_ver + 3 /\ join_butex' = locked_ver + 3 /\ pending_q' = 0
  BY DEF Destroy, history, At, end_ver
<1>2. PICK e \in Nat : e = locked_ver + 3 /\ e > 0 /\ first_ver < locked_ver
  BY <1>1, Numbers DEF BthreadIdInv, HolderInv, Holders, has_version
<1> DEFINE l == [Idle EXCEPT !.pc = "wakeall"]
<1>3. l \in Locals /\ l.pc = "wakeall"
  <2>1. "wakeall" \in Places
    BY DEF Places
  <2> QED BY <2>1, IdleLocals, NewPlace
<1>4. Go(t, l)
  BY DEF Destroy
<1> HIDE DEF l
<1>5. /\ th' \in [Threads -> Locals] /\ th'[t] = l
      /\ \A u \in Threads : u # t => th'[u] = th[u]
  BY <1>3, <1>4, Numbers, GoFacts
<1>6. live /\ \A u \in Threads : u # t => th[u].pc \notin {"hold", "shut", "wakeall"}
  BY <1>1 DEF BthreadIdInv, HolderInv, Holders
<1>7. /\ QueueInv' /\ waiters' \in Seq({u \in Threads : At(u, "asleep")'})
      /\ joiners' \in Seq({u \in Threads : At(u, "joining")'})
  BY <1>1, <1>3, <1>5, QueuesStay
<1>8. TypeOK'
  BY <1>1, <1>2, <1>5, <1>7, BoundsAreNat DEF BthreadIdInv, TypeOK, unlockable_ver
<1>9. VersionInv' /\ ErrorsAreHandled'
  <2>1. 0 <= calls
    BY BoundsAreNat DEF BthreadIdInv, TypeOK
  <2> QED BY <1>1, <1>2, <1>6, <2>1 DEF BthreadIdInv, VersionInv, ErrorsAreHandled
<1>10. HolderInv'
  BY <1>1, <1>2, <1>3, <1>5, <1>6 DEF HolderInv, Holders, At
<1>11. IssuedInv'
  <2>1. \A id \in issued : id.ver < e
    BY <1>2, Numbers DEF BthreadIdInv, IssuedInv
  <2>2. \A id \in issued : ~(id.ver >= e)
    BY <1>2, <2>1, Numbers
  <2> QED BY <1>1, <1>2, <1>3, <1>5, <2>1, <2>2 DEF BthreadIdInv, IssuedInv
<1>12. WaitInv'
  <2>1. ASSUME NEW u \in Threads, At(u, "wait") PROVE th[u].expected_ver < e
    <3>1. /\ first_ver \in Nat /\ locked_ver \in Nat /\ th[u].expected_ver \in Nat
      BY Numbers DEF Locals
    <3>2. th[u].expected_ver < first_ver \/ th[u].expected_ver <= locked_ver + 1
      BY <2>1 DEF BthreadIdInv, WaitInv, contended_ver
    <3> QED BY <1>2, <3>1, <3>2
  <2>2. ASSUME NEW u \in Threads, At(u, "joined") PROVE th[u].ver < e
    <3>1. /\ first_ver \in Nat /\ locked_ver \in Nat /\ th[u].ver \in Nat
          /\ th[u].ver < first_ver
      BY <2>2, Numbers DEF BthreadIdInv, WaitInv, contended_ver
    <3> QED BY <1>2, <3>1
  <2> QED BY <1>1, <1>2, <1>3, <1>5, <2>1, <2>2 DEF BthreadIdInv, WaitInv, At, contended_ver
<1>13. WakeInv'
  <2>1. e # e + 2
    OBVIOUS
  <2> QED BY <1>1, <1>2, <1>3, <1>5, <2>1 DEF WakeInv, Wakes, unlockable_ver
<1> QED BY <1>7, <1>8, <1>9, <1>10, <1>11, <1>12, <1>13 DEF BthreadIdInv

\* Everyone is woken before the slot can be taken again.
LEMMA WakeAllKeeps ==
    ASSUME BthreadIdInv, NEW t \in Threads, WakeAll(t)
    PROVE  BthreadIdInv'
<1>1. /\ UNCHANGED <<first_ver, locked_ver, butex, join_butex, pending_q>>
      /\ UNCHANGED <<life, issued, uncounted, calls>>
      /\ th[t].pc = "wakeall" /\ waiters' = <<>> /\ joiners' = <<>> /\ ~live'
  BY DEF WakeAll, At, history
<1>2. first_ver = locked_ver /\ first_ver \in Nat /\ butex = first_ver
  <2>1. live /\ first_ver = locked_ver
    BY <1>1 DEF BthreadIdInv, HolderInv, At
  <2>2. \A u \in Threads : u \notin Holders
    <3> SUFFICES ASSUME NEW u \in Holders PROVE FALSE
      OBVIOUS
    <3>1. has_version(th[u].ver) /\ th[u].ver \in Nat /\ first_ver \in Nat
      BY Numbers DEF BthreadIdInv, HolderInv, Holders
    <3> QED BY <2>1, <3>1 DEF has_version
  <2>3. Holders = {}
    BY <2>2 DEF Holders
  <2> QED BY <2>1, <2>3, Numbers DEF BthreadIdInv, HolderInv
<1>3. /\ th' \in [Threads -> Locals]
      /\ \A u \in Threads :
            /\ u # t => th'[u].ver = th[u].ver /\ th'[u].life = th[u].life
            /\ u = t => th'[u].pc = "idle"
            /\ u # t /\ th[u].pc = "asleep" => th'[u].pc = "lock"
            /\ u # t /\ th[u].pc = "joining" => th'[u].pc = "join"
            /\ u # t /\ th[u].pc \notin {"asleep", "joining"} => th'[u] = th[u]
  <2>1. \A u \in Threads : /\ u \in ToSet(waiters) <=> th[u].pc = "asleep"
                           /\ u \in ToSet(joiners) <=> th[u].pc = "joining"
    BY ToSetIsRange DEF BthreadIdInv, QueueInv, At
  <2>2. th' = [u \in Threads |-> CASE u = t -> Idle
                                   [] u \in ToSet(waiters) -> To(u, "lock")
                                   [] u \in ToSet(joiners) -> To(u, "join")
                                   [] OTHER -> th[u]]
    BY DEF WakeAll
  <2>3. ASSUME NEW u \in Threads
        PROVE  /\ To(u, "join") \in Locals /\ To(u, "lock") \in Locals /\ th[u] \in Locals
               /\ To(u, "join").pc = "join" /\ To(u, "lock").pc = "lock"
               /\ To(u, "join").ver = th[u].ver /\ To(u, "join").life = th[u].life
               /\ To(u, "lock").ver = th[u].ver /\ To(u, "lock").life = th[u].life
    <3>1. th[u] \in Locals /\ "join" \in Places /\ "lock" \in Places
      BY Numbers DEF Places
    <3> QED BY <3>1, NewPlace DEF To
  <2>4. ASSUME NEW u \in Threads
        PROVE  /\ u = t => th'[u] = Idle
               /\ u # t /\ th[u].pc = "asleep" => th'[u] = To(u, "lock")
               /\ u # t /\ th[u].pc = "joining" => th'[u] = To(u, "join")
               /\ u # t /\ th[u].pc \notin {"asleep", "joining"} => th'[u] = th[u]
    <3>1. th'[u] = CASE u = t -> Idle
                     [] th[u].pc = "asleep" -> To(u, "lock")
                     [] th[u].pc = "joining" -> To(u, "join")
                     [] OTHER -> th[u]
      BY <2>1, <2>2
    <3>2. CASE u = t
      <4>1. th[u].pc = "wakeall"
        BY <1>1, <3>2
      <4> QED BY <3>1, <3>2, <4>1
    <3>3. CASE u # t
      BY <3>1, <3>3
    <3> QED BY <3>2, <3>3
  <2>5. th' \in [Threads -> Locals]
    BY <2>2, <2>3, IdleLocals
  <2>6. ASSUME NEW u \in Threads
        PROVE  /\ u # t => th'[u].ver = th[u].ver /\ th'[u].life = th[u].life
               /\ u = t => th'[u].pc = "idle"
               /\ u # t /\ th[u].pc = "asleep" => th'[u].pc = "lock"
               /\ u # t /\ th[u].pc = "joining" => th'[u].pc = "join"
               /\ u # t /\ th[u].pc \notin {"asleep", "joining"} => th'[u] = th[u]
    <3>1. CASE u = t
      BY <2>4, <3>1 DEF Idle
    <3>2. CASE u # t /\ th[u].pc = "asleep"
      BY <2>3, <2>4, <3>2
    <3>3. CASE u # t /\ th[u].pc = "joining"
      BY <2>3, <2>4, <3>3
    <3>4. CASE u # t /\ th[u].pc \notin {"asleep", "joining"}
      BY <2>4, <3>4
    <3> QED BY <3>1, <3>2, <3>3, <3>4
  <2> QED BY <2>5, <2>6
<1>4. ASSUME NEW u \in Threads
      PROVE  /\ th'[u].pc \notin {"asleep", "joining"}
             /\ th'[u].pc \notin {"idle", "lock", "join"} => u # t /\ th'[u] = th[u]
             /\ u = t => th'[u].pc = "idle"
             /\ th'[u].pc \in {"lock", "join"} => th[u].pc \in {"lock", "asleep", "join", "joining"}
  <2>1. CASE u = t
    BY <1>3, <2>1
  <2>2. CASE u # t /\ th[u].pc = "asleep"
    BY <1>3, <2>2
  <2>3. CASE u # t /\ th[u].pc = "joining"
    BY <1>3, <2>3
  <2>4. CASE u # t /\ th[u].pc \notin {"asleep", "joining"}
    BY <1>3, <2>4
  <2> QED BY <2>1, <2>2, <2>3, <2>4
<1>5. QueueInv'
  <2>1. \A u \in Threads : ~At(u, "asleep")' /\ ~At(u, "joining")'
    BY <1>4 DEF At
  <2> QED BY <1>1, <2>1, SmallRange DEF QueueInv
<1>6. TypeOK'
  <2>1. waiters' \in Seq(Threads) /\ joiners' \in Seq(Threads)
    BY <1>1, SmallRange
  <2>2. /\ waiters' \in Seq({u \in Threads : At(u, "asleep")'})
        /\ joiners' \in Seq({u \in Threads : At(u, "joining")'})
    BY <1>5, <2>1, QueuesTyped
  <2>3. live' \in BOOLEAN
    BY Zenon DEF WakeAll
  <2> QED BY <1>1, <1>3, <2>2, <2>3 DEF BthreadIdInv, TypeOK, unlockable_ver
<1>7. VersionInv' /\ ErrorsAreHandled' /\ WakeInv'
  BY <1>1, <1>2 DEF BthreadIdInv, VersionInv, ErrorsAreHandled, WakeInv
<1>8. HolderInv'
  <2>1. \A u \in Threads : th'[u].pc \notin {"hold", "shut", "wakeall"}
    BY <1>1, <1>4 DEF BthreadIdInv, HolderInv
  <2> QED BY <1>1, <1>2, <2>1 DEF HolderInv, Holders, At
<1>9. IssuedInv'
  <2>1. ASSUME NEW u \in Threads, th'[u].pc \notin {"idle", "wake", "wakeall"}
        PROVE  [ver |-> th'[u].ver, life |-> th'[u].life] \in issued
    <3>1. u # t /\ th[u].pc \notin {"idle", "wake", "wakeall"}
      BY <1>4, <2>1
    <3> QED BY <1>3, <3>1 DEF BthreadIdInv, IssuedInv
  <2> QED BY <1>1, <2>1 DEF BthreadIdInv, IssuedInv
<1>10. WaitInv'
  <2>1. \A u \in Threads : th'[u].pc \in {"wait", "asleep", "joined"} => th'[u] = th[u]
    BY <1>4
  <2> QED BY <1>1, <2>1 DEF BthreadIdInv, WaitInv, At, has_version, contended_ver
<1> QED BY <1>5, <1>6, <1>7, <1>8, <1>9, <1>10 DEF BthreadIdInv

\* A join of an id without a valid version is over: the version is a former one.
LEMMA JoinKeeps ==
    ASSUME BthreadIdInv, NEW t \in Threads, Join(t)
    PROVE  BthreadIdInv'
<1> DEFINE l == IF has_version(th[t].ver)
                THEN [th[t] EXCEPT !.pc = "joinwait", !.expected_ver = join_butex]
                ELSE To(t, "joined")
<1>1. /\ th[t].pc = "join" /\ th[t] \in Locals /\ join_butex \in Nat
      /\ [ver |-> th[t].ver, life |-> th[t].life] \in issued
  BY Numbers DEF Join, At, BthreadIdInv, TypeOK, IssuedInv
<1>2. /\ l \in Locals /\ l.pc \in {"joinwait", "joined"}
      /\ l.pc = "joined" => ~has_version(th[t].ver)
      /\ l.ver = th[t].ver /\ l.life = th[t].life
  <2>1. CASE has_version(th[t].ver)
    <3>1. LET x == [th[t] EXCEPT !.pc = "joinwait", !.expected_ver = join_butex] IN
          x \in Locals /\ x.pc = "joinwait" /\ x.ver = th[t].ver /\ x.life = th[t].life
      BY <1>1 DEF Locals, Places
    <3> QED BY <2>1, <3>1
  <2>2. CASE ~has_version(th[t].ver)
    <3>1. "joined" \in Places
      BY DEF Places
    <3> QED BY <1>1, <2>2, <3>1, NewPlace DEF To
  <2> QED BY <2>1, <2>2
<1>3. ~has_version(th[t].ver) => th[t].ver < first_ver
  <2>1. th[t].ver < locked_ver
    BY <1>1 DEF BthreadIdInv, IssuedInv
  <2> QED BY <1>1, <2>1, Numbers DEF has_version
<1>4. Go(t, l) /\ UNCHANGED <<meta, waiters, joiners, history>> /\ UNCHANGED calls
  BY DEF Join
<1>5. calls' \in Nat /\ calls <= calls' /\ calls' <= MaxCalls
  BY <1>4, SameCalls
<1>6. ~Wakes(t)
  BY <1>1 DEF Wakes, At
<1> HIDE DEF l
<1> QED BY <1>1, <1>2, <1>3, <1>4, <1>5, <1>6, LocalKeeps

\* Who joins goes to sleep, or tries again.
LEMMA JoinWaitKeeps ==
    ASSUME BthreadIdInv, NEW t \in Threads, JoinWait(t)
    PROVE  BthreadIdInv'
<1>1. /\ th[t].pc = "joinwait" /\ th[t] \in Locals
      /\ [ver |-> th[t].ver, life |-> th[t].life] \in issued
  BY Numbers DEF JoinWait, At, BthreadIdInv, IssuedInv
<1>2. CASE join_butex # th[t].expected_ver
  <2> DEFINE l == [th[t] EXCEPT !.pc = "join", !.expected_ver = 0]
  <2>1. Go(t, l) /\ UNCHANGED <<meta, waiters, joiners, history, calls>>
    BY <1>2 DEF JoinWait
  <2>2. l \in Locals /\ l.pc = "join" /\ l.ver = th[t].ver /\ l.life = th[t].life
    BY <1>1 DEF Locals, Places
  <2>3. ~Wakes(t)
    BY <1>1 DEF Wakes, At
  <2>4. calls' \in Nat /\ calls <= calls' /\ calls' <= MaxCalls
    BY <2>1, SameCalls
  <2> HIDE DEF l
  <2> QED BY <1>1, <2>1, <2>2, <2>3, <2>4, LocalKeeps
<1>3. CASE join_butex = th[t].expected_ver
  <2> DEFINE l == To(t, "joining")
  <2>1. /\ joiners' = Append(joiners, t) /\ Go(t, l)
        /\ UNCHANGED <<live, first_ver, locked_ver, butex, join_butex, pending_q>>
        /\ UNCHANGED <<waiters, life, issued, uncounted, calls>>
    BY <1>3 DEF JoinWait, meta, history
  <2>2. l \in Locals /\ l.pc = "joining" /\ l.ver = th[t].ver /\ l.life = th[t].life
    BY <1>1 DEF To, Locals, Places
  <2> HIDE DEF l
  <2>3. /\ th' \in [Threads -> Locals] /\ th'[t] = l
        /\ \A u \in Threads : u # t => th'[u] = th[u]
    BY <2>1, <2>2, Numbers, GoFacts
  <2>4. /\ waiters \in Seq(Threads) /\ joiners \in Seq(Threads)
        /\ IsInjective(joiners) /\ t \notin Range(joiners)
    BY <1>1, Numbers DEF BthreadIdInv, QueueInv, At
  <2>5. /\ joiners' \in Seq(Threads) /\ IsInjective(joiners')
        /\ Range(joiners') = Range(joiners) \cup {t}
    BY <2>1, <2>4, AppendRange
  <2>6. QueueInv'
    BY <1>1, <2>1, <2>2, <2>3, <2>5 DEF BthreadIdInv, QueueInv, At
  <2>7. TypeOK'
    <3>1. /\ waiters' \in Seq({u \in Threads : At(u, "asleep")'})
          /\ joiners' \in Seq({u \in Threads : At(u, "joining")'})
      BY <2>1, <2>4, <2>5, <2>6, QueuesTyped
    <3> QED BY <2>1, <2>3, <3>1 DEF BthreadIdInv, TypeOK, unlockable_ver
  <2>8. VersionInv' /\ ErrorsAreHandled'
    BY <2>1 DEF BthreadIdInv, VersionInv, ErrorsAreHandled
  <2>9. HolderInv' /\ IssuedInv'
    BY <1>1, <2>1, <2>2, <2>3
       DEF BthreadIdInv, HolderInv, IssuedInv, Holders, At, has_version, unlockable_ver
  <2>10. WaitInv'
    BY <2>1, <2>2, <2>3 DEF BthreadIdInv, WaitInv, At, has_version, contended_ver
  <2>11. WakeInv'
    <3>1. \A u \in Threads : /\ Wakes(u) => Wakes(u)'
                             /\ At(u, "shut") => At(u, "shut")'
      BY <1>1, <2>1, <2>3 DEF Wakes, At, has_version
    <3> QED BY <2>1, <3>1 DEF BthreadIdInv, WakeInv, Counted, contended_ver, unlockable_ver
  <2> QED BY <2>6, <2>7, <2>8, <2>9, <2>10, <2>11 DEF BthreadIdInv
<1> QED BY <1>2, <1>3

\* bthread_id_join returns.
LEMMA JoinedKeeps ==
    ASSUME BthreadIdInv, NEW t \in Threads, Joined(t)
    PROVE  BthreadIdInv'
<1>1. Go(t, Idle) /\ UNCHANGED <<meta, waiters, joiners, history, calls>>
  BY DEF Joined
<1>2. th[t].pc = "joined" /\ Idle.pc = "idle" /\ ~Wakes(t)
  BY DEF Joined, At, Idle, Wakes
<1>3. calls' \in Nat /\ calls <= calls' /\ calls' <= MaxCalls
  BY <1>1, SameCalls
<1> QED BY <1>1, <1>2, <1>3, IdleLocals, LocalKeeps

\* Every step keeps the invariant, and so does a stuttering one.
LEMMA NextKeeps == BthreadIdInv /\ [Next]_vars => BthreadIdInv'
<1> SUFFICES ASSUME BthreadIdInv, [Next]_vars PROVE BthreadIdInv'
  OBVIOUS
<1>1. CASE Create
  BY <1>1, CreateKeeps
<1>2. ASSUME NEW t \in Threads, Step(t) PROVE BthreadIdInv'
  BY <1>2, LockKeeps, WaitKeeps, UnlockKeeps, WakeKeeps, AboutToDestroyKeeps, ShutKeeps,
     DestroyKeeps, WakeAllKeeps, JoinKeeps, JoinWaitKeeps, JoinedKeeps DEF Step
<1>3. ASSUME NEW t \in Threads, Interrupt(t) PROVE BthreadIdInv'
  BY <1>3, InterruptKeeps
<1>4. ASSUME NEW t \in Threads, NEW r \in Ranges, Call(t, "lock", r) PROVE BthreadIdInv'
  BY <1>4, CallKeeps
<1>5. ASSUME NEW t \in Threads, Call(t, "join", 0) PROVE BthreadIdInv'
  BY <1>5, CallKeeps
<1>6. ASSUME NEW t \in Threads, Error(t) PROVE BthreadIdInv'
  BY <1>6, ErrorKeeps
<1>7. CASE UNCHANGED vars
  <2>1. /\ UNCHANGED <<live, first_ver, locked_ver, butex, join_butex, pending_q>>
        /\ UNCHANGED <<waiters, joiners, th, life, issued, uncounted, calls>>
    BY <1>7 DEF vars, meta, history
  <2>2. TypeOK' /\ VersionInv' /\ HolderInv' /\ IssuedInv' /\ ErrorsAreHandled'
    BY <2>1 DEF BthreadIdInv, TypeOK, VersionInv, HolderInv, IssuedInv, ErrorsAreHandled,
                Holders, At, has_version, unlockable_ver
  <2>3. QueueInv' /\ WaitInv' /\ WakeInv'
    BY <2>1 DEF BthreadIdInv, QueueInv, WaitInv, WakeInv, Counted, Wakes, At, has_version,
                contended_ver, unlockable_ver
  <2> QED BY <2>2, <2>3 DEF BthreadIdInv
<1> QED BY <1>1, <1>2, <1>3, <1>4, <1>5, <1>6, <1>7 DEF Next

-----------------------------------------------------------------------------
(* The theorems.                                                           *)

\* The inductive invariant: in particular the state keeps its types.
THEOREM BthreadIdInvariant == Spec => []BthreadIdInv
<1>1. BthreadIdInv /\ [Next]_vars => BthreadIdInv'
  BY NextKeeps
<1> QED BY InitInv, <1>1, PTL DEF Spec

(***************************************************************************)
(* bthread_id_lock is exclusive: two responses, or a response and the      *)
(* timeout, never use one Controller at once, and the lock is free when    *)
(* nobody has it.                                                          *)
(***************************************************************************)
THEOREM LockIsExclusive == Spec => []OneHolder
<1>1. BthreadIdInv => OneHolder
  <2> SUFFICES ASSUME BthreadIdInv PROVE OneHolder
    OBVIOUS
  <2>1. CASE butex = first_ver
    <3>1. Holders = {}
      BY <2>1 DEF BthreadIdInv, HolderInv, Holders
    <3> QED BY <2>1, <3>1, FS_EmptySet DEF OneHolder, BthreadIdInv
  <2>2. CASE butex # first_ver
    <3>1. PICK t \in Threads : t \in Holders
      BY <2>2 DEF BthreadIdInv, HolderInv, Holders
    <3>2. Holders = {t}
      BY <3>1 DEF BthreadIdInv, HolderInv, Holders
    <3> QED BY <2>2, <3>2, FS_Singleton DEF OneHolder, BthreadIdInv
  <2> QED BY <2>1, <2>2
<1> QED BY BthreadIdInvariant, <1>1, PTL

(***************************************************************************)
(* A late response of an RPC that is over never gets the Controller of the *)
(* RPC that has the slot now: who holds the lock has an id of the present  *)
(* life of the slot.  And bthread_id_join returns only when the RPC of its *)
(* id is over.                                                             *)
(***************************************************************************)
THEOREM StaleIdsAreRefused == Spec => []IdsKeepTheirLife
<1>1. BthreadIdInv => IdsKeepTheirLife
  <2> SUFFICES ASSUME BthreadIdInv PROVE IdsKeepTheirLife
    OBVIOUS
  <2>1. ASSUME NEW t \in Holders PROVE th[t].life = life /\ live
    <3>1. /\ live /\ has_version(th[t].ver)
          /\ [ver |-> th[t].ver, life |-> th[t].life] \in issued
      BY DEF BthreadIdInv, HolderInv, IssuedInv, Holders
    <3>2. th[t].ver >= first_ver
      BY <3>1, Numbers DEF has_version, Holders
    <3> QED BY <3>1, <3>2 DEF BthreadIdInv, IssuedInv
  <2>2. ASSUME NEW t \in Threads, At(t, "joined")
        PROVE  th[t].life < life \/ first_ver = locked_ver
    <3>1. /\ th[t].ver < first_ver
          /\ [ver |-> th[t].ver, life |-> th[t].life] \in issued
      BY <2>2 DEF BthreadIdInv, WaitInv, IssuedInv, At, contended_ver
    <3> QED BY <3>1 DEF BthreadIdInv, IssuedInv
  <2> QED BY <2>1, <2>2 DEF IdsKeepTheirLife
<1> QED BY BthreadIdInvariant, <1>1, PTL

(***************************************************************************)
(* A thread that went to sleep in bthread_id_lock on the contended_ver of  *)
(* the time is not forgotten, by whatever ranges, interruptions and        *)
(* destructions: the holder was told that it waits, or somebody is about   *)
(* to wake it.  It says nothing of those who slept on a locked_ver.        *)
(***************************************************************************)
THEOREM SleepersAreAnnounced == Spec => []CountedAreWoken
<1>1. BthreadIdInv => CountedAreWoken
  <2> SUFFICES ASSUME WakeInv, ToSet(waiters) \ uncounted # {} PROVE Announced
    BY DEF BthreadIdInv, CountedAreWoken
  <2>1. Counted # {} /\ waiters # <<>>
    BY ToSetIsRange, SmallRange DEF Counted
  <2>2. butex = contended_ver \/ \E t \in Threads : Wakes(t)
    BY <2>1 DEF WakeInv
  <2> QED BY <2>2 DEF Wakes, Announced, At
<1> QED BY BthreadIdInvariant, <1>1, PTL

(***************************************************************************)
(* bthread_id_unlock leaves no error behind: while the lock is free no     *)
(* error is pending.                                                       *)
(***************************************************************************)
THEOREM NoErrorIsLeftBehind == Spec => []ErrorsAreHandled
<1>1. BthreadIdInv => ErrorsAreHandled
  BY DEF BthreadIdInv
<1> QED BY BthreadIdInvariant, <1>1, PTL

=============================================================================
