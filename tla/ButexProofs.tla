---------------------------- MODULE ButexProofs ----------------------------
(***************************************************************************)
(* TLAPS proofs about Butex for any set of threads, butexes and values and *)
(* any number of calls: the types, the consistency of the waiter lists,    *)
(* and that at most one thread wakes a waiter.                             *)
(***************************************************************************)
EXTENDS Butex, ListLemmas


\* Updating a function at one argument keeps its type.
LEMMA ExceptType ==
    ASSUME NEW D, NEW S, NEW f \in [D -> S], NEW x, NEW y \in S
    PROVE  [f EXCEPT ![x] = y] \in [D -> S]
  OBVIOUS

\* unsleep_if_necessary keeps the types of what it changes.
LEMMA UnsleepType ==
    ASSUME TypeOK, NEW w, unsleep_if_necessary(w)
    PROVE  sleep_id' \in [Waiters -> BOOLEAN] /\ timer' \in [Waiters -> TimerStates]
<1>1. CASE UNCHANGED <<sleep_id, timer>>
  BY <1>1 DEF TypeOK
<1>2. CASE /\ sleep_id' = [sleep_id EXCEPT ![w] = FALSE]
           /\ timer' = [timer EXCEPT ![w] = "done"]
  BY <1>2 DEF TypeOK, TimerStates
<1> QED BY <1>1, <1>2 DEF unsleep_if_necessary

\* Making a bthread runnable keeps the token counts natural numbers.
LEMMA ReadyType ==
    ASSUME TypeOK, NEW a, NEW w \in Waiters,
           ready_to_run(w) \/ ready_to_run_general(a, w)
    PROVE  tokens' \in [Waiters -> Nat]
<1>1. CASE tokens' = [tokens EXCEPT ![w] = @ + 1]
  <2>1. tokens \in [Waiters -> Nat] /\ tokens[w] + 1 \in Nat
    BY DEF TypeOK
  <2> QED BY <1>1, <2>1, ExceptType
<1>2. CASE tokens' = tokens
  BY <1>2 DEF TypeOK
<1> QED BY <1>1, <1>2 DEF ready_to_run_general, ready_to_run

\* The locked section of the wake operations keeps the types.
LEMMA DrainType ==
    ASSUME TypeOK, NEW c \in Callers, NEW s \in Seq(Waiters),
           NEW rest \in Seq(Waiters), NEW next \in CallerPCs,
           Drain(c, s, rest, next)
    PROVE  TypeOK'
<1>1. waiters' \in [Butexes -> Seq(Waiters)] /\ todo' \in [Callers -> Seq(Waiters)]
  BY DEF TypeOK, Drain
<1>2. container' \in [Waiters -> Butexes \cup {NULL}]
  BY DEF TypeOK, Drain, Detached
<1>3. cpc' \in [Callers -> CallerPCs] /\ cb' \in [Callers -> Butexes \cup {NULL}]
  BY DEF TypeOK, Drain, CallerPCs
<1> QED BY <1>1, <1>2, <1>3
        DEF TypeOK, Drain, metaVars, threadVars, eraseVars

\* One locked section: caller c takes the waiters of s off its butex and leaves
\* those of rest.
Takes(c, s, rest, next) ==
    /\ Drain(c, s, rest, next)
    /\ IsInjective(s) /\ IsInjective(rest)
    /\ Range(s) \cup Range(rest) = Range(waiters[cb[c]])
    /\ Range(s) \cap Range(rest) = {}
    /\ next = "wake_one" => Len(s) \in {0, 1}

\* What the locked section of each wake operation takes off the butex, and what
\* it leaves there.
LEMMA DrainSplits ==
    ASSUME ButexInv, NEW c \in Callers,
           \/ butex_wake(c)
           \/ butex_wake_all(c)
           \/ \E excluded \in Excluded : butex_wake_except(c, excluded)
    PROVE  /\ cb[c] \in Butexes /\ cpc[c] \in WakeOps
           /\ \E s \in Seq(Waiters), rest \in Seq(Waiters),
                 next \in {"wake_one", "all_signal", "except_signal"} :
                 Takes(c, s, rest, next)
<1> DEFINE q == waiters[cb[c]]
<1>1. cb[c] \in Butexes /\ cpc[c] \in WakeOps
  BY DEF ButexInv, CallerInv, WakeOps, butex_wake, butex_wake_all,
         butex_wake_except
<1>2. q \in Seq(Waiters) /\ IsInjective(q)
  BY <1>1 DEF ButexInv, TypeOK, ContainerIsList
<1>3. /\ <<>> \in Seq(Waiters) /\ Range(<<>>) = {} /\ IsInjective(<<>>)
      /\ Len(<<>>) = 0
  BY SmallRange
<1>4. CASE butex_wake(c) /\ q = <<>>
  <2>1. Drain(c, <<>>, <<>>, "idle")
    BY <1>4 DEF butex_wake
  <2>2. Drain(c, <<>>, <<>>, "wake_one")
    BY <2>1 DEF Drain
  <2> QED BY <1>1, <1>3, <1>4, <2>2 DEF Takes
<1>5. CASE butex_wake(c) /\ q # <<>>
  <2> DEFINE s == <<Head(q)>>
  <2>1. Drain(c, s, Tail(q), "wake_one")
    BY <1>5 DEF butex_wake
  <2>2. /\ Tail(q) \in Seq(Waiters) /\ IsInjective(Tail(q))
        /\ Head(q) \in Waiters /\ Range(Tail(q)) = Range(q) \ {Head(q)}
        /\ Head(q) \in Range(q)
    BY <1>2, <1>5, TailRange, SmallRange
  <2>3. s \in Seq(Waiters) /\ Len(s) = 1 /\ IsInjective(s) /\ Range(s) = {Head(q)}
    BY <2>2 DEF IsInjective, Range
  <2> HIDE DEF q, s
  <2>4. /\ Range(s) \cup Range(Tail(q)) = Range(q)
        /\ Range(s) \cap Range(Tail(q)) = {}
    BY <2>2, <2>3
  <2> QED BY <1>1, <2>1, <2>2, <2>3, <2>4 DEF q, Takes
<1>6. CASE butex_wake_all(c)
  <2>1. Drain(c, q, <<>>, "all_signal")
    BY <1>6 DEF butex_wake_all
  <2> HIDE DEF q
  <2>2. Range(q) \cup Range(<<>>) = Range(q) /\ Range(q) \cap Range(<<>>) = {}
    BY <1>3
  <2> QED BY <1>1, <1>2, <1>3, <2>1, <2>2 DEF q, Takes
<1>7. ASSUME NEW e \in Excluded, butex_wake_except(c, e), e \in Range(q)
      PROVE  \E s \in Seq(Waiters), rest \in Seq(Waiters) :
                 /\ Drain(c, s, rest, "except_signal")
                 /\ IsInjective(s) /\ IsInjective(rest)
                 /\ Range(s) \cup Range(rest) = Range(q)
                 /\ Range(s) \cap Range(rest) = {}
  <2> DEFINE s == RemoveFirst(q, e)
             rest == <<e>>
  <2>1. Drain(c, s, rest, "except_signal")
    BY <1>7 DEF butex_wake_except
  <2>2. s \in Seq(Waiters) /\ IsInjective(s) /\ Range(s) = Range(q) \ {e}
    BY <1>2, RemoveFirstRange
  <2>3. e \in Waiters
    BY <1>2, <1>7, RangeOfSeq
  <2>4. rest \in Seq(Waiters) /\ IsInjective(rest) /\ Range(rest) = {e}
    BY <2>3 DEF IsInjective, Range
  <2> HIDE DEF q, s, rest
  <2>5. /\ Range(s) \cup Range(rest) = Range(q)
        /\ Range(s) \cap Range(rest) = {}
    BY <1>7, <2>2, <2>4
  <2> QED BY <2>1, <2>2, <2>4, <2>5
<1>8. ASSUME NEW e \in Excluded, butex_wake_except(c, e), e \notin Range(q)
      PROVE  \E s \in Seq(Waiters), rest \in Seq(Waiters) :
                 /\ Drain(c, s, rest, "except_signal")
                 /\ IsInjective(s) /\ IsInjective(rest)
                 /\ Range(s) \cup Range(rest) = Range(q)
                 /\ Range(s) \cap Range(rest) = {}
  <2> DEFINE s == RemoveFirst(q, e)
  <2>1. Drain(c, s, <<>>, "except_signal")
    BY <1>8 DEF butex_wake_except
  <2>2. s \in Seq(Waiters) /\ IsInjective(s) /\ Range(s) = Range(q) \ {e}
    BY <1>2, RemoveFirstRange
  <2> HIDE DEF q, s
  <2>3. /\ Range(s) \cup Range(<<>>) = Range(q)
        /\ Range(s) \cap Range(<<>>) = {}
    BY <1>3, <1>8, <2>2
  <2> QED BY <1>3, <2>1, <2>2, <2>3
<1> HIDE DEF q
<1>9. "wake_one" # "except_signal"
  OBVIOUS
<1> QED BY <1>1, <1>4, <1>5, <1>6, <1>7, <1>8, <1>9 DEF q, Takes

\* What a caller that still has waiters to wake holds.
LEMMA TodoFacts ==
    ASSUME ButexInv, NEW c \in Callers, cpc[c] \in WakingPCs
    PROVE  /\ todo[c] \in Seq(Waiters) /\ todo[c] # <<>> /\ IsInjective(todo[c])
           /\ Head(todo[c]) \in Range(todo[c]) /\ Last(todo[c]) \in Range(todo[c])
           /\ Range(todo[c]) \subseteq Waiters
           /\ cpc[c] \in ReadyingPCs => Range(todo[c]) \subseteq Bthreads
           /\ Len(todo[c]) = 1 => Range(todo[c]) = {Head(todo[c])}
<1>1. todo[c] \in Seq(Waiters) /\ todo[c] # <<>> /\ IsInjective(todo[c])
  BY DEF ButexInv, TypeOK, CallerInv
<1>2. Head(todo[c]) \in Range(todo[c]) /\ Last(todo[c]) \in Range(todo[c])
  BY <1>1, SmallRange, FrontRange
<1>3. Range(todo[c]) \subseteq Waiters
  BY <1>1, RangeOfSeq
<1>4. cpc[c] \in ReadyingPCs => Range(todo[c]) \subseteq Bthreads
  BY DEF ButexInv, CallerInv
<1>5. Len(todo[c]) = 1 => Range(todo[c]) = {Head(todo[c])}
  BY <1>1, SmallRange
<1> QED BY <1>1, <1>2, <1>3, <1>4, <1>5

\* A waiter that a thread is about to wake is in no list and in no run queue, was
\* not signalled, and sleeps.
LEMMA HeldWaiter ==
    ASSUME ButexInv, NEW x \in Waiters, Wakers(x) # {}
    PROVE  /\ container[x] = NULL /\ tokens[x] = 0 /\ Suspended(x)
           /\ x \in Pthreads => ~sig[x] /\ er[x] # "erased"
<1>1. tokens[x] \in Nat /\ tokens[x] <= 1 /\ tokens[x] # 1
  BY DEF ButexInv, TypeOK, AtMostOneWaker
<1> QED BY <1>1 DEF ButexInv, AtMostOneWaker, SignalInv, Released

\* One waker finishes with waiter x: whatever it was (a token for a bthread, none
\* for one that ready_to_run_general drops, a signal for a pthread), nothing
\* else about x and the other waiters changes.
LEMMA WakerDone ==
    ASSUME ButexInv, NEW x \in Waiters, Wakers(x) # {}, Wakers(x)' = {},
           \A w \in Waiters \ {x} : Wakers(w)' = Wakers(w),
           UNCHANGED <<container, pc>>,
           \A w \in Pthreads : er'[w] = er[w],
           \/ /\ tokens' = tokens \/ tokens' = [tokens EXCEPT ![x] = @ + 1]
              /\ sig' = sig
           \/ /\ tokens' = tokens
              /\ sig' = [sig EXCEPT ![x] = TRUE]
    PROVE  AtMostOneWaker' /\ SignalInv'
<1>1. /\ container[x] = NULL /\ tokens[x] = 0 /\ Suspended(x)
      /\ x \in Pthreads => ~sig[x] /\ er[x] # "erased"
  BY HeldWaiter
<1>2. tokens \in [Waiters -> Nat] /\ sig \in [Waiters -> BOOLEAN]
  BY DEF ButexInv, TypeOK
<1>3. \A w \in Waiters : Suspended(w)' = Suspended(w) /\ container'[w] = container[w]
  BY DEF Suspended
<1>4. \A w \in Waiters \ {x} : tokens'[w] = tokens[w] /\ sig'[w] = sig[w]
  BY <1>2
<1>5. tokens'[x] \in {0, 1}
  BY <1>1, <1>2
<1>6. ASSUME NEW w \in Waiters
      PROVE  /\ \A a, b \in Wakers(w)' : a = b
             /\ tokens'[w] <= 1
             /\ container'[w] # NULL => Wakers(w)' = {} /\ tokens'[w] = 0
             /\ tokens'[w] = 1 => Wakers(w)' = {}
             /\ container'[w] # NULL \/ Wakers(w)' # {} \/ tokens'[w] = 1
                   => Suspended(w)'
  <2>1. CASE w = x
    BY <1>1, <1>3, <1>5, <2>1
  <2>2. CASE w # x
    BY <1>3, <1>4, <2>2 DEF ButexInv, AtMostOneWaker
  <2> QED BY <2>1, <2>2
<1>7. ASSUME NEW w \in Pthreads
      PROVE  /\ pc'[w] \in {"p_lock", "p_append"} => ~sig'[w]
             /\ sig'[w] => Released(w)'
             /\ er'[w] = "erased" => Released(w)'
  <2>1. w \in Waiters
    BY DEF Waiters
  <2>2. CASE w = x
    BY <1>1, <1>3, <2>1, <2>2 DEF Released, Suspended
  <2>3. CASE w # x
    <3>1. sig'[w] = sig[w] /\ Released(w)' = Released(w)
      BY <1>3, <1>4, <2>1, <2>3 DEF Released
    <3> QED BY <3>1 DEF ButexInv, SignalInv
  <2> QED BY <2>2, <2>3
<1> QED BY <1>6, <1>7 DEF AtMostOneWaker, SignalInv

\* Caller c hands over waiter x, one of those in its private list.
LEMMA CallerGivesUp ==
    ASSUME ButexInv, NEW c \in Callers, NEW x \in Range(todo[c]), NEW rest,
           Range(rest) = Range(todo[c]) \ {x},
           todo' = [todo EXCEPT ![c] = rest],
           UNCHANGED <<container, pc, er, ew>>,
           \/ /\ tokens' = tokens \/ tokens' = [tokens EXCEPT ![x] = @ + 1]
              /\ sig' = sig
           \/ /\ tokens' = tokens
              /\ sig' = [sig EXCEPT ![x] = TRUE]
    PROVE  AtMostOneWaker' /\ SignalInv'
<1>1. todo \in [Callers -> Seq(Waiters)]
  BY DEF ButexInv, TypeOK
<1>2. x \in Waiters
  BY <1>1, RangeOfSeq
<1>3. c \in Wakers(x)
  BY DEF Wakers
<1>4. \A y \in Wakers(x) : y = c
  BY <1>2, <1>3 DEF ButexInv, AtMostOneWaker
<1>5. todo'[c] = rest /\ \A d \in Callers \ {c} : todo'[d] = todo[d]
  BY <1>1
<1>6. \A w : w # x => Wakers(w)' = Wakers(w)
  BY <1>5 DEF Wakers
<1>7. Wakers(x)' = {}
  <2>1. \A d \in Callers : x \notin Range(todo'[d])
    BY <1>4, <1>5 DEF Wakers
  <2>2. \A a \in Erasers : ~(er[a] = "wake" /\ ew[a] = x)
    <3>1. ASSUME NEW a \in Erasers, er[a] = "wake", ew[a] = x PROVE FALSE
      <4>1. a = c
        BY <1>4, <3>1 DEF Wakers
      <4>2. er[c] # "wake"
        BY SmallRange DEF ButexInv, EraserInv, CallerInv, WakingPCs
      <4> QED BY <3>1, <4>1, <4>2
    <3> QED BY <3>1
  <2> QED BY <2>1, <2>2 DEF Wakers
<1>8. \A w \in Pthreads : er'[w] = er[w]
  OBVIOUS
<1> QED BY <1>2, <1>3, <1>6, <1>7, <1>8, WakerDone

\* A thread that erased waiter x wakes it.
LEMMA EraserGivesUp ==
    ASSUME ButexInv, NEW a \in Erasers, EraseWake(a)
    PROVE  AtMostOneWaker' /\ SignalInv'
<1>1. ew[a] \in Waiters /\ a \notin Pthreads /\ er \in [Erasers -> EraserPCs]
  BY DEF EraseWake, ButexInv, EraserInv, TypeOK
<1> PICK x \in Waiters : x = ew[a]
  BY <1>1
<1>2. a \in Wakers(x)
  BY DEF Wakers, EraseWake
<1>3. \A y \in Wakers(x) : y = a
  BY <1>1, <1>2 DEF ButexInv, AtMostOneWaker
<1>4. /\ er'[a] = "erased" /\ \A d \in Erasers \ {a} : er'[d] = er[d]
      /\ UNCHANGED <<todo, ew, container, pc>>
  BY <1>1 DEF EraseWake, callerVars
<1>5. \A w : w # x => Wakers(w)' = Wakers(w)
  <2>1. ASSUME NEW w, w # x
        PROVE  {d \in Erasers : er'[d] = "wake" /\ ew'[d] = w}
                  = {d \in Erasers : er[d] = "wake" /\ ew[d] = w}
    BY <1>4, <2>1
  <2> QED BY <1>4, <2>1 DEF Wakers
<1>6. Wakers(x)' = {}
  <2>1. \A d \in Callers : x \notin Range(todo[d])
    <3>1. ASSUME NEW d \in Callers, x \in Range(todo[d]) PROVE FALSE
      <4>1. d = a
        BY <1>3, <3>1 DEF Wakers
      <4>2. er[d] # "wake"
        <5>1. todo[d] # <<>>
          BY <3>1, SmallRange
        <5> QED BY <5>1 DEF ButexInv, EraserInv, CallerInv, WakingPCs
      <4> QED BY <4>1, <4>2 DEF EraseWake
    <3> QED BY <3>1
  <2>2. \A d \in Erasers : er'[d] = "wake" => ew[d] # x
    BY <1>3, <1>4 DEF Wakers
  <2> QED BY <1>4, <2>1, <2>2 DEF Wakers
<1>7. \A w \in Pthreads : er'[w] = er[w]
  BY <1>1, <1>4 DEF Erasers
<1>8. \/ /\ tokens' = tokens \/ tokens' = [tokens EXCEPT ![x] = @ + 1]
         /\ sig' = sig
      \/ /\ tokens' = tokens
         /\ sig' = [sig EXCEPT ![x] = TRUE]
  BY DEF EraseWake, ready_to_run_general, ready_to_run, wakeup_pthread
<1>9. /\ Wakers(x) # {} /\ UNCHANGED <<container, pc>>
      /\ \A w \in Waiters \ {x} : Wakers(w)' = Wakers(w)
  BY <1>2, <1>4, <1>5
<1> QED BY <1>6, <1>7, <1>8, <1>9, WakerDone

\* The locked section of a wake operation makes the caller the only waker of the
\* waiters it takes.
LEMMA CallerTakes ==
    ASSUME ButexInv, NEW c \in Callers, cb[c] \in Butexes, cpc[c] \in WakeOps,
           NEW s \in Seq(Waiters), NEW rest \in Seq(Waiters), NEW next,
           Takes(c, s, rest, next)
    PROVE  AtMostOneWaker' /\ SignalInv'
<1>1. /\ \A w \in Waiters : container'[w] = IF w \in Range(s) THEN NULL
                                                              ELSE container[w]
      /\ UNCHANGED <<pc, tokens, sig, er, ew>>
  BY DEF Takes, Drain, Detached, threadVars, eraseVars
<1>2. todo[c] = <<>> /\ er[c] = "idle"
  BY DEF ButexInv, CallerInv, EraserInv, WakeOps, WakingPCs
<1>3. todo'[c] = s /\ \A d \in Callers \ {c} : todo'[d] = todo[d]
  BY DEF Takes, Drain, ButexInv, TypeOK
<1>4. \A w \in Range(s) : w \in Waiters /\ container[w] = cb[c]
  BY RangeOfSeq DEF Takes, ButexInv, ContainerIsList
<1>5. \A w \in Range(s) : /\ container[w] # NULL /\ Wakers(w) = {}
                          /\ tokens[w] = 0 /\ Suspended(w)
                          /\ w \in Pthreads => ~sig[w] /\ er[w] # "erased"
  <2>1. NULL \notin Butexes
    BY ButexAssumption
  <2> QED BY <1>4, <2>1 DEF ButexInv, AtMostOneWaker, SignalInv, Released
<1>6. Range(<<>>) = {}
  BY SmallRange
<1>7. \A w \in Range(s) : Wakers(w)' = {c}
  <2>1. ASSUME NEW w \in Range(s) PROVE Wakers(w)' = {c}
    <3>1. /\ \A d \in Callers : w \notin Range(todo[d])
          /\ \A a \in Erasers : ~(er[a] = "wake" /\ ew[a] = w)
      BY <1>5 DEF Wakers
    <3>2. /\ \A d \in Callers : w \in Range(todo'[d]) <=> d = c
          /\ \A a \in Erasers : ~(er'[a] = "wake" /\ ew'[a] = w)
      BY <1>1, <1>3, <3>1
    <3> QED BY <3>2 DEF Wakers
  <2> QED BY <2>1
<1>8. \A w : w \notin Range(s) => Wakers(w)' = Wakers(w)
  <2>1. ASSUME NEW w, w \notin Range(s)
        PROVE  \A d \in Callers : w \in Range(todo'[d]) <=> w \in Range(todo[d])
    BY <1>2, <1>3, <1>6, <2>1
  <2> QED BY <1>1, <2>1 DEF Wakers
<1>9. \A w : Suspended(w)' = Suspended(w)
  BY <1>1 DEF Suspended
<1>10. ASSUME NEW w \in Waiters
       PROVE  /\ \A a, b \in Wakers(w)' : a = b
              /\ tokens'[w] <= 1
              /\ container'[w] # NULL => Wakers(w)' = {} /\ tokens'[w] = 0
              /\ tokens'[w] = 1 => Wakers(w)' = {}
              /\ container'[w] # NULL \/ Wakers(w)' # {} \/ tokens'[w] = 1
                    => Suspended(w)'
  <2>1. CASE w \in Range(s)
    BY <1>1, <1>5, <1>7, <1>9, <2>1
  <2>2. CASE w \notin Range(s)
    BY <1>1, <1>8, <1>9, <2>2 DEF ButexInv, AtMostOneWaker
  <2> QED BY <2>1, <2>2
<1>11. ASSUME NEW w \in Pthreads
       PROVE  /\ pc'[w] \in {"p_lock", "p_append"} => ~sig'[w]
              /\ sig'[w] => Released(w)'
              /\ er'[w] = "erased" => Released(w)'
  <2>1. CASE w \in Range(s)
    BY <1>1, <1>5, <2>1
  <2>2. CASE w \notin Range(s)
    <3>1. Released(w)' = Released(w)
      BY <1>1, <1>8, <2>2 DEF Released, Waiters
    <3> QED BY <1>1, <3>1 DEF ButexInv, SignalInv
  <2> QED BY <2>1, <2>2
<1> QED BY <1>10, <1>11 DEF AtMostOneWaker, SignalInv

\* A waiter may stop sleeping once nobody can wake it.
LEMMA ReleasedMayLeave ==
    ASSUME AtMostOneWaker, NEW w \in Waiters,
           Suspended(w)' \/ (Released(w) /\ tokens[w] = 0),
           \A x \in Waiters \ {w} : Suspended(x)' = Suspended(x),
           \A x \in Waiters : Wakers(x)' = Wakers(x),
           UNCHANGED <<container, tokens>>
    PROVE  AtMostOneWaker'
<1> SUFFICES ASSUME NEW x \in Waiters
             PROVE  /\ \A a, b \in Wakers(x)' : a = b
                    /\ tokens'[x] <= 1
                    /\ container'[x] # NULL => Wakers(x)' = {} /\ tokens'[x] = 0
                    /\ tokens'[x] = 1 => Wakers(x)' = {}
                    /\ container'[x] # NULL \/ Wakers(x)' # {} \/ tokens'[x] = 1
                          => Suspended(x)'
  BY DEF AtMostOneWaker
<1>1. CASE x = w
  BY <1>1 DEF AtMostOneWaker, Released
<1>2. CASE x # w
  BY <1>2 DEF AtMostOneWaker
<1> QED BY <1>1, <1>2

\* The same for the three wake operations.
LEMMA OperationTakes ==
    ASSUME ButexInv, NEW c \in Callers,
           \/ butex_wake(c)
           \/ butex_wake_all(c)
           \/ \E excluded \in Excluded : butex_wake_except(c, excluded)
    PROVE  AtMostOneWaker' /\ SignalInv'
<1>1. cb[c] \in Butexes /\ cpc[c] \in WakeOps
  BY DrainSplits
<1>2. PICK s \in Seq(Waiters), rest \in Seq(Waiters),
           next \in {"wake_one", "all_signal", "except_signal"} :
           Takes(c, s, rest, next)
  BY DrainSplits
<1> QED BY <1>1, <1>2, CallerTakes


\* Every step keeps the types.
LEMMA TypeInductive ==
    ASSUME ButexInv, [Next]_vars
    PROVE  TypeOK'
<1> USE ButexAssumption DEF ButexInv, TypeOK, Waiters, Erasers,
           butexVars, recordVars, metaVars, threadVars, callerVars,
           eraseVars
<1>1. ASSUME NEW w \in Bthreads, NEW b \in Butexes, butex_wait(w, b)
       PROVE  TypeOK'
  <2>1. PICK timed \in BOOLEAN :
           /\ sleep_id' = [sleep_id EXCEPT ![w] = timed]
           /\ timer' = [timer EXCEPT ![w] = IF timed THEN "pending" ELSE "none"]
    BY <1>1 DEF butex_wait
  <2>2. sleep_id' \in [Waiters -> BOOLEAN]
    BY <2>1
  <2>3. timer' \in [Waiters -> TimerStates]
    BY <2>1 DEF TimerStates
  <2> QED BY <1>1, <2>2, <2>3 DEF butex_wait, WaiterPCs, WaiterStates
<1>2. ASSUME NEW w \in Pthreads, NEW b \in Butexes, butex_wait_from_pthread(w, b)
       PROVE  TypeOK'
  <2>1. PICK timed \in BOOLEAN : ptimeout' = [ptimeout EXCEPT ![w] = timed]
    BY <1>2 DEF butex_wait_from_pthread
  <2>2. ptimeout' \in [Waiters -> BOOLEAN]
    BY <2>1
  <2>3. container' \in [Waiters -> Butexes \cup {NULL}]
    BY <1>2 DEF butex_wait_from_pthread
  <2>4. (w \in TaskPthreads) \in BOOLEAN
    OBVIOUS
  <2>5. current_waiter' \in [Waiters -> BOOLEAN]
    BY <1>2, <2>4 DEF butex_wait_from_pthread
  <2> QED BY <1>2, <2>2, <2>3, <2>5 DEF butex_wait_from_pthread, WaiterPCs
<1>3. ASSUME NEW c \in Callers, NEW b \in Butexes, NEW op \in Ops, NEW v \in Values, CallWake(c, b, op, v)
       PROVE  TypeOK'
  BY <1>3 DEF CallWake, CallerPCs, WakeOps
<1>4. ASSUME NEW c \in Callers, NEW w \in Waiters, interrupt(c, w)
       PROVE  TypeOK'
  BY <1>4 DEF interrupt, CallerPCs
<1>5. ASSUME NEW w \in Bthreads, wait_for_butex(w) PROVE TypeOK'
  <2>1. pc' \in [Waiters -> WaiterPCs]
    BY <1>5 DEF wait_for_butex, WaiterPCs
  <2>2. waiter_state' \in [Waiters -> WaiterStates]
    BY <1>5 DEF wait_for_butex, WaiterStates
  <2>3. \/ waiter_lock' = waiter_lock
        \/ waiter_lock' = [waiter_lock EXCEPT ![butex[w]] = w]
    BY <1>5 DEF wait_for_butex
  <2>4. waiter_lock' \in [Butexes -> Waiters \cup {NULL}]
    <3>1. waiter_lock \in [Butexes -> Waiters \cup {NULL}] /\ w \in Waiters \cup {NULL}
      OBVIOUS
    <3> QED BY <2>3, <3>1, ExceptType
  <2> QED BY <1>5, <2>1, <2>2, <2>4 DEF wait_for_butex
<1>6. ASSUME NEW w \in Bthreads, Append_waiter(w, "append", "blocked")
       PROVE  TypeOK'
  BY <1>6, AppendRange DEF Append_waiter, WaiterPCs
<1>7. ASSUME NEW w \in Bthreads, CancelUnsleep(w) PROVE TypeOK'
  <2>1. sleep_id' \in [Waiters -> BOOLEAN] /\ timer' \in [Waiters -> TimerStates]
    BY <1>7, UnsleepType DEF CancelUnsleep
  <2> QED BY <1>7, <2>1 DEF CancelUnsleep, WaiterPCs, CallerPCs
<1>8. ASSUME NEW w \in Bthreads, CancelReady(w) PROVE TypeOK'
  BY <1>8 DEF CancelReady, ready_to_run, WaiterPCs
<1>9. ASSUME NEW w \in Bthreads, Resume(w) PROVE TypeOK'
  BY <1>9 DEF Resume, WaiterPCs
<1>10. ASSUME NEW w \in Bthreads, SpinTimer(w) PROVE TypeOK'
  <2>1. sleep_id' \in [Waiters -> BOOLEAN] /\ timer' \in [Waiters -> TimerStates]
    BY <1>10, UnsleepType DEF SpinTimer
  <2> QED BY <1>10, <2>1 DEF SpinTimer, WaiterPCs, CallerPCs
<1>11. ASSUME NEW w \in Bthreads, SpinWaiter(w, "spin", "ret") PROVE TypeOK'
  BY <1>11 DEF SpinWaiter, WaiterPCs
<1>12. ASSUME NEW w \in Bthreads, Return(w, "ret") PROVE TypeOK'
  BY <1>12 DEF Return, WaiterPCs
<1>13. ASSUME NEW w \in Pthreads, PthreadCheck(w) PROVE TypeOK'
  <2>1. pc' \in [Waiters -> WaiterPCs]
    BY <1>13 DEF PthreadCheck, WaiterPCs
  <2>2. interrupted' \in [Waiters -> BOOLEAN]
    BY <1>13 DEF PthreadCheck
  <2>3. \/ waiter_lock' = waiter_lock
        \/ waiter_lock' = [waiter_lock EXCEPT ![butex[w]] = w]
    BY <1>13 DEF PthreadCheck
  <2>4. waiter_lock' \in [Butexes -> Waiters \cup {NULL}]
    <3>1. waiter_lock \in [Butexes -> Waiters \cup {NULL}] /\ w \in Waiters \cup {NULL}
      OBVIOUS
    <3> QED BY <2>3, <3>1, ExceptType
  <2> QED BY <1>13, <2>1, <2>2, <2>4 DEF PthreadCheck
<1>14. ASSUME NEW w \in Pthreads, Append_waiter(w, "p_append", "p_futex")
       PROVE  TypeOK'
  BY <1>14, AppendRange DEF Append_waiter, WaiterPCs
<1>15. ASSUME NEW w \in Pthreads, FutexSignalled(w) PROVE TypeOK'
  BY <1>15 DEF FutexSignalled, WaiterPCs
<1>16. ASSUME NEW w \in Pthreads, FutexTimeout(w) PROVE TypeOK'
  BY <1>16 DEF FutexTimeout, WaiterPCs, EraserPCs
<1>17. ASSUME NEW w \in Pthreads, FutexErased(w) PROVE TypeOK'
  <2>1. pc' \in [Waiters -> WaiterPCs]
    BY <1>17 DEF FutexErased, WaiterPCs
  <2>2. ptimeout' \in [Waiters -> BOOLEAN]
    BY <1>17 DEF FutexErased
  <2> QED BY <1>17, <2>1, <2>2 DEF FutexErased, EraseReturns, EraserPCs
<1>18. ASSUME NEW w \in Pthreads, PthreadReturn(w) PROVE TypeOK'
  BY <1>18 DEF PthreadReturn, WaiterPCs
<1>19. ASSUME NEW w \in Pthreads, SpinWaiter(w, "p_exit", "p_ret")
       PROVE  TypeOK'
  BY <1>19 DEF SpinWaiter, WaiterPCs
<1>20. ASSUME NEW w \in Pthreads, Return(w, "p_ret") PROVE TypeOK'
  BY <1>20 DEF Return, WaiterPCs
<1>21. ASSUME NEW a \in Erasers, EraseLoad(a) PROVE TypeOK'
  BY <1>21 DEF EraseLoad, EraserPCs, EraserInv
<1>22. ASSUME NEW a \in Erasers, EraseLocked(a) PROVE TypeOK'
  <2>1. eb[a] \in Butexes /\ ew[a] \in Waiters
    BY <1>22 DEF EraseLocked, EraserInv
  <2>2. RemoveFirst(waiters[eb[a]], ew[a]) \in Seq(Waiters)
    BY <2>1, RemoveFirstRange DEF ContainerIsList
  <2>3. er' \in [Erasers -> EraserPCs]
    BY <1>22 DEF EraseLocked, EraserPCs
  <2>4. CASE container[ew[a]] = eb[a]
    <3>1. waiters' \in [Butexes -> Seq(Waiters)]
      <4>1. waiters' = [waiters EXCEPT ![eb[a]] =
                          RemoveFirst(waiters[eb[a]], ew[a])]
        BY <1>22, <2>4 DEF EraseLocked
      <4>2. waiters \in [Butexes -> Seq(Waiters)]
        OBVIOUS
      <4> QED BY <2>2, <4>1, <4>2, ExceptType
    <3>2. waiter_state' \in [Waiters -> WaiterStates]
      <4>1. PICK y \in WaiterStates :
               waiter_state' = [waiter_state EXCEPT ![ew[a]] = y]
        BY <1>22, <2>1, <2>4 DEF EraseLocked, WaiterStates
      <4>2. waiter_state \in [Waiters -> WaiterStates]
        OBVIOUS
      <4> QED BY <4>1, <4>2, ExceptType
    <3>3. container' \in [Waiters -> Butexes \cup {NULL}]
      BY <1>22, <2>4 DEF EraseLocked
    <3> QED BY <1>22, <2>3, <3>1, <3>2, <3>3 DEF EraseLocked
  <2>5. CASE container[ew[a]] # eb[a]
    BY <1>22, <2>3, <2>5 DEF EraseLocked
  <2> QED BY <2>4, <2>5
<1>23. ASSUME NEW a \in Erasers, EraseWake(a) PROVE TypeOK'
  <2>1. tokens' \in [Waiters -> Nat]
    BY <1>23, ReadyType DEF EraseWake, EraserInv
  <2>2. sig' \in [Waiters -> BOOLEAN]
    BY <1>23 DEF EraseWake, wakeup_pthread
  <2> QED BY <1>23, <2>1, <2>2 DEF EraseWake, EraserPCs
<1>24. ASSUME NEW w \in Bthreads, TimerFire(w) PROVE TypeOK'
  BY <1>24 DEF TimerFire, TimerStates, EraserPCs
<1>25. ASSUME TimerDone PROVE TypeOK'
  BY <1>25 DEF TimerDone, EraseReturns, TimerStates, EraserPCs
<1>26. ASSUME NEW c \in Callers, butex_wake(c) PROVE TypeOK'
  <2>1. cb[c] \in Butexes
    BY <1>26 DEF butex_wake, CallerInv, WakeOps
  <2>2. waiters[cb[c]] \in Seq(Waiters) /\ IsInjective(waiters[cb[c]])
    BY <2>1 DEF ContainerIsList
  <2>3. "wake_one" \in CallerPCs /\ "idle" \in CallerPCs
    BY DEF CallerPCs
  <2>4. CASE waiters[cb[c]] = <<>>
    <3>1. Drain(c, <<>>, <<>>, "idle") /\ <<>> \in Seq(Waiters)
      BY <1>26, <2>4 DEF butex_wake
    <3> QED BY <2>3, <3>1, DrainType
  <2>5. CASE waiters[cb[c]] # <<>>
    <3>1. <<Head(waiters[cb[c]])>> \in Seq(Waiters)
          /\ Tail(waiters[cb[c]]) \in Seq(Waiters)
      BY <2>2, <2>5, TailRange
    <3>2. Drain(c, <<Head(waiters[cb[c]])>>, Tail(waiters[cb[c]]), "wake_one")
      BY <1>26, <2>5 DEF butex_wake
    <3> QED BY <2>3, <3>1, <3>2, DrainType
  <2> QED BY <2>4, <2>5
<1>27. ASSUME NEW c \in Callers, butex_wake_all(c) PROVE TypeOK'
  <2>1. cb[c] \in Butexes
    BY <1>27 DEF butex_wake_all, CallerInv, WakeOps
  <2>2. waiters[cb[c]] \in Seq(Waiters) /\ IsInjective(waiters[cb[c]])
    BY <2>1 DEF ContainerIsList
  <2>3. "all_signal" \in CallerPCs /\ <<>> \in Seq(Waiters)
    BY DEF CallerPCs
  <2> QED BY <1>27, <2>2, <2>3, DrainType DEF butex_wake_all
<1>28. ASSUME NEW c \in Callers, NEW excluded \in Excluded, butex_wake_except(c, excluded)
       PROVE  TypeOK'
  <2>1. cb[c] \in Butexes
    BY <1>28 DEF butex_wake_except, CallerInv, WakeOps
  <2>2. waiters[cb[c]] \in Seq(Waiters) /\ IsInjective(waiters[cb[c]])
    BY <2>1 DEF ContainerIsList
  <2>3. RemoveFirst(waiters[cb[c]], excluded) \in Seq(Waiters)
    BY <2>2, RemoveFirstRange
  <2>4. (IF excluded \in Range(waiters[cb[c]]) THEN <<excluded>> ELSE <<>>)
           \in Seq(Waiters)
    <3>1. Range(waiters[cb[c]]) \subseteq Waiters
      BY <2>2, RangeOfSeq
    <3>2. CASE excluded \in Range(waiters[cb[c]])
      <4>1. excluded \in Waiters
        BY <3>1, <3>2
      <4> QED BY <3>2, <4>1
    <3> QED BY <3>2
  <2>5. "except_signal" \in CallerPCs
    BY DEF CallerPCs
  <2> QED BY <1>28, <2>3, <2>4, <2>5, DrainType DEF butex_wake_except
<1>29. ASSUME NEW c \in Callers, WakeOnePthread(c) PROVE TypeOK'
  BY <1>29 DEF WakeOnePthread, wakeup_pthread, CallerAt, CallerPCs
<1>30. ASSUME NEW c \in Callers, WakeOneBthread(c) PROVE TypeOK'
  <2>1. sleep_id' \in [Waiters -> BOOLEAN] /\ timer' \in [Waiters -> TimerStates]
    BY <1>30, UnsleepType DEF WakeOneBthread, UnsleepNext
  <2> QED BY <1>30, <2>1 DEF WakeOneBthread, UnsleepNext, WaiterPCs, CallerPCs
<1>31. ASSUME NEW c \in Callers, WakeFirst(c) PROVE TypeOK'
  <2>1. todo[c] \in Seq(Waiters) /\ todo[c] # <<>>
    BY <1>31 DEF WakeFirst, CallerInv, WakingPCs
  <2>2. Head(todo[c]) \in Waiters
    BY <2>1, HeadTailProperties
  <2>3. tokens' \in [Waiters -> Nat]
    BY <1>31, <2>2, ReadyType DEF WakeFirst
  <2> QED BY <1>31, <2>3 DEF WakeFirst, CallerAt, CallerPCs
<1>32. ASSUME NEW c \in Callers, SignalPthread(c) PROVE TypeOK'
  <2>1. PICK i \in 1..Len(todo[c]) :
           /\ wakeup_pthread(todo[c][i])
           /\ CallerAt(c, IF RemoveAt(todo[c], i) = <<>> THEN "idle" ELSE cpc[c],
                       RemoveAt(todo[c], i))
    BY <1>32 DEF SignalPthread
  <2>2. RemoveAt(todo[c], i) \in Seq(Waiters)
    BY RemoveAtElements
  <2> QED BY <1>32, <2>1, <2>2 DEF SignalPthread, wakeup_pthread, CallerAt, CallerPCs
<1>33. ASSUME NEW c \in Callers, UnsleepFirst(c) PROVE TypeOK'
  <2>1. sleep_id' \in [Waiters -> BOOLEAN] /\ timer' \in [Waiters -> TimerStates]
    BY <1>33, UnsleepType DEF UnsleepFirst, UnsleepNext
  <2> QED BY <1>33, <2>1 DEF UnsleepFirst, UnsleepNext, WaiterPCs, CallerPCs
<1>34. ASSUME NEW c \in Callers, UnsleepTail(c) PROVE TypeOK'
  <2>1. sleep_id' \in [Waiters -> BOOLEAN] /\ timer' \in [Waiters -> TimerStates]
    BY <1>34, UnsleepType DEF UnsleepTail, UnsleepNext
  <2> QED BY <1>34, <2>1 DEF UnsleepTail, UnsleepNext, WaiterPCs, CallerPCs
<1>35. ASSUME NEW c \in Callers, ReadyTail(c) PROVE TypeOK'
  <2>1. todo[c] \in Seq(Waiters) /\ todo[c] # <<>> /\ IsInjective(todo[c])
    BY <1>35 DEF ReadyTail, CallerInv, WakingPCs
  <2>2. Front(todo[c]) \in Seq(Waiters) /\ Last(todo[c]) \in Waiters
    BY <2>1, FrontRange, RangeOfSeq
  <2>3. tokens' \in [Waiters -> Nat]
    BY <1>35, <2>2, ReadyType DEF ReadyTail
  <2>4. cpc' \in [Callers -> CallerPCs]
    BY <1>35 DEF ReadyTail, CallerAt, CallerPCs
  <2> QED BY <1>35, <2>2, <2>3, <2>4 DEF ReadyTail, CallerAt
<1>36. ASSUME NEW c \in Callers, SetInterrupted(c) PROVE TypeOK'
  <2>1. cpc' \in [Callers -> CallerPCs] /\ ew' \in [Erasers -> Waiters \cup {NULL}]
    BY <1>36 DEF SetInterrupted, CallerPCs
  <2>2. er' \in [Erasers -> EraserPCs]
    BY <1>36 DEF SetInterrupted, EraserPCs
  <2> QED BY <1>36, <2>1, <2>2 DEF SetInterrupted
<1>37. ASSUME NEW c \in Callers, set_butex_waiter(c) PROVE TypeOK'
  BY <1>37 DEF set_butex_waiter, EraseReturns, CallerPCs, EraserPCs
<1>38. ASSUME UNCHANGED vars PROVE TypeOK'
  BY <1>38 DEF vars
<1> QED BY <1>1, <1>2, <1>3, <1>4, <1>5, <1>6, <1>7, <1>8, <1>9, <1>10, <1>11,
           <1>12, <1>13, <1>14, <1>15, <1>16, <1>17, <1>18, <1>19, <1>20,
           <1>21, <1>22, <1>23, <1>24, <1>25, <1>26, <1>27, <1>28, <1>29,
           <1>30, <1>31, <1>32, <1>33, <1>34, <1>35, <1>36, <1>37, <1>38
       DEF Next, Call, BthreadStep, PthreadStep, EraseStep, WakeStep,
            InterruptStep

\* Every step keeps bthreads and pthreads at their own program points.
LEMMA ThreadInductive ==
    ASSUME ButexInv, [Next]_vars
    PROVE  ThreadInv'
<1> USE ButexAssumption DEF ButexInv, TypeOK, Waiters, Erasers,
           butexVars, recordVars, metaVars, threadVars, callerVars,
           eraseVars,
           ThreadInv, BthreadPCs, PthreadPCs
<1>1. ASSUME NEW w \in Bthreads, NEW b \in Butexes, butex_wait(w, b)
       PROVE  ThreadInv'
  BY <1>1 DEF butex_wait
<1>2. ASSUME NEW w \in Pthreads, NEW b \in Butexes, butex_wait_from_pthread(w, b)
       PROVE  ThreadInv'
  BY <1>2 DEF butex_wait_from_pthread
<1>3. ASSUME NEW c \in Callers, NEW b \in Butexes, NEW op \in Ops, NEW v \in Values, CallWake(c, b, op, v)
       PROVE  ThreadInv'
  BY <1>3 DEF CallWake
<1>4. ASSUME NEW c \in Callers, NEW w \in Waiters, interrupt(c, w)
       PROVE  ThreadInv'
  BY <1>4 DEF interrupt
<1>5. ASSUME NEW w \in Bthreads, wait_for_butex(w) PROVE ThreadInv'
  <2>1. \/ pc' = [pc EXCEPT ![w] = "cancel"]
        \/ pc' = [pc EXCEPT ![w] = "append"]
    BY <1>5 DEF wait_for_butex
  <2>2. tokens' = tokens
    BY <1>5 DEF wait_for_butex
  <2>3. CASE pc' = [pc EXCEPT ![w] = "cancel"]
    BY <2>2, <2>3
  <2>4. CASE pc' = [pc EXCEPT ![w] = "append"]
    BY <2>2, <2>4
  <2> QED BY <2>1, <2>3, <2>4
<1>6. ASSUME NEW w \in Bthreads, Append_waiter(w, "append", "blocked")
       PROVE  ThreadInv'
  BY <1>6 DEF Append_waiter
<1>7. ASSUME NEW w \in Bthreads, CancelUnsleep(w) PROVE ThreadInv'
  BY <1>7 DEF CancelUnsleep
<1>8. ASSUME NEW w \in Bthreads, CancelReady(w) PROVE ThreadInv'
  BY <1>8 DEF CancelReady, ready_to_run
<1>9. ASSUME NEW w \in Bthreads, Resume(w) PROVE ThreadInv'
  BY <1>9 DEF Resume
<1>10. ASSUME NEW w \in Bthreads, SpinTimer(w) PROVE ThreadInv'
  BY <1>10 DEF SpinTimer
<1>11. ASSUME NEW w \in Bthreads, SpinWaiter(w, "spin", "ret")
       PROVE  ThreadInv'
  BY <1>11 DEF SpinWaiter
<1>12. ASSUME NEW w \in Bthreads, Return(w, "ret") PROVE ThreadInv'
  BY <1>12 DEF Return
<1>13. ASSUME NEW w \in Pthreads, PthreadCheck(w) PROVE ThreadInv'
  <2>1. \/ pc' = [pc EXCEPT ![w] = "p_exit"]
        \/ pc' = [pc EXCEPT ![w] = "p_append"]
    BY <1>13 DEF PthreadCheck
  <2>2. tokens' = tokens
    BY <1>13 DEF PthreadCheck
  <2>3. CASE pc' = [pc EXCEPT ![w] = "p_exit"]
    BY <2>2, <2>3
  <2>4. CASE pc' = [pc EXCEPT ![w] = "p_append"]
    BY <2>2, <2>4
  <2> QED BY <2>1, <2>3, <2>4
<1>14. ASSUME NEW w \in Pthreads, Append_waiter(w, "p_append", "p_futex")
       PROVE  ThreadInv'
  BY <1>14 DEF Append_waiter
<1>15. ASSUME NEW w \in Pthreads, FutexSignalled(w) PROVE ThreadInv'
  BY <1>15 DEF FutexSignalled
<1>16. ASSUME NEW w \in Pthreads, FutexTimeout(w) PROVE ThreadInv'
  BY <1>16 DEF FutexTimeout
<1>17. ASSUME NEW w \in Pthreads, FutexErased(w) PROVE ThreadInv'
  <2>1. \/ pc' = [pc EXCEPT ![w] = "p_exit"]
        \/ pc' = [pc EXCEPT ![w] = "p_futex"]
    BY <1>17 DEF FutexErased
  <2>2. tokens' = tokens
    BY <1>17 DEF FutexErased
  <2>3. CASE pc' = [pc EXCEPT ![w] = "p_exit"]
    BY <2>2, <2>3
  <2>4. CASE pc' = [pc EXCEPT ![w] = "p_futex"]
    BY <2>2, <2>4
  <2> QED BY <2>1, <2>3, <2>4
<1>18. ASSUME NEW w \in Pthreads, PthreadReturn(w) PROVE ThreadInv'
  BY <1>18 DEF PthreadReturn
<1>19. ASSUME NEW w \in Pthreads, SpinWaiter(w, "p_exit", "p_ret")
       PROVE  ThreadInv'
  BY <1>19 DEF SpinWaiter
<1>20. ASSUME NEW w \in Pthreads, Return(w, "p_ret") PROVE ThreadInv'
  BY <1>20 DEF Return
<1>21. ASSUME NEW a \in Erasers, EraseLoad(a) PROVE ThreadInv'
  BY <1>21 DEF EraseLoad
<1>22. ASSUME NEW a \in Erasers, EraseLocked(a) PROVE ThreadInv'
  BY <1>22 DEF EraseLocked
<1>23. ASSUME NEW a \in Erasers, EraseWake(a) PROVE ThreadInv'
  BY <1>23 DEF EraseWake, ready_to_run_general, ready_to_run, wakeup_pthread
<1>24. ASSUME NEW w \in Bthreads, TimerFire(w) PROVE ThreadInv'
  BY <1>24 DEF TimerFire
<1>25. ASSUME TimerDone PROVE ThreadInv'
  BY <1>25 DEF TimerDone, EraseReturns
<1>26. ASSUME NEW c \in Callers, butex_wake(c) PROVE ThreadInv'
  BY <1>26 DEF butex_wake, Drain
<1>27. ASSUME NEW c \in Callers, butex_wake_all(c) PROVE ThreadInv'
  BY <1>27 DEF butex_wake_all, Drain
<1>28. ASSUME NEW c \in Callers, NEW excluded \in Excluded, butex_wake_except(c, excluded)
       PROVE  ThreadInv'
  BY <1>28 DEF butex_wake_except, Drain
<1>29. ASSUME NEW c \in Callers, WakeOnePthread(c) PROVE ThreadInv'
  BY <1>29 DEF WakeOnePthread, wakeup_pthread, CallerAt
<1>30. ASSUME NEW c \in Callers, WakeOneBthread(c) PROVE ThreadInv'
  BY <1>30 DEF WakeOneBthread, UnsleepNext
<1>31. ASSUME NEW c \in Callers, WakeFirst(c) PROVE ThreadInv'
  <2>1. todo[c] \in Seq(Waiters) /\ todo[c] # <<>>
        /\ cpc[c] \in ReadyingPCs
    BY <1>31 DEF WakeFirst, CallerInv, WakingPCs, ReadyingPCs
  <2>2. Head(todo[c]) \in Bthreads
    BY <2>1, SmallRange DEF CallerInv
  <2> QED BY <1>31, <2>2 DEF WakeFirst, ready_to_run
<1>32. ASSUME NEW c \in Callers, SignalPthread(c) PROVE ThreadInv'
  BY <1>32 DEF SignalPthread, wakeup_pthread, CallerAt
<1>33. ASSUME NEW c \in Callers, UnsleepFirst(c) PROVE ThreadInv'
  BY <1>33 DEF UnsleepFirst, UnsleepNext
<1>34. ASSUME NEW c \in Callers, UnsleepTail(c) PROVE ThreadInv'
  BY <1>34 DEF UnsleepTail, UnsleepNext
<1>35. ASSUME NEW c \in Callers, ReadyTail(c) PROVE ThreadInv'
  <2>1. todo[c] \in Seq(Waiters) /\ todo[c] # <<>> /\ IsInjective(todo[c])
        /\ cpc[c] \in ReadyingPCs
    BY <1>35 DEF ReadyTail, CallerInv, WakingPCs, ReadyingPCs
  <2>2. Last(todo[c]) \in Bthreads
    BY <2>1, FrontRange DEF CallerInv
  <2>3. tokens' = tokens \/ tokens' = [tokens EXCEPT ![Last(todo[c])] = @ + 1]
    BY <1>35 DEF ReadyTail, ready_to_run_general, ready_to_run
  <2> QED BY <1>35, <2>2, <2>3 DEF ReadyTail
<1>36. ASSUME NEW c \in Callers, SetInterrupted(c) PROVE ThreadInv'
  BY <1>36 DEF SetInterrupted
<1>37. ASSUME NEW c \in Callers, set_butex_waiter(c) PROVE ThreadInv'
  BY <1>37 DEF set_butex_waiter, EraseReturns
<1>38. ASSUME UNCHANGED vars PROVE ThreadInv'
  BY <1>38 DEF vars
<1> QED BY <1>1, <1>2, <1>3, <1>4, <1>5, <1>6, <1>7, <1>8, <1>9, <1>10, <1>11,
           <1>12, <1>13, <1>14, <1>15, <1>16, <1>17, <1>18, <1>19, <1>20,
           <1>21, <1>22, <1>23, <1>24, <1>25, <1>26, <1>27, <1>28, <1>29,
           <1>30, <1>31, <1>32, <1>33, <1>34, <1>35, <1>36, <1>37, <1>38
       DEF Next, Call, BthreadStep, PthreadStep, EraseStep, WakeStep,
            InterruptStep

\* Every step keeps the local state of erase_from_butex consistent.
LEMMA EraserInductive ==
    ASSUME ButexInv, [Next]_vars
    PROVE  EraserInv'
<1> USE ButexAssumption DEF ButexInv, TypeOK, Waiters, Erasers,
           butexVars, recordVars, metaVars, threadVars, callerVars,
           eraseVars,
           EraserInv, WakeOps, CallerPCs
<1>1. ASSUME NEW w \in Bthreads, NEW b \in Butexes, butex_wait(w, b)
       PROVE  EraserInv'
  BY <1>1 DEF butex_wait
<1>2. ASSUME NEW w \in Pthreads, NEW b \in Butexes, butex_wait_from_pthread(w, b)
       PROVE  EraserInv'
  BY <1>2 DEF butex_wait_from_pthread
<1>3. ASSUME NEW c \in Callers, NEW b \in Butexes, NEW op \in Ops, NEW v \in Values, CallWake(c, b, op, v)
       PROVE  EraserInv'
  BY <1>3 DEF CallWake
<1>4. ASSUME NEW c \in Callers, NEW w \in Waiters, interrupt(c, w)
       PROVE  EraserInv'
  BY <1>4 DEF interrupt
<1>5. ASSUME NEW w \in Bthreads, wait_for_butex(w) PROVE EraserInv'
  BY <1>5 DEF wait_for_butex
<1>6. ASSUME NEW w \in Bthreads, Append_waiter(w, "append", "blocked")
       PROVE  EraserInv'
  BY <1>6 DEF Append_waiter
<1>7. ASSUME NEW w \in Bthreads, CancelUnsleep(w) PROVE EraserInv'
  BY <1>7 DEF CancelUnsleep
<1>8. ASSUME NEW w \in Bthreads, CancelReady(w) PROVE EraserInv'
  BY <1>8 DEF CancelReady, ready_to_run
<1>9. ASSUME NEW w \in Bthreads, Resume(w) PROVE EraserInv'
  BY <1>9 DEF Resume
<1>10. ASSUME NEW w \in Bthreads, SpinTimer(w) PROVE EraserInv'
  BY <1>10 DEF SpinTimer
<1>11. ASSUME NEW w \in Bthreads, SpinWaiter(w, "spin", "ret")
       PROVE  EraserInv'
  BY <1>11 DEF SpinWaiter
<1>12. ASSUME NEW w \in Bthreads, Return(w, "ret") PROVE EraserInv'
  BY <1>12 DEF Return
<1>13. ASSUME NEW w \in Pthreads, PthreadCheck(w) PROVE EraserInv'
  BY <1>13 DEF PthreadCheck
<1>14. ASSUME NEW w \in Pthreads, Append_waiter(w, "p_append", "p_futex")
       PROVE  EraserInv'
  BY <1>14 DEF Append_waiter
<1>15. ASSUME NEW w \in Pthreads, FutexSignalled(w) PROVE EraserInv'
  BY <1>15 DEF FutexSignalled
<1>16. ASSUME NEW w \in Pthreads, FutexTimeout(w) PROVE EraserInv'
  BY <1>16 DEF FutexTimeout
<1>17. ASSUME NEW w \in Pthreads, FutexErased(w) PROVE EraserInv'
  BY <1>17 DEF FutexErased, EraseReturns
<1>18. ASSUME NEW w \in Pthreads, PthreadReturn(w) PROVE EraserInv'
  BY <1>18 DEF PthreadReturn
<1>19. ASSUME NEW w \in Pthreads, SpinWaiter(w, "p_exit", "p_ret")
       PROVE  EraserInv'
  BY <1>19 DEF SpinWaiter
<1>20. ASSUME NEW w \in Pthreads, Return(w, "p_ret") PROVE EraserInv'
  BY <1>20 DEF Return
<1>21. ASSUME NEW a \in Erasers, EraseLoad(a) PROVE EraserInv'
  BY <1>21 DEF EraseLoad
<1>22. ASSUME NEW a \in Erasers, EraseLocked(a) PROVE EraserInv'
  BY <1>22 DEF EraseLocked
<1>23. ASSUME NEW a \in Erasers, EraseWake(a) PROVE EraserInv'
  BY <1>23 DEF EraseWake, ready_to_run_general, ready_to_run, wakeup_pthread
<1>24. ASSUME NEW w \in Bthreads, TimerFire(w) PROVE EraserInv'
  BY <1>24 DEF TimerFire
<1>25. ASSUME TimerDone PROVE EraserInv'
  BY <1>25 DEF TimerDone, EraseReturns
<1>26. ASSUME NEW c \in Callers, butex_wake(c) PROVE EraserInv'
  BY <1>26 DEF butex_wake, Drain
<1>27. ASSUME NEW c \in Callers, butex_wake_all(c) PROVE EraserInv'
  BY <1>27 DEF butex_wake_all, Drain
<1>28. ASSUME NEW c \in Callers, NEW excluded \in Excluded, butex_wake_except(c, excluded)
       PROVE  EraserInv'
  BY <1>28 DEF butex_wake_except, Drain
<1>29. ASSUME NEW c \in Callers, WakeOnePthread(c) PROVE EraserInv'
  BY <1>29 DEF WakeOnePthread, wakeup_pthread, CallerAt
<1>30. ASSUME NEW c \in Callers, WakeOneBthread(c) PROVE EraserInv'
  BY <1>30 DEF WakeOneBthread, UnsleepNext
<1>31. ASSUME NEW c \in Callers, WakeFirst(c) PROVE EraserInv'
  BY <1>31 DEF WakeFirst, ready_to_run, CallerAt
<1>32. ASSUME NEW c \in Callers, SignalPthread(c) PROVE EraserInv'
  BY <1>32 DEF SignalPthread, wakeup_pthread, CallerAt
<1>33. ASSUME NEW c \in Callers, UnsleepFirst(c) PROVE EraserInv'
  BY <1>33 DEF UnsleepFirst, UnsleepNext
<1>34. ASSUME NEW c \in Callers, UnsleepTail(c) PROVE EraserInv'
  BY <1>34 DEF UnsleepTail, UnsleepNext
<1>35. ASSUME NEW c \in Callers, ReadyTail(c) PROVE EraserInv'
  BY <1>35 DEF ReadyTail, ready_to_run_general, ready_to_run, CallerAt
<1>36. ASSUME NEW c \in Callers, SetInterrupted(c) PROVE EraserInv'
  <2>1. c \notin Pthreads /\ ew[c] \in Waiters /\ er[c] = "idle"
    BY <1>36 DEF SetInterrupted
  <2>2. CASE cpc[c] = "int_flag"
    BY <1>36, <2>1, <2>2 DEF SetInterrupted
  <2>3. CASE cpc[c] = "int_flag_only"
    <3>1. /\ cpc' = [cpc EXCEPT ![c] = "idle"] /\ ew' = [ew EXCEPT ![c] = NULL]
          /\ UNCHANGED <<er, eb, pc>>
      BY <1>36, <2>3 DEF SetInterrupted
    <3>2. \A a \in Erasers : a # c => ew'[a] = ew[a]
      BY <3>1
    <3> QED BY <2>1, <3>1, <3>2
  <2> QED BY <1>36, <2>2, <2>3 DEF SetInterrupted
<1>37. ASSUME NEW c \in Callers, set_butex_waiter(c) PROVE EraserInv'
  BY <1>37 DEF set_butex_waiter, EraseReturns
<1>38. ASSUME UNCHANGED vars PROVE EraserInv'
  BY <1>38 DEF vars
<1> QED BY <1>1, <1>2, <1>3, <1>4, <1>5, <1>6, <1>7, <1>8, <1>9, <1>10, <1>11,
           <1>12, <1>13, <1>14, <1>15, <1>16, <1>17, <1>18, <1>19, <1>20,
           <1>21, <1>22, <1>23, <1>24, <1>25, <1>26, <1>27, <1>28, <1>29,
           <1>30, <1>31, <1>32, <1>33, <1>34, <1>35, <1>36, <1>37, <1>38
       DEF Next, Call, BthreadStep, PthreadStep, EraseStep, WakeStep,
            InterruptStep

\* Every step keeps what the wake operations hold at each of their steps.
LEMMA CallerInductive ==
    ASSUME ButexInv, [Next]_vars
    PROVE  CallerInv'
<1> USE ButexAssumption DEF ButexInv, TypeOK, Waiters, Erasers,
           butexVars, recordVars, metaVars, threadVars, callerVars,
           eraseVars,
           CallerInv, WakeOps, WakingPCs, ReadyingPCs
<1>1. ASSUME NEW w \in Bthreads, NEW b \in Butexes, butex_wait(w, b)
       PROVE  CallerInv'
  BY <1>1 DEF butex_wait
<1>2. ASSUME NEW w \in Pthreads, NEW b \in Butexes, butex_wait_from_pthread(w, b)
       PROVE  CallerInv'
  BY <1>2 DEF butex_wait_from_pthread
<1>3. ASSUME NEW c \in Callers, NEW b \in Butexes, NEW op \in Ops, NEW v \in Values, CallWake(c, b, op, v)
       PROVE  CallerInv'
  BY <1>3 DEF CallWake
<1>4. ASSUME NEW c \in Callers, NEW w \in Waiters, interrupt(c, w)
       PROVE  CallerInv'
  BY <1>4 DEF interrupt
<1>5. ASSUME NEW w \in Bthreads, wait_for_butex(w) PROVE CallerInv'
  BY <1>5 DEF wait_for_butex
<1>6. ASSUME NEW w \in Bthreads, Append_waiter(w, "append", "blocked")
       PROVE  CallerInv'
  BY <1>6 DEF Append_waiter
<1>7. ASSUME NEW w \in Bthreads, CancelUnsleep(w) PROVE CallerInv'
  BY <1>7 DEF CancelUnsleep
<1>8. ASSUME NEW w \in Bthreads, CancelReady(w) PROVE CallerInv'
  BY <1>8 DEF CancelReady, ready_to_run
<1>9. ASSUME NEW w \in Bthreads, Resume(w) PROVE CallerInv'
  BY <1>9 DEF Resume
<1>10. ASSUME NEW w \in Bthreads, SpinTimer(w) PROVE CallerInv'
  BY <1>10 DEF SpinTimer
<1>11. ASSUME NEW w \in Bthreads, SpinWaiter(w, "spin", "ret")
       PROVE  CallerInv'
  BY <1>11 DEF SpinWaiter
<1>12. ASSUME NEW w \in Bthreads, Return(w, "ret") PROVE CallerInv'
  BY <1>12 DEF Return
<1>13. ASSUME NEW w \in Pthreads, PthreadCheck(w) PROVE CallerInv'
  BY <1>13 DEF PthreadCheck
<1>14. ASSUME NEW w \in Pthreads, Append_waiter(w, "p_append", "p_futex")
       PROVE  CallerInv'
  BY <1>14 DEF Append_waiter
<1>15. ASSUME NEW w \in Pthreads, FutexSignalled(w) PROVE CallerInv'
  BY <1>15 DEF FutexSignalled
<1>16. ASSUME NEW w \in Pthreads, FutexTimeout(w) PROVE CallerInv'
  BY <1>16 DEF FutexTimeout
<1>17. ASSUME NEW w \in Pthreads, FutexErased(w) PROVE CallerInv'
  BY <1>17 DEF FutexErased, EraseReturns
<1>18. ASSUME NEW w \in Pthreads, PthreadReturn(w) PROVE CallerInv'
  BY <1>18 DEF PthreadReturn
<1>19. ASSUME NEW w \in Pthreads, SpinWaiter(w, "p_exit", "p_ret")
       PROVE  CallerInv'
  BY <1>19 DEF SpinWaiter
<1>20. ASSUME NEW w \in Pthreads, Return(w, "p_ret") PROVE CallerInv'
  BY <1>20 DEF Return
<1>21. ASSUME NEW a \in Erasers, EraseLoad(a) PROVE CallerInv'
  BY <1>21 DEF EraseLoad
<1>22. ASSUME NEW a \in Erasers, EraseLocked(a) PROVE CallerInv'
  BY <1>22 DEF EraseLocked
<1>23. ASSUME NEW a \in Erasers, EraseWake(a) PROVE CallerInv'
  BY <1>23 DEF EraseWake, ready_to_run_general, ready_to_run, wakeup_pthread
<1>24. ASSUME NEW w \in Bthreads, TimerFire(w) PROVE CallerInv'
  BY <1>24 DEF TimerFire
<1>25. ASSUME TimerDone PROVE CallerInv'
  BY <1>25 DEF TimerDone, EraseReturns
<1>26. ASSUME NEW c \in Callers, butex_wake(c) PROVE CallerInv'
  <2>1. PICK s \in Seq(Waiters), rest \in Seq(Waiters),
             next \in {"wake_one", "all_signal", "except_signal"} :
             Takes(c, s, rest, next)
    BY <1>26, DrainSplits
  <2>2. /\ todo' = [todo EXCEPT ![c] = s]
        /\ cpc' = [cpc EXCEPT ![c] = IF s = <<>> THEN "idle" ELSE next]
        /\ cb' = [cb EXCEPT ![c] = NULL]
    BY <2>1 DEF Takes, Drain
  <2>3. /\ todo'[c] = s /\ cpc'[c] = IF s = <<>> THEN "idle" ELSE next
        /\ \A d \in Callers : d # c => /\ todo'[d] = todo[d]
                                       /\ cpc'[d] = cpc[d] /\ cb'[d] = cb[d]
    BY <2>2
  <2>4. s # <<>> /\ next = "wake_one" => Len(s) = 1
    BY <2>1 DEF Takes
  <2>5. IsInjective(s)
    BY <2>1 DEF Takes
  <2> QED BY <2>3, <2>4, <2>5
<1>27. ASSUME NEW c \in Callers, butex_wake_all(c) PROVE CallerInv'
  <2>1. PICK s \in Seq(Waiters), rest \in Seq(Waiters),
             next \in {"wake_one", "all_signal", "except_signal"} :
             Takes(c, s, rest, next)
    BY <1>27, DrainSplits
  <2>2. /\ todo' = [todo EXCEPT ![c] = s]
        /\ cpc' = [cpc EXCEPT ![c] = IF s = <<>> THEN "idle" ELSE next]
        /\ cb' = [cb EXCEPT ![c] = NULL]
    BY <2>1 DEF Takes, Drain
  <2>3. /\ todo'[c] = s /\ cpc'[c] = IF s = <<>> THEN "idle" ELSE next
        /\ \A d \in Callers : d # c => /\ todo'[d] = todo[d]
                                       /\ cpc'[d] = cpc[d] /\ cb'[d] = cb[d]
    BY <2>2
  <2>4. s # <<>> /\ next = "wake_one" => Len(s) = 1
    BY <2>1 DEF Takes
  <2>5. IsInjective(s)
    BY <2>1 DEF Takes
  <2> QED BY <2>3, <2>4, <2>5
<1>28. ASSUME NEW c \in Callers, NEW excluded \in Excluded, butex_wake_except(c, excluded)
       PROVE  CallerInv'
  <2>1. PICK s \in Seq(Waiters), rest \in Seq(Waiters),
             next \in {"wake_one", "all_signal", "except_signal"} :
             Takes(c, s, rest, next)
    BY <1>28, DrainSplits
  <2>2. /\ todo' = [todo EXCEPT ![c] = s]
        /\ cpc' = [cpc EXCEPT ![c] = IF s = <<>> THEN "idle" ELSE next]
        /\ cb' = [cb EXCEPT ![c] = NULL]
    BY <2>1 DEF Takes, Drain
  <2>3. /\ todo'[c] = s /\ cpc'[c] = IF s = <<>> THEN "idle" ELSE next
        /\ \A d \in Callers : d # c => /\ todo'[d] = todo[d]
                                       /\ cpc'[d] = cpc[d] /\ cb'[d] = cb[d]
    BY <2>2
  <2>4. s # <<>> /\ next = "wake_one" => Len(s) = 1
    BY <2>1 DEF Takes
  <2>5. IsInjective(s)
    BY <2>1 DEF Takes
  <2> QED BY <2>3, <2>4, <2>5
<1>29. ASSUME NEW c \in Callers, WakeOnePthread(c) PROVE CallerInv'
  BY <1>29, SmallRange DEF WakeOnePthread, CallerAt
<1>30. ASSUME NEW c \in Callers, WakeOneBthread(c) PROVE CallerInv'
  <2>1. /\ cpc[c] = "wake_one" /\ Head(todo[c]) \in Bthreads
        /\ cpc' = [cpc EXCEPT ![c] = "wake_one_ready"] /\ UNCHANGED <<todo, cb>>
    BY <1>30 DEF WakeOneBthread, UnsleepNext
  <2>2. Range(todo[c]) \subseteq Bthreads
    BY <2>1, TodoFacts
  <2> QED BY <2>1, <2>2
<1>31. ASSUME NEW c \in Callers, WakeFirst(c) PROVE CallerInv'
  BY <1>31, SmallRange DEF WakeFirst, CallerAt
<1>32. ASSUME NEW c \in Callers, SignalPthread(c) PROVE CallerInv'
  <2>1. PICK i \in 1..Len(todo[c]) :
           CallerAt(c, IF RemoveAt(todo[c], i) = <<>> THEN "idle" ELSE cpc[c],
                    RemoveAt(todo[c], i))
    BY <1>32 DEF SignalPthread
  <2>2. cpc[c] \in {"all_signal", "except_signal"} /\ cb' = cb
    BY <1>32 DEF SignalPthread
  <2>3. IsInjective(RemoveAt(todo[c], i))
    BY <2>2, TodoFacts, RemoveAtRange
  <2> DEFINE rest == RemoveAt(todo[c], i)
  <2>4. /\ todo'[c] = rest /\ cpc'[c] = IF rest = <<>> THEN "idle" ELSE cpc[c]
        /\ \A d \in Callers : d # c => todo'[d] = todo[d] /\ cpc'[d] = cpc[d]
    BY <2>1 DEF CallerAt
  <2> HIDE DEF rest
  <2>5. IsInjective(rest)
    BY <2>3 DEF rest
  <2> QED BY <2>2, <2>4, <2>5
<1>33. ASSUME NEW c \in Callers, UnsleepFirst(c) PROVE CallerInv'
  <2>1. cpc[c] \in WakingPCs /\ todo' = todo /\ cb' = cb
        /\ cpc' = [cpc EXCEPT ![c] = "all_tail"]
    BY <1>33 DEF UnsleepFirst, UnsleepNext
  <2>2. Range(todo[c]) \subseteq Bthreads
    BY <1>33, <2>1, TodoFacts DEF UnsleepFirst, NoPthread
  <2> QED BY <2>1, <2>2
<1>34. ASSUME NEW c \in Callers, UnsleepTail(c) PROVE CallerInv'
  <2>1. cpc[c] \in WakingPCs /\ todo' = todo /\ cb' = cb
    BY <1>34 DEF UnsleepTail, UnsleepNext
  <2>2. CASE /\ cpc[c] = "all_tail" /\ Len(todo[c]) > 1
             /\ cpc' = [cpc EXCEPT ![c] = "all_ready"]
    BY <2>1, <2>2
  <2>3. CASE /\ cpc[c] = "except_signal" /\ NoPthread(todo[c])
             /\ cpc' = [cpc EXCEPT ![c] = "except_ready"]
    <3>1. Range(todo[c]) \subseteq Bthreads
      BY <2>1, <2>3, TodoFacts DEF NoPthread
    <3> QED BY <2>1, <2>3, <3>1
  <2> QED BY <1>34, <2>2, <2>3 DEF UnsleepTail, UnsleepNext
<1>35. ASSUME NEW c \in Callers, ReadyTail(c) PROVE CallerInv'
  <2> DEFINE rest == Front(todo[c])
             next == CASE cpc[c] = "all_ready"  -> "all_tail"
                       [] Len(todo[c]) > 1      -> "except_signal"
                       [] OTHER                 -> "idle"
  <2>1. /\ cpc[c] \in {"all_ready", "except_ready"} /\ cb' = cb
        /\ todo'[c] = rest /\ cpc'[c] = next
        /\ \A d \in Callers : d # c => todo'[d] = todo[d] /\ cpc'[d] = cpc[d]
    BY <1>35 DEF ReadyTail, CallerAt
  <2>2. /\ rest \in Seq(Waiters) /\ Len(rest) = Len(todo[c]) - 1
        /\ IsInjective(rest) /\ Range(rest) \subseteq Bthreads
    BY <2>1, TodoFacts, FrontRange
  <2>3. cpc[c] = "all_ready" => Len(todo[c]) > 1
    OBVIOUS
  <2>4. rest # <<>> <=> Len(todo[c]) > 1
    BY <2>1, <2>2
  <2> HIDE DEF rest
  <2>5. CASE cpc[c] = "all_ready"
    BY <2>1, <2>2, <2>3, <2>4, <2>5
  <2>6. CASE cpc[c] # "all_ready"
    BY <2>1, <2>2, <2>4, <2>6
  <2> QED BY <2>5, <2>6
<1>36. ASSUME NEW c \in Callers, SetInterrupted(c) PROVE CallerInv'
  BY <1>36 DEF SetInterrupted
<1>37. ASSUME NEW c \in Callers, set_butex_waiter(c) PROVE CallerInv'
  BY <1>37 DEF set_butex_waiter, EraseReturns
<1>38. ASSUME UNCHANGED vars PROVE CallerInv'
  BY <1>38 DEF vars
<1> QED BY <1>1, <1>2, <1>3, <1>4, <1>5, <1>6, <1>7, <1>8, <1>9, <1>10, <1>11,
           <1>12, <1>13, <1>14, <1>15, <1>16, <1>17, <1>18, <1>19, <1>20,
           <1>21, <1>22, <1>23, <1>24, <1>25, <1>26, <1>27, <1>28, <1>29,
           <1>30, <1>31, <1>32, <1>33, <1>34, <1>35, <1>36, <1>37, <1>38
       DEF Next, Call, BthreadStep, PthreadStep, EraseStep, WakeStep,
            InterruptStep

\* Every step keeps the lists and the container fields in agreement, provided the
\* container of a pthread record is NULL until the record is queued.
LEMMA ContainerInductive ==
    ASSUME StaleContainers = {NULL}, ButexInv, [Next]_vars
    PROVE  ContainerIsList'
<1> USE ButexAssumption DEF ButexInv, TypeOK, Waiters, Erasers,
           butexVars, recordVars, metaVars, threadVars, callerVars,
           eraseVars,
           ContainerIsList
<1>1. ASSUME NEW w \in Bthreads, NEW b \in Butexes, butex_wait(w, b)
       PROVE  ContainerIsList'
  <2>1. container[w] = NULL
    BY <1>1 DEF butex_wait, AtMostOneWaker, Suspended
  <2> QED BY <1>1, <2>1 DEF butex_wait
<1>2. ASSUME NEW w \in Pthreads, NEW b \in Butexes, butex_wait_from_pthread(w, b)
       PROVE  ContainerIsList'
  <2>1. container[w] = NULL
    BY <1>2 DEF butex_wait_from_pthread, AtMostOneWaker, Suspended
  <2>2. container' = [container EXCEPT ![w] = NULL] /\ waiters' = waiters
    BY <1>2 DEF butex_wait_from_pthread
  <2>3. container' = container
    BY <2>1, <2>2
  <2> QED BY <2>2, <2>3
<1>3. ASSUME NEW c \in Callers, NEW b \in Butexes, NEW op \in Ops, NEW v \in Values, CallWake(c, b, op, v)
       PROVE  ContainerIsList'
  BY <1>3 DEF CallWake
<1>4. ASSUME NEW c \in Callers, NEW w \in Waiters, interrupt(c, w)
       PROVE  ContainerIsList'
  BY <1>4 DEF interrupt
<1>5. ASSUME NEW w \in Bthreads, wait_for_butex(w) PROVE ContainerIsList'
  BY <1>5 DEF wait_for_butex
<1>6. ASSUME NEW w \in Bthreads, Append_waiter(w, "append", "blocked")
       PROVE  ContainerIsList'
  <2>1. container[w] = NULL /\ butex[w] \in Butexes
    BY <1>6 DEF Append_waiter, AtMostOneWaker, Suspended
  <2>2. w \notin Range(waiters[butex[w]])
    BY <2>1
  <2> DEFINE r == Append(waiters[butex[w]], w)
  <2>3. Range(r) = Range(waiters[butex[w]]) \cup {w} /\ IsInjective(r)
    BY <2>1, <2>2, AppendRange
  <2>4. /\ waiters'[butex[w]] = r
        /\ \A b \in Butexes : b # butex[w] => waiters'[b] = waiters[b]
        /\ container'[w] = butex[w]
        /\ \A x \in Waiters : x # w => container'[x] = container[x]
    BY <1>6, <2>1 DEF Append_waiter
  <2> HIDE DEF r
  <2>5. \A b \in Butexes : IsInjective(waiters'[b])
    BY <2>1, <2>3, <2>4
  <2>6. ASSUME NEW b \in Butexes, NEW x \in Waiters
        PROVE  x \in Range(waiters'[b]) <=> container'[x] = b
    <3>1. CASE b = butex[w]
      BY <2>1, <2>3, <2>4, <3>1
    <3>2. CASE b # butex[w]
      <4>1. CASE x = w
        BY <2>1, <2>4, <3>2, <4>1
      <4>2. CASE x # w
        BY <2>1, <2>4, <3>2, <4>2
      <4> QED BY <4>1, <4>2
    <3> QED BY <3>1, <3>2
  <2> QED BY <2>5, <2>6
<1>7. ASSUME NEW w \in Bthreads, CancelUnsleep(w) PROVE ContainerIsList'
  BY <1>7 DEF CancelUnsleep
<1>8. ASSUME NEW w \in Bthreads, CancelReady(w) PROVE ContainerIsList'
  BY <1>8 DEF CancelReady, ready_to_run
<1>9. ASSUME NEW w \in Bthreads, Resume(w) PROVE ContainerIsList'
  BY <1>9 DEF Resume
<1>10. ASSUME NEW w \in Bthreads, SpinTimer(w) PROVE ContainerIsList'
  BY <1>10 DEF SpinTimer
<1>11. ASSUME NEW w \in Bthreads, SpinWaiter(w, "spin", "ret")
       PROVE  ContainerIsList'
  BY <1>11 DEF SpinWaiter
<1>12. ASSUME NEW w \in Bthreads, Return(w, "ret") PROVE ContainerIsList'
  BY <1>12 DEF Return
<1>13. ASSUME NEW w \in Pthreads, PthreadCheck(w) PROVE ContainerIsList'
  BY <1>13 DEF PthreadCheck
<1>14. ASSUME NEW w \in Pthreads, Append_waiter(w, "p_append", "p_futex")
       PROVE  ContainerIsList'
  <2>1. container[w] = NULL /\ butex[w] \in Butexes
    BY <1>14 DEF Append_waiter, AtMostOneWaker, Suspended
  <2>2. w \notin Range(waiters[butex[w]])
    BY <2>1
  <2> DEFINE r == Append(waiters[butex[w]], w)
  <2>3. Range(r) = Range(waiters[butex[w]]) \cup {w} /\ IsInjective(r)
    BY <2>1, <2>2, AppendRange
  <2>4. /\ waiters'[butex[w]] = r
        /\ \A b \in Butexes : b # butex[w] => waiters'[b] = waiters[b]
        /\ container'[w] = butex[w]
        /\ \A x \in Waiters : x # w => container'[x] = container[x]
    BY <1>14, <2>1 DEF Append_waiter
  <2> HIDE DEF r
  <2>5. \A b \in Butexes : IsInjective(waiters'[b])
    BY <2>1, <2>3, <2>4
  <2>6. ASSUME NEW b \in Butexes, NEW x \in Waiters
        PROVE  x \in Range(waiters'[b]) <=> container'[x] = b
    <3>1. CASE b = butex[w]
      BY <2>1, <2>3, <2>4, <3>1
    <3>2. CASE b # butex[w]
      <4>1. CASE x = w
        BY <2>1, <2>4, <3>2, <4>1
      <4>2. CASE x # w
        BY <2>1, <2>4, <3>2, <4>2
      <4> QED BY <4>1, <4>2
    <3> QED BY <3>1, <3>2
  <2> QED BY <2>5, <2>6
<1>15. ASSUME NEW w \in Pthreads, FutexSignalled(w) PROVE ContainerIsList'
  BY <1>15 DEF FutexSignalled
<1>16. ASSUME NEW w \in Pthreads, FutexTimeout(w) PROVE ContainerIsList'
  BY <1>16 DEF FutexTimeout
<1>17. ASSUME NEW w \in Pthreads, FutexErased(w) PROVE ContainerIsList'
  BY <1>17 DEF FutexErased, EraseReturns
<1>18. ASSUME NEW w \in Pthreads, PthreadReturn(w) PROVE ContainerIsList'
  BY <1>18 DEF PthreadReturn
<1>19. ASSUME NEW w \in Pthreads, SpinWaiter(w, "p_exit", "p_ret")
       PROVE  ContainerIsList'
  BY <1>19 DEF SpinWaiter
<1>20. ASSUME NEW w \in Pthreads, Return(w, "p_ret") PROVE ContainerIsList'
  BY <1>20 DEF Return
<1>21. ASSUME NEW a \in Erasers, EraseLoad(a) PROVE ContainerIsList'
  BY <1>21 DEF EraseLoad
<1>22. ASSUME NEW a \in Erasers, EraseLocked(a) PROVE ContainerIsList'
  <2>1. eb[a] \in Butexes /\ ew[a] \in Waiters
    BY <1>22 DEF EraseLocked, EraserInv
  <2> DEFINE r == RemoveFirst(waiters[eb[a]], ew[a])
  <2>2. IsInjective(r) /\ Range(r) = Range(waiters[eb[a]]) \ {ew[a]}
    BY <2>1, RemoveFirstRange
  <2> HIDE DEF r
  <2>3. CASE container[ew[a]] = eb[a]
    <3>1. /\ waiters' = [waiters EXCEPT ![eb[a]] = r]
          /\ container' = [container EXCEPT ![ew[a]] = NULL]
      BY <1>22, <2>3 DEF EraseLocked, r
    <3>2. /\ waiters'[eb[a]] = r
          /\ \A b \in Butexes : b # eb[a] => waiters'[b] = waiters[b]
          /\ container'[ew[a]] = NULL
          /\ \A x \in Waiters : x # ew[a] => container'[x] = container[x]
      BY <2>1, <3>1
    <3>3. \A b \in Butexes : IsInjective(waiters'[b])
      BY <2>1, <2>2, <2>3, <3>2
    <3>4. ASSUME NEW b \in Butexes, NEW x \in Waiters
          PROVE  x \in Range(waiters'[b]) <=> container'[x] = b
      <4>1. CASE b = eb[a]
        BY <2>1, <2>2, <2>3, <3>2, <4>1
      <4>2. CASE b # eb[a]
        <5>1. CASE x = ew[a]
          BY <2>1, <2>3, <3>2, <4>2, <5>1
        <5>2. CASE x # ew[a]
          BY <2>1, <3>2, <4>2, <5>2
        <5> QED BY <5>1, <5>2
      <4> QED BY <4>1, <4>2
    <3> QED BY <3>3, <3>4
  <2>4. CASE container[ew[a]] # eb[a]
    BY <1>22, <2>4 DEF EraseLocked
  <2> QED BY <2>3, <2>4
<1>23. ASSUME NEW a \in Erasers, EraseWake(a) PROVE ContainerIsList'
  BY <1>23 DEF EraseWake, ready_to_run_general, ready_to_run, wakeup_pthread
<1>24. ASSUME NEW w \in Bthreads, TimerFire(w) PROVE ContainerIsList'
  BY <1>24 DEF TimerFire
<1>25. ASSUME TimerDone PROVE ContainerIsList'
  BY <1>25 DEF TimerDone, EraseReturns
<1>26. ASSUME NEW c \in Callers, butex_wake(c) PROVE ContainerIsList'
  <2>1. PICK s \in Seq(Waiters), rest \in Seq(Waiters),
             next \in {"wake_one", "all_signal", "except_signal"} :
             Takes(c, s, rest, next)
    BY <1>26, DrainSplits
  <2>2. cb[c] \in Butexes
    BY <1>26, DrainSplits
  <2>3. /\ waiters'[cb[c]] = rest /\ IsInjective(rest)
        /\ \A b \in Butexes : b # cb[c] => waiters'[b] = waiters[b]
        /\ \A x \in Range(s) \cap Waiters : container'[x] = NULL
        /\ \A x \in Waiters \ Range(s) : container'[x] = container[x]
    BY <2>1, <2>2 DEF Takes, Drain, Detached
  <2>4. /\ Range(s) \cup Range(rest) = Range(waiters[cb[c]])
        /\ Range(s) \cap Range(rest) = {}
    BY <2>1 DEF Takes
  <2>5. \A b \in Butexes : IsInjective(waiters'[b])
    BY <2>2, <2>3, <2>4
  <2>6. ASSUME NEW b \in Butexes, NEW x \in Waiters
        PROVE  x \in Range(waiters'[b]) <=> container'[x] = b
    <3>1. CASE b = cb[c]
      BY <2>2, <2>3, <2>4, <3>1
    <3>2. CASE b # cb[c]
      BY <2>2, <2>3, <2>4, <3>2
    <3> QED BY <3>1, <3>2
  <2> QED BY <2>5, <2>6
<1>27. ASSUME NEW c \in Callers, butex_wake_all(c) PROVE ContainerIsList'
  <2>1. PICK s \in Seq(Waiters), rest \in Seq(Waiters),
             next \in {"wake_one", "all_signal", "except_signal"} :
             Takes(c, s, rest, next)
    BY <1>27, DrainSplits
  <2>2. cb[c] \in Butexes
    BY <1>27, DrainSplits
  <2>3. /\ waiters'[cb[c]] = rest /\ IsInjective(rest)
        /\ \A b \in Butexes : b # cb[c] => waiters'[b] = waiters[b]
        /\ \A x \in Range(s) \cap Waiters : container'[x] = NULL
        /\ \A x \in Waiters \ Range(s) : container'[x] = container[x]
    BY <2>1, <2>2 DEF Takes, Drain, Detached
  <2>4. /\ Range(s) \cup Range(rest) = Range(waiters[cb[c]])
        /\ Range(s) \cap Range(rest) = {}
    BY <2>1 DEF Takes
  <2>5. \A b \in Butexes : IsInjective(waiters'[b])
    BY <2>2, <2>3, <2>4
  <2>6. ASSUME NEW b \in Butexes, NEW x \in Waiters
        PROVE  x \in Range(waiters'[b]) <=> container'[x] = b
    <3>1. CASE b = cb[c]
      BY <2>2, <2>3, <2>4, <3>1
    <3>2. CASE b # cb[c]
      BY <2>2, <2>3, <2>4, <3>2
    <3> QED BY <3>1, <3>2
  <2> QED BY <2>5, <2>6
<1>28. ASSUME NEW c \in Callers, NEW excluded \in Excluded, butex_wake_except(c, excluded)
       PROVE  ContainerIsList'
  <2>1. PICK s \in Seq(Waiters), rest \in Seq(Waiters),
             next \in {"wake_one", "all_signal", "except_signal"} :
             Takes(c, s, rest, next)
    BY <1>28, DrainSplits
  <2>2. cb[c] \in Butexes
    BY <1>28, DrainSplits
  <2>3. /\ waiters'[cb[c]] = rest /\ IsInjective(rest)
        /\ \A b \in Butexes : b # cb[c] => waiters'[b] = waiters[b]
        /\ \A x \in Range(s) \cap Waiters : container'[x] = NULL
        /\ \A x \in Waiters \ Range(s) : container'[x] = container[x]
    BY <2>1, <2>2 DEF Takes, Drain, Detached
  <2>4. /\ Range(s) \cup Range(rest) = Range(waiters[cb[c]])
        /\ Range(s) \cap Range(rest) = {}
    BY <2>1 DEF Takes
  <2>5. \A b \in Butexes : IsInjective(waiters'[b])
    BY <2>2, <2>3, <2>4
  <2>6. ASSUME NEW b \in Butexes, NEW x \in Waiters
        PROVE  x \in Range(waiters'[b]) <=> container'[x] = b
    <3>1. CASE b = cb[c]
      BY <2>2, <2>3, <2>4, <3>1
    <3>2. CASE b # cb[c]
      BY <2>2, <2>3, <2>4, <3>2
    <3> QED BY <3>1, <3>2
  <2> QED BY <2>5, <2>6
<1>29. ASSUME NEW c \in Callers, WakeOnePthread(c) PROVE ContainerIsList'
  BY <1>29 DEF WakeOnePthread, wakeup_pthread, CallerAt
<1>30. ASSUME NEW c \in Callers, WakeOneBthread(c) PROVE ContainerIsList'
  BY <1>30 DEF WakeOneBthread, UnsleepNext
<1>31. ASSUME NEW c \in Callers, WakeFirst(c) PROVE ContainerIsList'
  BY <1>31 DEF WakeFirst, ready_to_run, CallerAt
<1>32. ASSUME NEW c \in Callers, SignalPthread(c) PROVE ContainerIsList'
  BY <1>32 DEF SignalPthread, wakeup_pthread, CallerAt
<1>33. ASSUME NEW c \in Callers, UnsleepFirst(c) PROVE ContainerIsList'
  BY <1>33 DEF UnsleepFirst, UnsleepNext
<1>34. ASSUME NEW c \in Callers, UnsleepTail(c) PROVE ContainerIsList'
  BY <1>34 DEF UnsleepTail, UnsleepNext
<1>35. ASSUME NEW c \in Callers, ReadyTail(c) PROVE ContainerIsList'
  BY <1>35 DEF ReadyTail, ready_to_run_general, ready_to_run, CallerAt
<1>36. ASSUME NEW c \in Callers, SetInterrupted(c) PROVE ContainerIsList'
  BY <1>36 DEF SetInterrupted
<1>37. ASSUME NEW c \in Callers, set_butex_waiter(c) PROVE ContainerIsList'
  BY <1>37 DEF set_butex_waiter, EraseReturns
<1>38. ASSUME UNCHANGED vars PROVE ContainerIsList'
  BY <1>38 DEF vars
<1> QED BY <1>1, <1>2, <1>3, <1>4, <1>5, <1>6, <1>7, <1>8, <1>9, <1>10, <1>11,
           <1>12, <1>13, <1>14, <1>15, <1>16, <1>17, <1>18, <1>19, <1>20,
           <1>21, <1>22, <1>23, <1>24, <1>25, <1>26, <1>27, <1>28, <1>29,
           <1>30, <1>31, <1>32, <1>33, <1>34, <1>35, <1>36, <1>37, <1>38
       DEF Next, Call, BthreadStep, PthreadStep, EraseStep, WakeStep,
            InterruptStep

\* Every step keeps the wakers of a waiter unique.
LEMMA WakerInductive ==
    ASSUME StaleContainers = {NULL}, ButexInv, [Next]_vars
    PROVE  AtMostOneWaker'
<1> USE ButexAssumption DEF ButexInv, TypeOK, Waiters, Erasers,
           butexVars, recordVars, metaVars, threadVars, callerVars,
           eraseVars,
           ThreadInv, EraserInv, ContainerIsList, SignalInv
<1>1. ASSUME NEW w \in Bthreads, NEW b \in Butexes, butex_wait(w, b)
       PROVE  AtMostOneWaker'
  BY <1>1 DEF butex_wait,
         AtMostOneWaker, Suspended, Wakers
<1>2. ASSUME NEW w \in Pthreads, NEW b \in Butexes, butex_wait_from_pthread(w, b)
       PROVE  AtMostOneWaker'
  BY <1>2 DEF butex_wait_from_pthread,
         AtMostOneWaker, Suspended, Wakers
<1>3. ASSUME NEW c \in Callers, NEW b \in Butexes, NEW op \in Ops, NEW v \in Values, CallWake(c, b, op, v)
       PROVE  AtMostOneWaker'
  BY <1>3 DEF CallWake,
         AtMostOneWaker, Suspended, Wakers
<1>4. ASSUME NEW c \in Callers, NEW w \in Waiters, interrupt(c, w)
       PROVE  AtMostOneWaker'
  <2>1. er[c] = "idle" /\ c \in Erasers
    BY <1>4 DEF interrupt, EraserInv
  <2>2. ew' = [ew EXCEPT ![c] = w] /\ UNCHANGED <<er, todo, container, tokens, pc>>
    BY <1>4 DEF interrupt
  <2>3. \A x : Wakers(x)' = Wakers(x)
    BY <2>1, <2>2 DEF Wakers
  <2> QED BY <2>2, <2>3 DEF AtMostOneWaker, Suspended
<1>5. ASSUME NEW w \in Bthreads, wait_for_butex(w) PROVE AtMostOneWaker'
  BY <1>5 DEF wait_for_butex,
         AtMostOneWaker, Suspended, Wakers
<1>6. ASSUME NEW w \in Bthreads, Append_waiter(w, "append", "blocked")
       PROVE  AtMostOneWaker'
  BY <1>6 DEF Append_waiter,
         AtMostOneWaker, Suspended, Wakers
<1>7. ASSUME NEW w \in Bthreads, CancelUnsleep(w) PROVE AtMostOneWaker'
  BY <1>7 DEF CancelUnsleep,
         AtMostOneWaker, Suspended, Wakers
<1>8. ASSUME NEW w \in Bthreads, CancelReady(w) PROVE AtMostOneWaker'
  BY <1>8 DEF CancelReady, ready_to_run,
         AtMostOneWaker, Suspended, Wakers
<1>9. ASSUME NEW w \in Bthreads, Resume(w) PROVE AtMostOneWaker'
  BY <1>9 DEF Resume,
         AtMostOneWaker, Suspended, Wakers
<1>10. ASSUME NEW w \in Bthreads, SpinTimer(w) PROVE AtMostOneWaker'
  BY <1>10 DEF SpinTimer,
         AtMostOneWaker, Suspended, Wakers
<1>11. ASSUME NEW w \in Bthreads, SpinWaiter(w, "spin", "ret")
       PROVE  AtMostOneWaker'
  BY <1>11 DEF SpinWaiter,
         AtMostOneWaker, Suspended, Wakers
<1>12. ASSUME NEW w \in Bthreads, Return(w, "ret") PROVE AtMostOneWaker'
  BY <1>12 DEF Return,
         AtMostOneWaker, Suspended, Wakers
<1>13. ASSUME NEW w \in Pthreads, PthreadCheck(w) PROVE AtMostOneWaker'
  <2>1. /\ \/ pc' = [pc EXCEPT ![w] = "p_exit"]
           \/ pc' = [pc EXCEPT ![w] = "p_append"]
        /\ UNCHANGED <<container, tokens, todo, er, ew>> /\ ~Suspended(w)
    BY <1>13 DEF PthreadCheck, Suspended
  <2>2. \A x \in Waiters : Wakers(x)' = Wakers(x)
    BY <2>1 DEF Wakers
  <2>3. \A x \in Waiters : Suspended(x) => Suspended(x)'
    BY <2>1 DEF Suspended
  <2> QED BY <2>1, <2>2, <2>3 DEF AtMostOneWaker
<1>14. ASSUME NEW w \in Pthreads, Append_waiter(w, "p_append", "p_futex")
       PROVE  AtMostOneWaker'
  BY <1>14 DEF Append_waiter,
         AtMostOneWaker, Suspended, Wakers
<1>15. ASSUME NEW w \in Pthreads, FutexSignalled(w) PROVE AtMostOneWaker'
  <2>1. Released(w) /\ tokens[w] = 0
    BY <1>15 DEF FutexSignalled
  <2>2. /\ pc' = [pc EXCEPT ![w] = "p_exit"]
        /\ UNCHANGED <<container, tokens, todo, er, ew>>
    BY <1>15 DEF FutexSignalled
  <2>3. \A x \in Waiters : Wakers(x)' = Wakers(x)
    BY <2>2 DEF Wakers
  <2>4. \A x \in Waiters \ {w} : Suspended(x)' = Suspended(x)
    BY <2>2 DEF Suspended
  <2>5. UNCHANGED <<container, tokens>>
    BY <2>2
  <2> QED BY <2>1, <2>3, <2>4, <2>5, ReleasedMayLeave
<1>16. ASSUME NEW w \in Pthreads, FutexTimeout(w) PROVE AtMostOneWaker'
  BY <1>16 DEF FutexTimeout,
         AtMostOneWaker, Suspended, Wakers
<1>17. ASSUME NEW w \in Pthreads, FutexErased(w) PROVE AtMostOneWaker'
  <2>1. /\ \/ pc' = [pc EXCEPT ![w] = "p_exit"] /\ (er[w] = "erased" \/ sig[w])
           \/ pc' = [pc EXCEPT ![w] = "p_futex"]
        /\ UNCHANGED <<container, tokens, todo>>
        /\ er' = [er EXCEPT ![w] = "idle"] /\ ew' = [ew EXCEPT ![w] = NULL]
    BY <1>17 DEF FutexErased, EraseReturns
  <2>2. \A x \in Waiters : Wakers(x)' = Wakers(x)
    BY <1>17, <2>1 DEF Wakers, FutexErased
  <2>3. \A x \in Waiters \ {w} : Suspended(x)' = Suspended(x)
    BY <2>1 DEF Suspended
  <2>4. Suspended(w)' \/ (Released(w) /\ tokens[w] = 0)
    BY <2>1 DEF Suspended, SignalInv, ThreadInv
  <2>5. UNCHANGED <<container, tokens>>
    BY <2>1
  <2> QED BY <2>2, <2>3, <2>4, <2>5, ReleasedMayLeave
<1>18. ASSUME NEW w \in Pthreads, PthreadReturn(w) PROVE AtMostOneWaker'
  BY <1>18 DEF PthreadReturn,
         AtMostOneWaker, Suspended, Wakers
<1>19. ASSUME NEW w \in Pthreads, SpinWaiter(w, "p_exit", "p_ret")
       PROVE  AtMostOneWaker'
  BY <1>19 DEF SpinWaiter,
         AtMostOneWaker, Suspended, Wakers
<1>20. ASSUME NEW w \in Pthreads, Return(w, "p_ret") PROVE AtMostOneWaker'
  BY <1>20 DEF Return,
         AtMostOneWaker, Suspended, Wakers
<1>21. ASSUME NEW a \in Erasers, EraseLoad(a) PROVE AtMostOneWaker'
  BY <1>21 DEF EraseLoad,
         AtMostOneWaker, Suspended, Wakers
<1>22. ASSUME NEW a \in Erasers, EraseLocked(a) PROVE AtMostOneWaker'
  BY <1>22 DEF EraseLocked,
         AtMostOneWaker, Suspended, Wakers
<1>23. ASSUME NEW a \in Erasers, EraseWake(a) PROVE AtMostOneWaker'
  BY <1>23, EraserGivesUp
<1>24. ASSUME NEW w \in Bthreads, TimerFire(w) PROVE AtMostOneWaker'
  BY <1>24 DEF TimerFire,
         AtMostOneWaker, Suspended, Wakers
<1>25. ASSUME TimerDone PROVE AtMostOneWaker'
  BY <1>25 DEF TimerDone, EraseReturns,
         AtMostOneWaker, Suspended, Wakers
<1>26. ASSUME NEW c \in Callers, butex_wake(c) PROVE AtMostOneWaker'
  BY <1>26, OperationTakes
<1>27. ASSUME NEW c \in Callers, butex_wake_all(c) PROVE AtMostOneWaker'
  BY <1>27, OperationTakes
<1>28. ASSUME NEW c \in Callers, NEW excluded \in Excluded, butex_wake_except(c, excluded)
       PROVE  AtMostOneWaker'
  BY <1>28, OperationTakes
<1>29. ASSUME NEW c \in Callers, WakeOnePthread(c) PROVE AtMostOneWaker'
  <2>1. Range(todo[c]) = {Head(todo[c])} /\ Range(<<>>) = {}
    BY <1>29, TodoFacts, SmallRange DEF WakeOnePthread, WakingPCs, CallerInv
  <2>2. PICK x \in Range(todo[c]) : x = Head(todo[c])
    BY <2>1
  <2>3. Range(<<>>) = Range(todo[c]) \ {x}
    BY <2>1, <2>2
  <2>4. /\ todo' = [todo EXCEPT ![c] = <<>>] /\ UNCHANGED <<container, pc, er, ew>>
        /\ tokens' = tokens /\ sig' = [sig EXCEPT ![x] = TRUE]
    BY <1>29, <2>2 DEF WakeOnePthread, CallerAt, wakeup_pthread, threadVars,
                    eraseVars
  <2> QED BY <2>3, <2>4, CallerGivesUp
<1>30. ASSUME NEW c \in Callers, WakeOneBthread(c) PROVE AtMostOneWaker'
  BY <1>30 DEF WakeOneBthread, UnsleepNext,
         AtMostOneWaker, Suspended, Wakers
<1>31. ASSUME NEW c \in Callers, WakeFirst(c) PROVE AtMostOneWaker'
  <2>1. Range(todo[c]) = {Head(todo[c])} /\ Range(<<>>) = {}
    BY <1>31, TodoFacts, SmallRange DEF WakeFirst, WakingPCs, CallerInv
  <2>2. PICK x \in Range(todo[c]) : x = Head(todo[c])
    BY <2>1
  <2>3. Range(<<>>) = Range(todo[c]) \ {x}
    BY <2>1, <2>2
  <2>4. /\ todo' = [todo EXCEPT ![c] = <<>>] /\ UNCHANGED <<container, pc, er, ew>>
        /\ sig' = sig /\ tokens' = [tokens EXCEPT ![x] = @ + 1]
    BY <1>31, <2>2 DEF WakeFirst, CallerAt, ready_to_run, recordVars, eraseVars
  <2> QED BY <2>3, <2>4, CallerGivesUp
<1>32. ASSUME NEW c \in Callers, SignalPthread(c) PROVE AtMostOneWaker'
  <2>1. PICK i \in 1..Len(todo[c]) :
           /\ wakeup_pthread(todo[c][i])
           /\ todo' = [todo EXCEPT ![c] = RemoveAt(todo[c], i)]
    BY <1>32 DEF SignalPthread, CallerAt
  <2>2. cpc[c] \in WakingPCs
    BY <1>32 DEF SignalPthread, WakingPCs
  <2>3. Range(RemoveAt(todo[c], i)) = Range(todo[c]) \ {todo[c][i]}
    BY <2>2, TodoFacts, RemoveAtRange
  <2>4. PICK x \in Range(todo[c]) : x = todo[c][i]
    BY <2>2, TodoFacts DEF Range
  <2>5. PICK rest : rest = RemoveAt(todo[c], i)
    OBVIOUS
  <2>6. /\ todo' = [todo EXCEPT ![c] = rest] /\ UNCHANGED <<container, pc, er, ew>>
        /\ tokens' = tokens /\ sig' = [sig EXCEPT ![x] = TRUE]
        /\ Range(rest) = Range(todo[c]) \ {x}
    BY <1>32, <2>1, <2>3, <2>4, <2>5
       DEF SignalPthread, wakeup_pthread, threadVars, eraseVars
  <2> QED BY <2>6, CallerGivesUp
<1>33. ASSUME NEW c \in Callers, UnsleepFirst(c) PROVE AtMostOneWaker'
  BY <1>33 DEF UnsleepFirst, UnsleepNext,
         AtMostOneWaker, Suspended, Wakers
<1>34. ASSUME NEW c \in Callers, UnsleepTail(c) PROVE AtMostOneWaker'
  BY <1>34 DEF UnsleepTail, UnsleepNext,
         AtMostOneWaker, Suspended, Wakers
<1>35. ASSUME NEW c \in Callers, ReadyTail(c) PROVE AtMostOneWaker'
  <2>1. cpc[c] \in WakingPCs
    BY <1>35 DEF ReadyTail, WakingPCs
  <2>2. PICK x \in Range(todo[c]) : x = Last(todo[c])
    BY <2>1, TodoFacts
  <2>3. PICK rest : rest = Front(todo[c])
    OBVIOUS
  <2>4. Range(rest) = Range(todo[c]) \ {x}
    BY <2>1, <2>2, <2>3, TodoFacts, FrontRange
  <2>5. /\ todo' = [todo EXCEPT ![c] = rest] /\ UNCHANGED <<container, pc, er, ew>>
        /\ tokens' = tokens \/ tokens' = [tokens EXCEPT ![x] = @ + 1]
        /\ sig' = sig
    BY <1>35, <2>2, <2>3 DEF ReadyTail, CallerAt, ready_to_run_general,
                          ready_to_run, recordVars, eraseVars
  <2> QED BY <2>4, <2>5, CallerGivesUp
<1>36. ASSUME NEW c \in Callers, SetInterrupted(c) PROVE AtMostOneWaker'
  BY <1>36 DEF SetInterrupted,
         AtMostOneWaker, Suspended, Wakers
<1>37. ASSUME NEW c \in Callers, set_butex_waiter(c) PROVE AtMostOneWaker'
  BY <1>37 DEF set_butex_waiter, EraseReturns,
         AtMostOneWaker, Suspended, Wakers
<1>38. ASSUME UNCHANGED vars PROVE AtMostOneWaker'
  BY <1>38 DEF vars, AtMostOneWaker, Suspended, Wakers
<1> QED BY <1>1, <1>2, <1>3, <1>4, <1>5, <1>6, <1>7, <1>8, <1>9, <1>10, <1>11,
           <1>12, <1>13, <1>14, <1>15, <1>16, <1>17, <1>18, <1>19, <1>20,
           <1>21, <1>22, <1>23, <1>24, <1>25, <1>26, <1>27, <1>28, <1>29,
           <1>30, <1>31, <1>32, <1>33, <1>34, <1>35, <1>36, <1>37, <1>38
       DEF Next, Call, BthreadStep, PthreadStep, EraseStep, WakeStep,
            InterruptStep

\* Every step keeps signalled pthreads out of the lists and of the hands of wakers.
LEMMA SignalInductive ==
    ASSUME StaleContainers = {NULL}, ButexInv, [Next]_vars
    PROVE  SignalInv'
<1> USE ButexAssumption DEF ButexInv, TypeOK, Waiters, Erasers,
           butexVars, recordVars, metaVars, threadVars, callerVars,
           eraseVars,
           ThreadInv, EraserInv, ContainerIsList, AtMostOneWaker, Suspended
<1>1. ASSUME NEW w \in Bthreads, NEW b \in Butexes, butex_wait(w, b)
       PROVE  SignalInv'
  BY <1>1 DEF butex_wait,
         SignalInv, Released, Wakers
<1>2. ASSUME NEW w \in Pthreads, NEW b \in Butexes, butex_wait_from_pthread(w, b)
       PROVE  SignalInv'
  BY <1>2 DEF butex_wait_from_pthread,
         SignalInv, Released, Wakers
<1>3. ASSUME NEW c \in Callers, NEW b \in Butexes, NEW op \in Ops, NEW v \in Values, CallWake(c, b, op, v)
       PROVE  SignalInv'
  BY <1>3 DEF CallWake,
         SignalInv, Released, Wakers
<1>4. ASSUME NEW c \in Callers, NEW w \in Waiters, interrupt(c, w)
       PROVE  SignalInv'
  <2>1. er[c] = "idle" /\ c \in Erasers
    BY <1>4 DEF interrupt, EraserInv
  <2>2. ew' = [ew EXCEPT ![c] = w] /\ UNCHANGED <<er, todo, container, sig, pc>>
    BY <1>4 DEF interrupt
  <2>3. \A x : Wakers(x)' = Wakers(x)
    BY <2>1, <2>2 DEF Wakers
  <2> QED BY <2>2, <2>3 DEF SignalInv, Released
<1>5. ASSUME NEW w \in Bthreads, wait_for_butex(w) PROVE SignalInv'
  BY <1>5 DEF wait_for_butex,
         SignalInv, Released, Wakers
<1>6. ASSUME NEW w \in Bthreads, Append_waiter(w, "append", "blocked")
       PROVE  SignalInv'
  BY <1>6 DEF Append_waiter,
         SignalInv, Released, Wakers
<1>7. ASSUME NEW w \in Bthreads, CancelUnsleep(w) PROVE SignalInv'
  BY <1>7 DEF CancelUnsleep,
         SignalInv, Released, Wakers
<1>8. ASSUME NEW w \in Bthreads, CancelReady(w) PROVE SignalInv'
  BY <1>8 DEF CancelReady, ready_to_run,
         SignalInv, Released, Wakers
<1>9. ASSUME NEW w \in Bthreads, Resume(w) PROVE SignalInv'
  BY <1>9 DEF Resume,
         SignalInv, Released, Wakers
<1>10. ASSUME NEW w \in Bthreads, SpinTimer(w) PROVE SignalInv'
  BY <1>10 DEF SpinTimer,
         SignalInv, Released, Wakers
<1>11. ASSUME NEW w \in Bthreads, SpinWaiter(w, "spin", "ret")
       PROVE  SignalInv'
  BY <1>11 DEF SpinWaiter,
         SignalInv, Released, Wakers
<1>12. ASSUME NEW w \in Bthreads, Return(w, "ret") PROVE SignalInv'
  BY <1>12 DEF Return,
         SignalInv, Released, Wakers
<1>13. ASSUME NEW w \in Pthreads, PthreadCheck(w) PROVE SignalInv'
  BY <1>13 DEF PthreadCheck,
         SignalInv, Released, Wakers
<1>14. ASSUME NEW w \in Pthreads, Append_waiter(w, "p_append", "p_futex")
       PROVE  SignalInv'
  <2>1. container[w] = NULL /\ Wakers(w) = {} /\ ~sig[w] /\ er[w] # "erased"
    BY <1>14 DEF Append_waiter, AtMostOneWaker, Suspended, SignalInv, EraserInv
  <2>2. /\ container' = [container EXCEPT ![w] = butex[w]]
        /\ pc' = [pc EXCEPT ![w] = "p_futex"] /\ UNCHANGED <<todo, er, ew, sig>>
    BY <1>14 DEF Append_waiter
  <2>3. \A x \in Waiters \ {w} : Released(x)' = Released(x)
    BY <2>2 DEF Released, Wakers
  <2> QED BY <2>1, <2>2, <2>3 DEF SignalInv
<1>15. ASSUME NEW w \in Pthreads, FutexSignalled(w) PROVE SignalInv'
  BY <1>15 DEF FutexSignalled,
         SignalInv, Released, Wakers
<1>16. ASSUME NEW w \in Pthreads, FutexTimeout(w) PROVE SignalInv'
  BY <1>16 DEF FutexTimeout,
         SignalInv, Released, Wakers
<1>17. ASSUME NEW w \in Pthreads, FutexErased(w) PROVE SignalInv'
  BY <1>17 DEF FutexErased, EraseReturns,
         SignalInv, Released, Wakers
<1>18. ASSUME NEW w \in Pthreads, PthreadReturn(w) PROVE SignalInv'
  BY <1>18 DEF PthreadReturn,
         SignalInv, Released, Wakers
<1>19. ASSUME NEW w \in Pthreads, SpinWaiter(w, "p_exit", "p_ret")
       PROVE  SignalInv'
  BY <1>19 DEF SpinWaiter,
         SignalInv, Released, Wakers
<1>20. ASSUME NEW w \in Pthreads, Return(w, "p_ret") PROVE SignalInv'
  BY <1>20 DEF Return,
         SignalInv, Released, Wakers
<1>21. ASSUME NEW a \in Erasers, EraseLoad(a) PROVE SignalInv'
  BY <1>21 DEF EraseLoad,
         SignalInv, Released, Wakers
<1>22. ASSUME NEW a \in Erasers, EraseLocked(a) PROVE SignalInv'
  BY <1>22 DEF EraseLocked,
         SignalInv, Released, Wakers
<1>23. ASSUME NEW a \in Erasers, EraseWake(a) PROVE SignalInv'
  BY <1>23, EraserGivesUp
<1>24. ASSUME NEW w \in Bthreads, TimerFire(w) PROVE SignalInv'
  BY <1>24 DEF TimerFire,
         SignalInv, Released, Wakers
<1>25. ASSUME TimerDone PROVE SignalInv'
  BY <1>25 DEF TimerDone, EraseReturns,
         SignalInv, Released, Wakers
<1>26. ASSUME NEW c \in Callers, butex_wake(c) PROVE SignalInv'
  BY <1>26, OperationTakes
<1>27. ASSUME NEW c \in Callers, butex_wake_all(c) PROVE SignalInv'
  BY <1>27, OperationTakes
<1>28. ASSUME NEW c \in Callers, NEW excluded \in Excluded, butex_wake_except(c, excluded)
       PROVE  SignalInv'
  BY <1>28, OperationTakes
<1>29. ASSUME NEW c \in Callers, WakeOnePthread(c) PROVE SignalInv'
  <2>1. Range(todo[c]) = {Head(todo[c])} /\ Range(<<>>) = {}
    BY <1>29, TodoFacts, SmallRange DEF WakeOnePthread, WakingPCs, CallerInv
  <2>2. PICK x \in Range(todo[c]) : x = Head(todo[c])
    BY <2>1
  <2>3. Range(<<>>) = Range(todo[c]) \ {x}
    BY <2>1, <2>2
  <2>4. /\ todo' = [todo EXCEPT ![c] = <<>>] /\ UNCHANGED <<container, pc, er, ew>>
        /\ tokens' = tokens /\ sig' = [sig EXCEPT ![x] = TRUE]
    BY <1>29, <2>2 DEF WakeOnePthread, CallerAt, wakeup_pthread, threadVars,
                    eraseVars
  <2> QED BY <2>3, <2>4, CallerGivesUp
<1>30. ASSUME NEW c \in Callers, WakeOneBthread(c) PROVE SignalInv'
  BY <1>30 DEF WakeOneBthread, UnsleepNext,
         SignalInv, Released, Wakers
<1>31. ASSUME NEW c \in Callers, WakeFirst(c) PROVE SignalInv'
  <2>1. Range(todo[c]) = {Head(todo[c])} /\ Range(<<>>) = {}
    BY <1>31, TodoFacts, SmallRange DEF WakeFirst, WakingPCs, CallerInv
  <2>2. PICK x \in Range(todo[c]) : x = Head(todo[c])
    BY <2>1
  <2>3. Range(<<>>) = Range(todo[c]) \ {x}
    BY <2>1, <2>2
  <2>4. /\ todo' = [todo EXCEPT ![c] = <<>>] /\ UNCHANGED <<container, pc, er, ew>>
        /\ sig' = sig /\ tokens' = [tokens EXCEPT ![x] = @ + 1]
    BY <1>31, <2>2 DEF WakeFirst, CallerAt, ready_to_run, recordVars, eraseVars
  <2> QED BY <2>3, <2>4, CallerGivesUp
<1>32. ASSUME NEW c \in Callers, SignalPthread(c) PROVE SignalInv'
  <2>1. PICK i \in 1..Len(todo[c]) :
           /\ wakeup_pthread(todo[c][i])
           /\ todo' = [todo EXCEPT ![c] = RemoveAt(todo[c], i)]
    BY <1>32 DEF SignalPthread, CallerAt
  <2>2. cpc[c] \in WakingPCs
    BY <1>32 DEF SignalPthread, WakingPCs
  <2>3. Range(RemoveAt(todo[c], i)) = Range(todo[c]) \ {todo[c][i]}
    BY <2>2, TodoFacts, RemoveAtRange
  <2>4. PICK x \in Range(todo[c]) : x = todo[c][i]
    BY <2>2, TodoFacts DEF Range
  <2>5. PICK rest : rest = RemoveAt(todo[c], i)
    OBVIOUS
  <2>6. /\ todo' = [todo EXCEPT ![c] = rest] /\ UNCHANGED <<container, pc, er, ew>>
        /\ tokens' = tokens /\ sig' = [sig EXCEPT ![x] = TRUE]
        /\ Range(rest) = Range(todo[c]) \ {x}
    BY <1>32, <2>1, <2>3, <2>4, <2>5
       DEF SignalPthread, wakeup_pthread, threadVars, eraseVars
  <2> QED BY <2>6, CallerGivesUp
<1>33. ASSUME NEW c \in Callers, UnsleepFirst(c) PROVE SignalInv'
  BY <1>33 DEF UnsleepFirst, UnsleepNext,
         SignalInv, Released, Wakers
<1>34. ASSUME NEW c \in Callers, UnsleepTail(c) PROVE SignalInv'
  BY <1>34 DEF UnsleepTail, UnsleepNext,
         SignalInv, Released, Wakers
<1>35. ASSUME NEW c \in Callers, ReadyTail(c) PROVE SignalInv'
  <2>1. cpc[c] \in WakingPCs
    BY <1>35 DEF ReadyTail, WakingPCs
  <2>2. PICK x \in Range(todo[c]) : x = Last(todo[c])
    BY <2>1, TodoFacts
  <2>3. PICK rest : rest = Front(todo[c])
    OBVIOUS
  <2>4. Range(rest) = Range(todo[c]) \ {x}
    BY <2>1, <2>2, <2>3, TodoFacts, FrontRange
  <2>5. /\ todo' = [todo EXCEPT ![c] = rest] /\ UNCHANGED <<container, pc, er, ew>>
        /\ tokens' = tokens \/ tokens' = [tokens EXCEPT ![x] = @ + 1]
        /\ sig' = sig
    BY <1>35, <2>2, <2>3 DEF ReadyTail, CallerAt, ready_to_run_general,
                          ready_to_run, recordVars, eraseVars
  <2> QED BY <2>4, <2>5, CallerGivesUp
<1>36. ASSUME NEW c \in Callers, SetInterrupted(c) PROVE SignalInv'
  BY <1>36 DEF SetInterrupted,
         SignalInv, Released, Wakers
<1>37. ASSUME NEW c \in Callers, set_butex_waiter(c) PROVE SignalInv'
  BY <1>37 DEF set_butex_waiter, EraseReturns,
         SignalInv, Released, Wakers
<1>38. ASSUME UNCHANGED vars PROVE SignalInv'
  BY <1>38 DEF vars, SignalInv, Released, Wakers
<1> QED BY <1>1, <1>2, <1>3, <1>4, <1>5, <1>6, <1>7, <1>8, <1>9, <1>10, <1>11,
           <1>12, <1>13, <1>14, <1>15, <1>16, <1>17, <1>18, <1>19, <1>20,
           <1>21, <1>22, <1>23, <1>24, <1>25, <1>26, <1>27, <1>28, <1>29,
           <1>30, <1>31, <1>32, <1>33, <1>34, <1>35, <1>36, <1>37, <1>38
       DEF Next, Call, BthreadStep, PthreadStep, EraseStep, WakeStep,
            InterruptStep

\* The invariant holds initially.
LEMMA InitInv == Init => ButexInv
<1> SUFFICES ASSUME Init PROVE ButexInv
  OBVIOUS
<1> USE ButexAssumption DEF Init, Waiters, Erasers
<1>1. TypeOK
  <2>1. (CHOOSE v \in Values : TRUE) \in Values /\ (CHOOSE b \in Butexes : TRUE) \in Butexes
    OBVIOUS
  <2> QED BY <2>1 DEF TypeOK, WaiterStates, WaiterPCs, TimerStates, CallerPCs,
                      EraserPCs
<1>2. ThreadInv /\ EraserInv
  BY DEF ThreadInv, EraserInv, BthreadPCs, PthreadPCs
<1>3. CallerInv /\ ContainerIsList
  BY SmallRange DEF CallerInv, ContainerIsList, WakingPCs, ReadyingPCs, WakeOps
<1>4. \A w : Wakers(w) = {}
  BY SmallRange DEF Wakers
<1>5. AtMostOneWaker /\ SignalInv
  BY <1>4 DEF AtMostOneWaker, SignalInv, Released, Suspended
<1> QED BY <1>1, <1>2, <1>3, <1>5 DEF ButexInv

\* Every reachable state satisfies the inductive invariant of butex_wait,
\* butex_wake* and interrupt, when the container of a pthread record is NULL
\* before the record is queued.
THEOREM ButexInvariant ==
    ASSUME StaleContainers = {NULL}
    PROVE  Spec => []ButexInv
<1>1. ButexInv /\ [Next]_vars => ButexInv'
  BY TypeInductive, ThreadInductive, EraserInductive, CallerInductive,
     ContainerInductive, WakerInductive, SignalInductive
     DEF ButexInv
<1> QED BY InitInv, <1>1, PTL DEF Spec

\* Type correctness.
THEOREM TypeCorrect ==
    ASSUME StaleContainers = {NULL}
    PROVE  Spec => []TypeOK
<1>1. ButexInv => TypeOK
  BY DEF ButexInv
<1> QED BY ButexInvariant, <1>1, PTL

\* The container field always names the list that holds the waiter, so
\* erase_from_butex unlinks a waiter from the list it is in.
THEOREM ContainerCorrect ==
    ASSUME StaleContainers = {NULL}
    PROVE  Spec => []ContainerIsList
<1>1. ButexInv => ContainerIsList
  BY DEF ButexInv
<1> QED BY ButexInvariant, <1>1, PTL

\* However many wakers, timers and interrupters race for a waiter, one of them
\* gets it, and its tid is queued once.
THEOREM OneWaker ==
    ASSUME StaleContainers = {NULL}
    PROVE  Spec => []AtMostOneWaker
<1>1. ButexInv => AtMostOneWaker
  BY DEF ButexInv
<1> QED BY ButexInvariant, <1>1, PTL

-----------------------------------------------------------------------------
(* What the remaining properties need: who holds waiter_lock, what a       *)
(* container can be, how long timers and interrupters use a record.        *)

Appending == {"append", "p_append"}
Returning == {"idle", "ret", "p_ret"}

\* waiter_lock is held across two steps by the thread that will append, only.
LockInv ==
    \A b \in Butexes, w \in Waiters :
       waiter_lock[b] = w <=> pc[w] \in Appending /\ butex[w] = b

\* A waiter is queued on the butex it waits on.
HomeInv == \A w \in Waiters : container[w] \in {butex[w], NULL}

\* A timer that was not removed is known to its waiter, which has not gone past
\* the first spin; the TimerThread works for such a waiter.
TimerInv ==
    /\ \A w \in Waiters : timer[w] \in {"pending", "running"} =>
          sleep_id[w] /\ pc[w] \notin {"idle", "spin", "ret"}
    /\ \A w \in Pthreads : timer[w] = "none" /\ ~sleep_id[w]
    /\ er[TimerThread] # "idle" => timer[ew[TimerThread]] = "running"

\* Caller c has taken current_waiter from w and not put it back.
Taken(c, w) == cpc[c] \in {"int_flag", "int_erase"} /\ ew[c] = w

\* One interrupter at a time has a waiter in hand, which has not gone past the
\* second spin.
InterruptInv ==
    /\ \A w \in Waiters : current_waiter[w] =>
          pc[w] \notin Returning /\ w \in Bthreads \cup TaskPthreads
    /\ \A c \in Callers, w \in Waiters : Taken(c, w) =>
          /\ ~current_waiter[w] /\ pc[w] \notin Returning
          /\ w \in Bthreads \cup TaskPthreads
          /\ \A d \in Callers : Taken(d, w) => d = c

RecordInv == ButexInv /\ LockInv /\ HomeInv /\ TimerInv /\ InterruptInv

\* The steps of the waiting threads, and those of all others.
WaiterStep ==
    \/ \E w \in Bthreads : (\E b \in Butexes : butex_wait(w, b)) \/ BthreadStep(w)
    \/ \E w \in Pthreads :
          (\E b \in Butexes : butex_wait_from_pthread(w, b)) \/ PthreadStep(w)

OtherStep ==
    \/ \E c \in Callers, b \in Butexes, op \in Ops, v \in Values : CallWake(c, b, op, v)
    \/ \E c \in Callers, w \in Waiters : interrupt(c, w)
    \/ \E a \in Erasers : EraseStep(a)
    \/ \E w \in Bthreads : TimerFire(w)
    \/ TimerDone
    \/ \E c \in Callers : WakeStep(c) \/ InterruptStep(c)

\* A step is one of a waiter or one that leaves the waiters alone.
LEMMA StepSplits == Next => WaiterStep \/ OtherStep
BY DEF Next, Call, WaiterStep, OtherStep

\* The drain of a butex changes neither the waiters nor the lock.
LEMMA OperationKeeps ==
    ASSUME NEW c, \/ butex_wake(c)
                  \/ butex_wake_all(c)
                  \/ \E excluded \in Excluded : butex_wake_except(c, excluded)
    PROVE  UNCHANGED <<waiter_lock, expected_value, butex, pc, value, waiter_state,
                       sleep_id, timer, current_waiter, er, ew, tokens, sig>>
<1>1. ASSUME NEW s, NEW rest, NEW next, Drain(c, s, rest, next)
      PROVE  UNCHANGED <<waiter_lock, expected_value, butex, pc, value, waiter_state,
                         sleep_id, timer, current_waiter, er, ew, tokens, sig>>
  BY <1>1 DEF Drain, metaVars, threadVars, eraseVars
<1> QED BY <1>1 DEF butex_wake, butex_wake_all, butex_wake_except

\* What only the waiter itself changes.
LEMMA OthersKeepPlaces ==
    ASSUME OtherStep
    PROVE  UNCHANGED <<waiter_lock, expected_value, butex, pc>>
<1> USE DEF butexVars, recordVars, metaVars, threadVars, callerVars, eraseVars
<1>1. ASSUME NEW c \in Callers, WakeStep(c)
      PROVE  UNCHANGED <<waiter_lock, expected_value, butex, pc>>
  BY <1>1, OperationKeeps
     DEF WakeStep, WakeOnePthread, WakeOneBthread, WakeFirst, SignalPthread, UnsleepFirst,
         UnsleepTail, UnsleepNext, ReadyTail
<1>2. ASSUME NEW c \in Callers, InterruptStep(c)
      PROVE  UNCHANGED <<waiter_lock, expected_value, butex, pc>>
  BY <1>2 DEF InterruptStep, SetInterrupted, set_butex_waiter
<1>3. ASSUME NEW a \in Erasers, EraseStep(a)
      PROVE  UNCHANGED <<waiter_lock, expected_value, butex, pc>>
  BY <1>3 DEF EraseStep, EraseLoad, EraseLocked, EraseWake
<1>4. ASSUME \/ \E c \in Callers, b \in Butexes, op \in Ops, v \in Values : CallWake(c, b, op, v)
             \/ \E c \in Callers, w \in Waiters : interrupt(c, w)
             \/ \E w \in Bthreads : TimerFire(w)
             \/ TimerDone
      PROVE  UNCHANGED <<waiter_lock, expected_value, butex, pc>>
  BY <1>4 DEF CallWake, interrupt, TimerFire, TimerDone
<1> QED BY <1>1, <1>2, <1>3, <1>4 DEF OtherStep


\* Every step keeps waiter_lock with the thread that will append.
LEMMA LockInductive ==
    ASSUME StaleContainers = {NULL}, RecordInv, [Next]_vars
    PROVE  LockInv'
<1> USE ButexAssumption DEF RecordInv, ButexInv, TypeOK, ThreadInv, Waiters, Erasers,
           butexVars, recordVars, metaVars, threadVars, callerVars, eraseVars,
           LockInv, Appending
<1>1. ASSUME NEW w \in Bthreads, NEW b \in Butexes, butex_wait(w, b)
      PROVE  LockInv'
  BY <1>1 DEF butex_wait
<1>2. ASSUME NEW w \in Bthreads, wait_for_butex(w) PROVE LockInv'
  <2>1. CASE waiter_lock' = waiter_lock
    BY <1>2, <2>1 DEF wait_for_butex
  <2>2. CASE pc'[w] \in Appending
    <3>1. /\ waiter_lock[butex[w]] = NULL /\ pc[w] \notin Appending /\ butex' = butex
          /\ waiter_lock' = [waiter_lock EXCEPT ![butex[w]] = w]
          /\ pc' = [pc EXCEPT ![w] = "append"]
      BY <1>2, <2>2 DEF wait_for_butex, Unlocked
    <3> QED BY <3>1
  <2> QED BY <1>2, <2>1, <2>2 DEF wait_for_butex
<1>3. ASSUME NEW w \in Bthreads, Append_waiter(w, "append", "blocked")
      PROVE  LockInv'
  BY <1>3 DEF Append_waiter
<1>4. ASSUME NEW w \in Bthreads, CancelUnsleep(w) PROVE LockInv'
  BY <1>4 DEF CancelUnsleep
<1>5. ASSUME NEW w \in Bthreads, CancelReady(w) PROVE LockInv'
  BY <1>5 DEF CancelReady
<1>6. ASSUME NEW w \in Bthreads, Resume(w) PROVE LockInv'
  BY <1>6 DEF Resume
<1>7. ASSUME NEW w \in Bthreads, SpinTimer(w) PROVE LockInv'
  BY <1>7 DEF SpinTimer
<1>8. ASSUME NEW w \in Bthreads, SpinWaiter(w, "spin", "ret")
      PROVE  LockInv'
  BY <1>8 DEF SpinWaiter
<1>9. ASSUME NEW w \in Bthreads, Return(w, "ret") PROVE LockInv'
  BY <1>9 DEF Return
<1>10. ASSUME NEW w \in Pthreads, NEW b \in Butexes, butex_wait_from_pthread(w, b)
      PROVE  LockInv'
  BY <1>10 DEF butex_wait_from_pthread
<1>11. ASSUME NEW w \in Pthreads, PthreadCheck(w) PROVE LockInv'
  <2>1. CASE waiter_lock' = waiter_lock
    BY <1>11, <2>1 DEF PthreadCheck
  <2>2. CASE pc'[w] \in Appending
    <3>1. /\ waiter_lock[butex[w]] = NULL /\ pc[w] \notin Appending /\ butex' = butex
          /\ waiter_lock' = [waiter_lock EXCEPT ![butex[w]] = w]
          /\ pc' = [pc EXCEPT ![w] = "p_append"]
      BY <1>11, <2>2 DEF PthreadCheck, Unlocked
    <3> QED BY <3>1
  <2> QED BY <1>11, <2>1, <2>2 DEF PthreadCheck
<1>12. ASSUME NEW w \in Pthreads, Append_waiter(w, "p_append", "p_futex")
      PROVE  LockInv'
  BY <1>12 DEF Append_waiter
<1>13. ASSUME NEW w \in Pthreads, FutexSignalled(w) PROVE LockInv'
  BY <1>13 DEF FutexSignalled
<1>14. ASSUME NEW w \in Pthreads, FutexTimeout(w) PROVE LockInv'
  BY <1>14 DEF FutexTimeout
<1>15. ASSUME NEW w \in Pthreads, FutexErased(w) PROVE LockInv'
  BY <1>15 DEF FutexErased, EraseReturns
<1>16. ASSUME NEW w \in Pthreads, PthreadReturn(w) PROVE LockInv'
  BY <1>16 DEF PthreadReturn
<1>17. ASSUME NEW w \in Pthreads, w \in TaskPthreads, SpinWaiter(w, "p_exit", "p_ret")
      PROVE  LockInv'
  BY <1>17 DEF SpinWaiter
<1>18. ASSUME NEW w \in Pthreads, Return(w, "p_ret") PROVE LockInv'
  BY <1>18 DEF Return
<1>19. ASSUME OtherStep PROVE LockInv'
  BY <1>19, OthersKeepPlaces
<1>20. ASSUME UNCHANGED vars PROVE LockInv'
  BY <1>20 DEF vars
<1> QED BY <1>1, <1>2, <1>3, <1>4, <1>5, <1>6, <1>7, <1>8, <1>9, <1>10, <1>11, <1>12, <1>13, <1>14, <1>15, <1>16, <1>17, <1>18, <1>19, <1>20, StepSplits
       DEF WaiterStep, BthreadStep, PthreadStep



\* The others can only take a waiter off its butex.
LEMMA OthersDetach ==
    ASSUME ButexInv, OtherStep, NEW w \in Waiters
    PROVE  container'[w] \in {container[w], NULL}
<1> USE DEF butexVars, recordVars, metaVars, threadVars, callerVars, eraseVars
<1>1. ASSUME NEW c, NEW s, NEW rest, NEW next, Drain(c, s, rest, next)
      PROVE  container'[w] \in {container[w], NULL}
  BY <1>1 DEF Drain, Detached
<1>2. ASSUME NEW c \in Callers, WakeStep(c)
      PROVE  container'[w] \in {container[w], NULL}
  BY <1>1, <1>2
     DEF WakeStep, butex_wake, butex_wake_all, butex_wake_except, WakeOnePthread,
         WakeOneBthread, WakeFirst, SignalPthread, UnsleepFirst, UnsleepTail, UnsleepNext,
         ReadyTail
<1>3. ASSUME NEW c \in Callers, InterruptStep(c)
      PROVE  container'[w] \in {container[w], NULL}
  BY <1>3 DEF InterruptStep, SetInterrupted, set_butex_waiter
<1>4. ASSUME NEW a \in Erasers, EraseStep(a)
      PROVE  container'[w] \in {container[w], NULL}
  BY <1>4 DEF EraseStep, EraseLoad, EraseLocked, EraseWake, ButexInv, TypeOK
<1>5. ASSUME \/ \E c \in Callers, b \in Butexes, op \in Ops, v \in Values : CallWake(c, b, op, v)
             \/ \E c \in Callers, x \in Waiters : interrupt(c, x)
             \/ \E x \in Bthreads : TimerFire(x)
             \/ TimerDone
      PROVE  container'[w] \in {container[w], NULL}
  BY <1>5 DEF CallWake, interrupt, TimerFire, TimerDone
<1> QED BY <1>2, <1>3, <1>4, <1>5 DEF OtherStep

\* Every step keeps queued waiters on the butex they wait on.
LEMMA HomeInductive ==
    ASSUME StaleContainers = {NULL}, RecordInv, [Next]_vars
    PROVE  HomeInv'
<1> USE ButexAssumption DEF RecordInv, ButexInv, TypeOK, ThreadInv, Waiters, Erasers,
           butexVars, recordVars, metaVars, threadVars, callerVars, eraseVars,
           HomeInv
<1>1. ASSUME NEW w \in Bthreads, NEW b \in Butexes, butex_wait(w, b)
      PROVE  HomeInv'
  BY <1>1 DEF butex_wait, AtMostOneWaker, Suspended
<1>2. ASSUME NEW w \in Bthreads, wait_for_butex(w) PROVE HomeInv'
  BY <1>2 DEF wait_for_butex
<1>3. ASSUME NEW w \in Bthreads, Append_waiter(w, "append", "blocked")
      PROVE  HomeInv'
  BY <1>3 DEF Append_waiter
<1>4. ASSUME NEW w \in Bthreads, CancelUnsleep(w) PROVE HomeInv'
  BY <1>4 DEF CancelUnsleep
<1>5. ASSUME NEW w \in Bthreads, CancelReady(w) PROVE HomeInv'
  BY <1>5 DEF CancelReady
<1>6. ASSUME NEW w \in Bthreads, Resume(w) PROVE HomeInv'
  BY <1>6 DEF Resume
<1>7. ASSUME NEW w \in Bthreads, SpinTimer(w) PROVE HomeInv'
  BY <1>7 DEF SpinTimer
<1>8. ASSUME NEW w \in Bthreads, SpinWaiter(w, "spin", "ret")
      PROVE  HomeInv'
  BY <1>8 DEF SpinWaiter
<1>9. ASSUME NEW w \in Bthreads, Return(w, "ret") PROVE HomeInv'
  BY <1>9 DEF Return
<1>10. ASSUME NEW w \in Pthreads, NEW b \in Butexes, butex_wait_from_pthread(w, b)
      PROVE  HomeInv'
  BY <1>10 DEF butex_wait_from_pthread, AtMostOneWaker, Suspended
<1>11. ASSUME NEW w \in Pthreads, PthreadCheck(w) PROVE HomeInv'
  BY <1>11 DEF PthreadCheck
<1>12. ASSUME NEW w \in Pthreads, Append_waiter(w, "p_append", "p_futex")
      PROVE  HomeInv'
  BY <1>12 DEF Append_waiter
<1>13. ASSUME NEW w \in Pthreads, FutexSignalled(w) PROVE HomeInv'
  BY <1>13 DEF FutexSignalled
<1>14. ASSUME NEW w \in Pthreads, FutexTimeout(w) PROVE HomeInv'
  BY <1>14 DEF FutexTimeout
<1>15. ASSUME NEW w \in Pthreads, FutexErased(w) PROVE HomeInv'
  BY <1>15 DEF FutexErased, EraseReturns
<1>16. ASSUME NEW w \in Pthreads, PthreadReturn(w) PROVE HomeInv'
  BY <1>16 DEF PthreadReturn
<1>17. ASSUME NEW w \in Pthreads, w \in TaskPthreads, SpinWaiter(w, "p_exit", "p_ret")
      PROVE  HomeInv'
  BY <1>17 DEF SpinWaiter
<1>18. ASSUME NEW w \in Pthreads, Return(w, "p_ret") PROVE HomeInv'
  BY <1>18 DEF Return
<1>19. ASSUME OtherStep PROVE HomeInv'
  BY <1>19, OthersKeepPlaces, OthersDetach
<1>20. ASSUME UNCHANGED vars PROVE HomeInv'
  BY <1>20 DEF vars
<1> QED BY <1>1, <1>2, <1>3, <1>4, <1>5, <1>6, <1>7, <1>8, <1>9, <1>10, <1>11, <1>12, <1>13, <1>14, <1>15, <1>16, <1>17, <1>18, <1>19, <1>20, StepSplits
       DEF WaiterStep, BthreadStep, PthreadStep


\* unsleep_if_necessary never removes a timer whose callback is running.
LEMMA UnsleepKeepsTimers ==
    ASSUME TypeOK, TimerInv, NEW w \in Waiters, unsleep_if_necessary(w),
           UNCHANGED <<pc, er, ew>>
    PROVE  TimerInv'
<1>1. CASE UNCHANGED <<sleep_id, timer>>
  BY <1>1 DEF TimerInv
<1>2. CASE /\ sleep_id[w] /\ ~TimerRunning(w)
           /\ sleep_id' = [sleep_id EXCEPT ![w] = FALSE]
           /\ timer' = [timer EXCEPT ![w] = "done"]
  <2>1. \A x \in Waiters : x # w => timer'[x] = timer[x] /\ sleep_id'[x] = sleep_id[x]
    BY <1>2 DEF TypeOK
  <2>2. timer'[w] = "done" /\ timer[w] # "running" /\ w \notin Pthreads
    BY <1>2 DEF TypeOK, TimerRunning, TimerInv
  <2>3. \A x \in Pthreads : x \in Waiters
    BY DEF Waiters
  <2>4. er[TimerThread] # "idle" => ew[TimerThread] # w
    BY <2>2 DEF TimerInv
  <2>5. er[TimerThread] # "idle" => timer'[ew[TimerThread]] = "running"
    BY <1>2, <2>4 DEF TimerInv, TypeOK
  <2> QED BY <2>1, <2>2, <2>3, <2>5 DEF TimerInv
<1> QED BY <1>1, <1>2 DEF unsleep_if_necessary

\* The wakers and interrupters do the same.
LEMMA CallersKeepTimers ==
    ASSUME RecordInv, NEW c \in Callers, WakeStep(c) \/ InterruptStep(c)
    PROVE  TimerInv'
<1> USE ButexAssumption DEF RecordInv, butexVars, recordVars, metaVars, threadVars,
           callerVars, eraseVars
<1>1. ASSUME NEW w, UnsleepNext(c, w, "wake_one_ready") \/ UnsleepNext(c, w, "all_tail")
                 \/ UnsleepNext(c, w, "all_ready") \/ UnsleepNext(c, w, "except_ready"),
             w \in Waiters
      PROVE  TimerInv'
  BY <1>1, UnsleepKeepsTimers DEF UnsleepNext, ButexInv
<1>2. CASE WakeOneBthread(c)
  <2>1. Head(todo[c]) \in Waiters
    BY <1>2 DEF WakeOneBthread, Waiters
  <2> QED BY <1>1, <1>2, <2>1 DEF WakeOneBthread
<1>3. CASE UnsleepFirst(c) \/ UnsleepTail(c)
  <2>1. cpc[c] \in WakingPCs
    BY <1>3 DEF UnsleepFirst, UnsleepTail, WakingPCs
  <2>2. Head(todo[c]) \in Waiters /\ Last(todo[c]) \in Waiters
    BY <2>1, TodoFacts
  <2> QED BY <1>1, <1>3, <2>2 DEF UnsleepFirst, UnsleepTail
<1>4. CASE \/ butex_wake(c) \/ butex_wake_all(c)
           \/ \E excluded \in Excluded : butex_wake_except(c, excluded)
           \/ WakeOnePthread(c) \/ WakeFirst(c) \/ SignalPthread(c) \/ ReadyTail(c)
  <2>1. UNCHANGED <<timer, sleep_id, pc, er, ew>>
    BY <1>4, OperationKeeps DEF WakeOnePthread, WakeFirst, SignalPthread, ReadyTail
  <2> QED BY <2>1 DEF TimerInv
<1>5. CASE InterruptStep(c)
  <2>1. UNCHANGED <<timer, sleep_id, pc>>
    BY <1>5 DEF InterruptStep, SetInterrupted, set_butex_waiter
  <2>2. er'[TimerThread] = er[TimerThread] /\ ew'[TimerThread] = ew[TimerThread]
    BY <1>5 DEF InterruptStep, SetInterrupted, set_butex_waiter, EraseReturns, ButexInv,
                TypeOK, Erasers
  <2> QED BY <2>1, <2>2 DEF TimerInv
<1> QED BY <1>2, <1>3, <1>4, <1>5 DEF WakeStep

\* Every step keeps timers within the time in which their waiter can be woken.
LEMMA TimerInductive ==
    ASSUME StaleContainers = {NULL}, RecordInv, [Next]_vars
    PROVE  TimerInv'
<1> USE ButexAssumption DEF RecordInv, ButexInv, TypeOK, ThreadInv, Waiters, Erasers,
           butexVars, recordVars, metaVars, threadVars, callerVars, eraseVars,
           TimerInv
<1>1. ASSUME NEW w \in Bthreads, NEW b \in Butexes, butex_wait(w, b)
      PROVE  TimerInv'
  BY <1>1 DEF butex_wait
<1>2. ASSUME NEW w \in Bthreads, wait_for_butex(w) PROVE TimerInv'
  BY <1>2 DEF wait_for_butex
<1>3. ASSUME NEW w \in Bthreads, Append_waiter(w, "append", "blocked")
      PROVE  TimerInv'
  BY <1>3 DEF Append_waiter
<1>4. ASSUME NEW w \in Bthreads, CancelUnsleep(w) PROVE TimerInv'
  <2>1. pc' = [pc EXCEPT ![w] = "cancel_ready"] /\ UNCHANGED <<er, ew>>
    BY <1>4 DEF CancelUnsleep
  <2>2. CASE UNCHANGED <<sleep_id, timer>>
    BY <1>4, <2>1, <2>2 DEF CancelUnsleep
  <2>3. CASE /\ sleep_id[w] /\ timer[w] # "running"
             /\ sleep_id' = [sleep_id EXCEPT ![w] = FALSE]
             /\ timer' = [timer EXCEPT ![w] = "done"]
    BY <1>4, <2>1, <2>3 DEF CancelUnsleep
  <2> QED BY <1>4, <2>2, <2>3 DEF CancelUnsleep, unsleep_if_necessary, TimerRunning
<1>5. ASSUME NEW w \in Bthreads, CancelReady(w) PROVE TimerInv'
  BY <1>5 DEF CancelReady
<1>6. ASSUME NEW w \in Bthreads, Resume(w) PROVE TimerInv'
  BY <1>6 DEF Resume
<1>7. ASSUME NEW w \in Bthreads, SpinTimer(w) PROVE TimerInv'
  <2>1. /\ pc[w] = "woken" /\ pc' = [pc EXCEPT ![w] = "spin"] /\ UNCHANGED <<er, ew>>
        /\ ~(sleep_id[w] /\ timer[w] = "running")
    BY <1>7 DEF SpinTimer, TimerRunning
  <2>2. CASE ~sleep_id[w] /\ UNCHANGED <<sleep_id, timer>>
    BY <2>1, <2>2
  <2>3. CASE /\ sleep_id[w] /\ timer[w] # "running"
             /\ sleep_id' = [sleep_id EXCEPT ![w] = FALSE]
             /\ timer' = [timer EXCEPT ![w] = "done"]
    BY <2>1, <2>3
  <2> QED BY <1>7, <2>1, <2>2, <2>3 DEF SpinTimer, unsleep_if_necessary, TimerRunning
<1>8. ASSUME NEW w \in Bthreads, SpinWaiter(w, "spin", "ret")
      PROVE  TimerInv'
  BY <1>8 DEF SpinWaiter
<1>9. ASSUME NEW w \in Bthreads, Return(w, "ret") PROVE TimerInv'
  BY <1>9 DEF Return
<1>10. ASSUME NEW w \in Pthreads, NEW b \in Butexes, butex_wait_from_pthread(w, b)
      PROVE  TimerInv'
  BY <1>10 DEF butex_wait_from_pthread
<1>11. ASSUME NEW w \in Pthreads, PthreadCheck(w) PROVE TimerInv'
  BY <1>11 DEF PthreadCheck
<1>12. ASSUME NEW w \in Pthreads, Append_waiter(w, "p_append", "p_futex")
      PROVE  TimerInv'
  BY <1>12 DEF Append_waiter
<1>13. ASSUME NEW w \in Pthreads, FutexSignalled(w) PROVE TimerInv'
  BY <1>13 DEF FutexSignalled
<1>14. ASSUME NEW w \in Pthreads, FutexTimeout(w) PROVE TimerInv'
  BY <1>14 DEF FutexTimeout
<1>15. ASSUME NEW w \in Pthreads, FutexErased(w) PROVE TimerInv'
  BY <1>15 DEF FutexErased, EraseReturns
<1>16. ASSUME NEW w \in Pthreads, PthreadReturn(w) PROVE TimerInv'
  BY <1>16 DEF PthreadReturn
<1>17. ASSUME NEW w \in Pthreads, w \in TaskPthreads, SpinWaiter(w, "p_exit", "p_ret")
      PROVE  TimerInv'
  BY <1>17 DEF SpinWaiter
<1>18. ASSUME NEW w \in Pthreads, Return(w, "p_ret") PROVE TimerInv'
  BY <1>18 DEF Return
<1>19. ASSUME OtherStep PROVE TimerInv'
  <2>1. ASSUME NEW c \in Callers, NEW b \in Butexes, NEW op \in Ops, NEW v \in Values,
               CallWake(c, b, op, v)
        PROVE  TimerInv'
    BY <2>1 DEF CallWake
  <2>2. ASSUME NEW c \in Callers, NEW w \in Waiters, interrupt(c, w) PROVE TimerInv'
    BY <2>2 DEF interrupt
  <2>3. ASSUME NEW a \in Erasers, EraseStep(a) PROVE TimerInv'
    <3>1. UNCHANGED <<timer, sleep_id, pc, ew>> /\ er[a] # "idle"
      BY <2>3 DEF EraseStep, EraseLoad, EraseLocked, EraseWake
    <3>2. er'[TimerThread] # "idle" => er[TimerThread] # "idle"
      BY <2>3, <3>1 DEF EraseStep, EraseLoad, EraseLocked, EraseWake
    <3> QED BY <3>1, <3>2
  <2>4. ASSUME NEW w \in Bthreads, TimerFire(w) PROVE TimerInv'
    BY <2>4 DEF TimerFire
  <2>5. CASE TimerDone
    BY <2>5 DEF TimerDone, EraseReturns
  <2>6. ASSUME NEW c \in Callers, WakeStep(c) \/ InterruptStep(c) PROVE TimerInv'
    BY <2>6, CallersKeepTimers
  <2> QED BY <1>19, <2>1, <2>2, <2>3, <2>4, <2>5, <2>6 DEF OtherStep
<1>20. ASSUME UNCHANGED vars PROVE TimerInv'
  BY <1>20 DEF vars
<1> QED BY <1>1, <1>2, <1>3, <1>4, <1>5, <1>6, <1>7, <1>8, <1>9, <1>10, <1>11, <1>12, <1>13, <1>14, <1>15, <1>16, <1>17, <1>18, <1>19, <1>20, StepSplits
       DEF WaiterStep, BthreadStep, PthreadStep


\* The interrupters, the TimerThread and the wakers leave a waiter that was taken to
\* the one who took it.
LEMMA OthersKeepTaken ==
    ASSUME RecordInv, OtherStep
    PROVE  InterruptInv'
<1> USE ButexAssumption DEF RecordInv, ButexInv, TypeOK, Waiters, Erasers, butexVars,
           recordVars, metaVars, threadVars, callerVars, eraseVars
<1>1. ASSUME UNCHANGED <<pc, current_waiter>>,
             \A c \in Callers, w \in Waiters : Taken(c, w)' => Taken(c, w)
      PROVE  InterruptInv'
  BY <1>1 DEF InterruptInv
<1>2. ASSUME NEW c \in Callers, NEW b \in Butexes, NEW op \in Ops, NEW v \in Values,
             CallWake(c, b, op, v)
      PROVE  InterruptInv'
  BY <1>1, <1>2 DEF CallWake, Taken, WakeOps
<1>3. ASSUME NEW c \in Callers, NEW w \in Waiters, interrupt(c, w) PROVE InterruptInv'
  <2>1. /\ pc' = pc /\ current_waiter' = [current_waiter EXCEPT ![w] = FALSE]
        /\ ew' = [ew EXCEPT ![c] = w] /\ cpc[c] = "idle" /\ w \in Bthreads \cup TaskPthreads
        /\ cpc' = [cpc EXCEPT ![c] = IF current_waiter[w] THEN "int_flag"
                                                          ELSE "int_flag_only"]
    BY <1>3 DEF interrupt
  <2>2. \A d \in Callers, x \in Waiters :
           Taken(d, x)' => Taken(d, x) \/ (d = c /\ x = w /\ current_waiter[w])
    BY <2>1 DEF Taken
  <2>3. \A x \in Waiters : current_waiter'[x] => current_waiter[x] /\ x # w
    BY <2>1
  <2> QED BY <2>1, <2>2, <2>3 DEF InterruptInv
<1>4. ASSUME NEW a \in Erasers, EraseStep(a) PROVE InterruptInv'
  BY <1>1, <1>4 DEF EraseStep, EraseLoad, EraseLocked, EraseWake, Taken
<1>5. ASSUME (\E w \in Bthreads : TimerFire(w)) \/ TimerDone PROVE InterruptInv'
  BY <1>1, <1>5 DEF TimerFire, TimerDone, EraseReturns, Taken
<1>6. ASSUME NEW c \in Callers, WakeStep(c) PROVE InterruptInv'
  <2>1. UNCHANGED <<pc, current_waiter, ew>>
    BY <1>6, OperationKeeps
       DEF WakeStep, WakeOnePthread, WakeOneBthread, WakeFirst, SignalPthread, UnsleepFirst,
           UnsleepTail, UnsleepNext, ReadyTail
  <2>2. /\ cpc'[c] \notin {"int_flag", "int_erase"}
        /\ \A d \in Callers : d # c => cpc'[d] = cpc[d]
    BY <1>6
       DEF WakeStep, butex_wake, butex_wake_all, butex_wake_except, Drain, WakeOnePthread,
           WakeOneBthread, WakeFirst, SignalPthread, UnsleepFirst, UnsleepTail, UnsleepNext,
           ReadyTail, CallerAt
  <2> QED BY <1>1, <2>1, <2>2 DEF Taken
<1>7. ASSUME NEW c \in Callers, SetInterrupted(c) PROVE InterruptInv'
  BY <1>1, <1>7 DEF SetInterrupted, Taken
<1>8. ASSUME NEW c \in Callers, set_butex_waiter(c) PROVE InterruptInv'
  <2>1. PICK w \in Waiters : w = ew[c]
    BY <1>8 DEF set_butex_waiter, EraserInv
  <2>2. /\ pc' = pc /\ current_waiter' = [current_waiter EXCEPT ![w] = TRUE]
        /\ ew' = [ew EXCEPT ![c] = NULL] /\ cpc' = [cpc EXCEPT ![c] = "idle"]
        /\ Taken(c, w)
    BY <1>8, <2>1 DEF set_butex_waiter, EraseReturns, Taken
  <2>3. \A d \in Callers, x \in Waiters : Taken(d, x)' => Taken(d, x) /\ d # c
    BY <2>2 DEF Taken
  <2>4. \A d \in Callers, x \in Waiters : Taken(d, x)' => x # w
    BY <2>2, <2>3 DEF InterruptInv
  <2> QED BY <2>2, <2>3, <2>4 DEF InterruptInv
<1> QED BY <1>2, <1>3, <1>4, <1>5, <1>6, <1>7, <1>8 DEF OtherStep, InterruptStep

\* Every step keeps the waiter of an interrupter in its spin.
LEMMA InterruptInductive ==
    ASSUME StaleContainers = {NULL}, RecordInv, [Next]_vars
    PROVE  InterruptInv'
<1> USE ButexAssumption DEF RecordInv, ButexInv, TypeOK, ThreadInv, Waiters, Erasers,
           butexVars, recordVars, metaVars, threadVars, callerVars, eraseVars,
           InterruptInv, Taken, Returning
<1>1. ASSUME NEW w \in Bthreads, NEW b \in Butexes, butex_wait(w, b)
      PROVE  InterruptInv'
  BY <1>1 DEF butex_wait
<1>2. ASSUME NEW w \in Bthreads, wait_for_butex(w) PROVE InterruptInv'
  BY <1>2 DEF wait_for_butex
<1>3. ASSUME NEW w \in Bthreads, Append_waiter(w, "append", "blocked")
      PROVE  InterruptInv'
  BY <1>3 DEF Append_waiter
<1>4. ASSUME NEW w \in Bthreads, CancelUnsleep(w) PROVE InterruptInv'
  BY <1>4 DEF CancelUnsleep
<1>5. ASSUME NEW w \in Bthreads, CancelReady(w) PROVE InterruptInv'
  BY <1>5 DEF CancelReady
<1>6. ASSUME NEW w \in Bthreads, Resume(w) PROVE InterruptInv'
  BY <1>6 DEF Resume
<1>7. ASSUME NEW w \in Bthreads, SpinTimer(w) PROVE InterruptInv'
  BY <1>7 DEF SpinTimer
<1>8. ASSUME NEW w \in Bthreads, SpinWaiter(w, "spin", "ret")
      PROVE  InterruptInv'
  BY <1>8 DEF SpinWaiter
<1>9. ASSUME NEW w \in Bthreads, Return(w, "ret") PROVE InterruptInv'
  BY <1>9 DEF Return
<1>10. ASSUME NEW w \in Pthreads, NEW b \in Butexes, butex_wait_from_pthread(w, b)
      PROVE  InterruptInv'
  BY <1>10 DEF butex_wait_from_pthread
<1>11. ASSUME NEW w \in Pthreads, PthreadCheck(w) PROVE InterruptInv'
  BY <1>11 DEF PthreadCheck
<1>12. ASSUME NEW w \in Pthreads, Append_waiter(w, "p_append", "p_futex")
      PROVE  InterruptInv'
  BY <1>12 DEF Append_waiter
<1>13. ASSUME NEW w \in Pthreads, FutexSignalled(w) PROVE InterruptInv'
  BY <1>13 DEF FutexSignalled
<1>14. ASSUME NEW w \in Pthreads, FutexTimeout(w) PROVE InterruptInv'
  BY <1>14 DEF FutexTimeout
<1>15. ASSUME NEW w \in Pthreads, FutexErased(w) PROVE InterruptInv'
  BY <1>15 DEF FutexErased, EraseReturns
<1>16. ASSUME NEW w \in Pthreads, PthreadReturn(w) PROVE InterruptInv'
  BY <1>16 DEF PthreadReturn
<1>17. ASSUME NEW w \in Pthreads, w \in TaskPthreads, SpinWaiter(w, "p_exit", "p_ret")
      PROVE  InterruptInv'
  BY <1>17 DEF SpinWaiter
<1>18. ASSUME NEW w \in Pthreads, Return(w, "p_ret") PROVE InterruptInv'
  BY <1>18 DEF Return
<1>19. ASSUME OtherStep PROVE InterruptInv'
  BY <1>19, OthersKeepTaken
<1>20. ASSUME UNCHANGED vars PROVE InterruptInv'
  BY <1>20 DEF vars
<1> QED BY <1>1, <1>2, <1>3, <1>4, <1>5, <1>6, <1>7, <1>8, <1>9, <1>10, <1>11, <1>12, <1>13, <1>14, <1>15, <1>16, <1>17, <1>18, <1>19, <1>20, StepSplits
       DEF WaiterStep, BthreadStep, PthreadStep


\* Every reachable state satisfies the invariant about the records too.
THEOREM RecordInvariant ==
    ASSUME StaleContainers = {NULL}
    PROVE  Spec => []RecordInv
<1>1. Init => LockInv /\ HomeInv /\ TimerInv /\ InterruptInv
  BY ButexAssumption
     DEF Init, LockInv, HomeInv, TimerInv, InterruptInv, Taken, Appending, Returning, Waiters,
         Erasers
<1>2. ButexInv /\ [Next]_vars => ButexInv'
  BY TypeInductive, ThreadInductive, EraserInductive, CallerInductive,
     ContainerInductive, WakerInductive, SignalInductive
     DEF ButexInv
<1>3. RecordInv /\ [Next]_vars => RecordInv'
  BY <1>2, LockInductive, HomeInductive, TimerInductive, InterruptInductive DEF RecordInv
<1>4. Init => RecordInv
  BY InitInv, <1>1 DEF RecordInv
<1> QED BY <1>3, <1>4, PTL DEF Spec

\* Once butex_wait has returned, no list, waker, timer, interrupter, lock or TaskMeta
\* refers to the record that was on its stack, however these raced.
THEOREM RecordsOutliveTheirUse ==
    ASSUME StaleContainers = {NULL}
    PROVE  Spec => []NoUseAfterReturn
<1>1. RecordInv => NoUseAfterReturn
  <2> SUFFICES ASSUME RecordInv, NEW w \in Waiters, pc[w] = "idle"
               PROVE  /\ \A b \in Butexes : w \notin Range(waiters[b]) /\ waiter_lock[b] # w
                      /\ \A c \in Callers : w \notin Range(todo[c])
                      /\ \A a \in Erasers : er[a] # "idle" => ew[a] # w
                      /\ timer[w] \notin {"pending", "running"}
                      /\ ~current_waiter[w]
    BY DEF NoUseAfterReturn
  <2> USE DEF RecordInv, ButexInv
  <2>1. container[w] = NULL /\ Wakers(w) = {}
    BY DEF AtMostOneWaker, Suspended
  <2>2. \A b \in Butexes : w \notin Range(waiters[b]) /\ waiter_lock[b] # w
    BY <2>1, ButexAssumption DEF ContainerIsList, LockInv, Appending
  <2>3. \A c \in Callers : w \notin Range(todo[c])
    BY <2>1 DEF Wakers
  <2>4. timer[w] \notin {"pending", "running"} /\ ~current_waiter[w]
    BY DEF TimerInv, InterruptInv, Returning
  <2>5. ASSUME NEW a \in Erasers, er[a] # "idle" PROVE ew[a] # w
    <3>1. CASE a \in Callers
      BY <2>5, <3>1 DEF EraserInv, InterruptInv, Taken, Returning
    <3>2. CASE a \in Pthreads
      BY <2>5, <3>2 DEF EraserInv
    <3>3. CASE a = TimerThread
      BY <2>4, <2>5, <3>3 DEF TimerInv
    <3> QED BY <3>1, <3>2, <3>3 DEF Erasers
  <2> QED BY <2>2, <2>3, <2>4, <2>5
<1> QED BY RecordInvariant, <1>1, PTL

\* The timer and the interrupters leave the state of a wait that was cancelled or is
\* over as it is.
THEOREM CancelKept ==
    ASSUME StaleContainers = {NULL}
    PROVE  Spec => CancelIsFinal
<1> DEFINE Late(w) == pc[w] \in {"cancel", "cancel_ready", "woken", "spin", "ret"}
<1>1. ASSUME ButexInv, [Next]_vars, NEW w \in Bthreads, Late(w)
      PROVE  waiter_state'[w] = waiter_state[w]
  <2> USE <1>1 DEF butexVars, recordVars, metaVars, threadVars, callerVars, eraseVars
  <2>1. container[w] = NULL /\ waiter_state \in [Waiters -> WaiterStates] /\ w \in Waiters
    BY DEF ButexInv, TypeOK, AtMostOneWaker, Suspended, Waiters
  <2>2. CASE UNCHANGED vars
    BY <2>2 DEF vars
  <2>3. CASE WaiterStep
    <3>1. ASSUME NEW x \in Bthreads, (\E b \in Butexes : butex_wait(x, b)) \/ BthreadStep(x)
          PROVE  waiter_state'[w] = waiter_state[w]
      <4>1. \/ /\ pc[x] \in {"idle", "remained"}
               /\ \E q \in WaiterStates : waiter_state' = [waiter_state EXCEPT ![x] = q]
            \/ waiter_state' = waiter_state
        BY <3>1
           DEF butex_wait, BthreadStep, wait_for_butex, Append_waiter, CancelUnsleep,
               CancelReady, Resume, SpinTimer, SpinWaiter, Return, WaiterStates
      <4> QED BY <2>1, <4>1
    <3>2. ASSUME NEW x \in Pthreads,
                 (\E b \in Butexes : butex_wait_from_pthread(x, b)) \/ PthreadStep(x)
          PROVE  waiter_state' = waiter_state
      BY <3>2
         DEF butex_wait_from_pthread, PthreadStep, PthreadCheck, Append_waiter, FutexSignalled,
             FutexTimeout, FutexErased, PthreadReturn, SpinWaiter, Return
    <3> QED BY <2>3, <3>1, <3>2 DEF WaiterStep
  <2>4. ASSUME NEW a \in Erasers, EraseStep(a) PROVE waiter_state'[w] = waiter_state[w]
    <3>1. CASE EraseLocked(a)
      <4>1. er[a] = "lock" /\ eb[a] \in Butexes
        BY <3>1 DEF EraseLocked, ButexInv, EraserInv
      <4>2. container[ew[a]] = eb[a] => ew[a] # w
        BY <2>1, <4>1, ButexAssumption
      <4> QED BY <2>1, <3>1, <4>2 DEF EraseLocked
    <3> QED BY <2>4, <3>1 DEF EraseStep, EraseLoad, EraseWake
  <2>5. ASSUME NEW c \in Callers, WakeStep(c) \/ InterruptStep(c)
        PROVE  waiter_state' = waiter_state
    BY <2>5, OperationKeeps
       DEF WakeStep, WakeOnePthread, WakeOneBthread, WakeFirst, SignalPthread, UnsleepFirst,
           UnsleepTail, UnsleepNext, ReadyTail, InterruptStep, SetInterrupted,
           set_butex_waiter
  <2>6. CASE OtherStep
    BY <2>4, <2>5, <2>6 DEF OtherStep, CallWake, interrupt, TimerFire, TimerDone
  <2> QED BY <2>2, <2>3, <2>6, StepSplits
<1>2. ButexInv /\ [Next]_vars
        => [\A w \in Bthreads : Late(w) => waiter_state'[w] = waiter_state[w]]_vars
  BY <1>1
<1> QED BY ButexInvariant, <1>2, PTL DEF Spec, CancelIsFinal


\* w is queued on its butex or has decided to be.
Waiting(w) == pc[w] \in Appending \/ container[w] # NULL

\* Caller c will find all waiters of butex b.
WillWake(c, b) == cpc[c] = "butex_wake_all" /\ cb[c] = b

\* A thread decides to wait only while the value is the expected one.
LEMMA DecisionIsFresh ==
    ASSUME StaleContainers = {NULL}, RecordInv, WaiterStep
    PROVE  /\ UNCHANGED <<value, cpc, cb>>
           /\ \A w \in Waiters : Waiting(w)' =>
                 /\ butex'[w] = butex[w] /\ expected_value'[w] = expected_value[w]
                 /\ Waiting(w) \/ value[butex[w]] = expected_value[w]
<1> USE ButexAssumption DEF RecordInv, ButexInv, TypeOK, Waiters, butexVars, recordVars,
           metaVars, threadVars, callerVars, eraseVars, Waiting, Appending
<1>1. UNCHANGED <<value, cpc, cb>>
  BY DEF WaiterStep, butex_wait, BthreadStep, wait_for_butex, Append_waiter, CancelUnsleep,
         CancelReady, Resume, SpinTimer, SpinWaiter, Return, butex_wait_from_pthread,
         PthreadStep, PthreadCheck, FutexSignalled, FutexTimeout, FutexErased, PthreadReturn
<1> DEFINE Fresh == \A w \in Waiters : Waiting(w)' =>
                       /\ butex'[w] = butex[w] /\ expected_value'[w] = expected_value[w]
                       /\ Waiting(w) \/ value[butex[w]] = expected_value[w]
<1>2. ASSUME NEW x \in Bthreads, NEW b \in Butexes, butex_wait(x, b) PROVE Fresh
  BY <1>2 DEF butex_wait
<1>3. ASSUME NEW x \in Pthreads, NEW b \in Butexes, butex_wait_from_pthread(x, b)
      PROVE  Fresh
  BY <1>3 DEF butex_wait_from_pthread
<1>4. ASSUME NEW x \in Bthreads, wait_for_butex(x) PROVE Fresh
  BY <1>4 DEF wait_for_butex
<1>5. ASSUME NEW x \in Pthreads, PthreadCheck(x) PROVE Fresh
  BY <1>5 DEF PthreadCheck
<1>6. ASSUME NEW x \in Bthreads, Append_waiter(x, "append", "blocked") PROVE Fresh
  BY <1>6 DEF Append_waiter
<1>7. ASSUME NEW x \in Pthreads, Append_waiter(x, "p_append", "p_futex") PROVE Fresh
  BY <1>7 DEF Append_waiter
<1>8. ASSUME NEW x \in Bthreads,
             CancelUnsleep(x) \/ CancelReady(x) \/ Resume(x) \/ SpinTimer(x)
                \/ SpinWaiter(x, "spin", "ret") \/ Return(x, "ret")
      PROVE  Fresh
  BY <1>8 DEF CancelUnsleep, CancelReady, Resume, SpinTimer, SpinWaiter, Return
<1>9. ASSUME NEW x \in Pthreads,
             \/ FutexSignalled(x) \/ FutexTimeout(x) \/ FutexErased(x) \/ PthreadReturn(x)
             \/ SpinWaiter(x, "p_exit", "p_ret") \/ Return(x, "p_ret")
      PROVE  Fresh
  BY <1>9 DEF FutexSignalled, FutexTimeout, FutexErased, PthreadReturn, SpinWaiter, Return
<1>10. Fresh
  BY <1>2, <1>3, <1>4, <1>5, <1>6, <1>7, <1>8, <1>9
     DEF WaiterStep, BthreadStep, PthreadStep
<1> QED BY <1>1, <1>10

\* A caller that drains a butex leaves no waiter on it.
LEMMA WakeAllFindsAll ==
    ASSUME RecordInv, NEW c \in Callers, butex_wake_all(c), NEW w \in Waiters,
           butex[w] = cb[c]
    PROVE  ~Waiting(w)'
<1> USE ButexAssumption DEF RecordInv, ButexInv
<1>1. cb[c] \in Butexes /\ Unlocked(cb[c])
  BY DEF butex_wake_all, Drain, CallerInv, WakeOps
<1>2. pc[w] \notin Appending
  BY <1>1 DEF LockInv, Unlocked, Waiters
<1>3. pc' = pc /\ container' = Detached(Range(waiters[cb[c]]))
  BY DEF butex_wake_all, Drain, threadVars
<1>4. container[w] = NULL \/ w \in Range(waiters[cb[c]])
  BY <1>1 DEF HomeInv, ContainerIsList
<1>5. container'[w] = NULL
  BY <1>3, <1>4 DEF Detached
<1> QED BY <1>2, <1>3, <1>5 DEF Waiting

\* No other step takes away a caller that is going to wake all.
LEMMA WakerStays ==
    ASSUME RecordInv, OtherStep, NEW c \in Callers, NEW b, WillWake(c, b)
    PROVE  WillWake(c, b)' \/ (butex_wake_all(c) /\ value' = value)
<1> USE ButexAssumption DEF RecordInv, ButexInv, TypeOK, WillWake, butexVars, recordVars,
           metaVars, threadVars, callerVars, eraseVars
<1>1. ASSUME NEW d \in Callers, d # c, WakeStep(d) PROVE WillWake(c, b)'
  BY <1>1
     DEF WakeStep, butex_wake, butex_wake_all, butex_wake_except, Drain, WakeOnePthread,
         WakeOneBthread, WakeFirst, SignalPthread, UnsleepFirst, UnsleepTail, UnsleepNext,
         ReadyTail, CallerAt
<1>2. WakeStep(c) => butex_wake_all(c) /\ value' = value
  BY DEF WakeStep, butex_wake, butex_wake_all, butex_wake_except, WakeOnePthread,
         WakeOneBthread, WakeFirst, SignalPthread, UnsleepFirst, UnsleepTail, ReadyTail, Drain
<1>3. ASSUME NEW d \in Callers, InterruptStep(d) PROVE WillWake(c, b)'
  BY <1>3 DEF InterruptStep, SetInterrupted, set_butex_waiter
<1>4. ASSUME NEW a \in Erasers, EraseStep(a) PROVE WillWake(c, b)'
  BY <1>4 DEF EraseStep, EraseLoad, EraseLocked, EraseWake
<1>5. ASSUME NEW d \in Callers, NEW e \in Butexes, NEW op \in Ops, NEW v \in Values,
             CallWake(d, e, op, v)
      PROVE  WillWake(c, b)'
  BY <1>5 DEF CallWake
<1>6. ASSUME NEW d \in Callers, NEW w \in Waiters, interrupt(d, w) PROVE WillWake(c, b)'
  BY <1>6 DEF interrupt
<1>7. ASSUME (\E w \in Bthreads : TimerFire(w)) \/ TimerDone PROVE WillWake(c, b)'
  BY <1>7 DEF TimerFire, TimerDone
<1> QED BY <1>1, <1>2, <1>3, <1>4, <1>5, <1>6, <1>7 DEF OtherStep

\* Whoever changes the value is going to wake all.
LEMMA StoreIsAnnounced ==
    ASSUME StoreOps = {"butex_wake_all"}, RecordInv, OtherStep, NEW b \in Butexes,
           value'[b] # value[b]
    PROVE  \E c \in Callers : WillWake(c, b)'
<1> USE DEF RecordInv, ButexInv, TypeOK, WillWake, butexVars, recordVars, metaVars,
           threadVars, callerVars, eraseVars
<1>1. ASSUME NEW c \in Callers, NEW e \in Butexes, NEW op \in Ops, NEW v \in Values,
             CallWake(c, e, op, v)
      PROVE  \E d \in Callers : WillWake(d, b)'
  <2>1. e = b /\ v # value[b]
    BY <1>1 DEF CallWake
  <2>2. WillWake(c, b)'
    BY <1>1, <2>1 DEF CallWake
  <2> QED BY <2>2
<1>2. ASSUME NEW c \in Callers, WakeStep(c) \/ InterruptStep(c) PROVE value' = value
  BY <1>2, OperationKeeps
     DEF WakeStep, WakeOnePthread, WakeOneBthread, WakeFirst, SignalPthread, UnsleepFirst,
         UnsleepTail, UnsleepNext, ReadyTail, InterruptStep, SetInterrupted, set_butex_waiter
<1>3. ASSUME NEW a \in Erasers, EraseStep(a) PROVE value' = value
  BY <1>3 DEF EraseStep, EraseLoad, EraseLocked, EraseWake
<1> QED BY <1>1, <1>2, <1>3 DEF OtherStep, interrupt, TimerFire, TimerDone

\* When values are changed by callers that then wake all, a waiter that is queued, or
\* about to be, on a value that was changed will be found by such a caller.
THEOREM WakesReachWaiters ==
    ASSUME StaleContainers = {NULL}, StoreOps = {"butex_wake_all"}
    PROVE  Spec => []NoLostWake
<1>1. Init => NoLostWake
  BY DEF Init, NoLostWake
<1>2. ASSUME RecordInv, NoLostWake, [Next]_vars, NEW w \in Waiters,
             Waiting(w)', value'[butex'[w]] # expected_value'[w]
      PROVE  \E c \in Callers : WillWake(c, butex[w])' /\ butex'[w] = butex[w]
  <2> USE DEF RecordInv, ButexInv
  <2>1. Waiting(w) /\ value[butex[w]] # expected_value[w] =>
           \E c \in Callers : WillWake(c, butex[w])
    BY <1>2 DEF NoLostWake, Waiting, WillWake, Appending
  <2>2. CASE WaiterStep
    BY <1>2, <2>1, <2>2, DecisionIsFresh DEF WillWake
  <2>3. CASE OtherStep
    <3>1. UNCHANGED <<butex, expected_value, pc>> /\ Waiting(w) /\ butex[w] \in Butexes
      BY <1>2, <2>3, OthersKeepPlaces, OthersDetach DEF Waiting, TypeOK
    <3>2. CASE value'[butex[w]] # value[butex[w]]
      <4>1. PICK b \in Butexes : b = butex[w]
        BY <3>1
      <4>2. PICK c \in Callers : WillWake(c, b)'
        BY <1>2, <2>3, <3>2, <4>1, StoreIsAnnounced
      <4> QED BY <3>1, <4>1, <4>2 DEF WillWake
    <3>3. CASE value'[butex[w]] = value[butex[w]]
      <4>1. PICK c \in Callers : WillWake(c, butex[w])
        BY <1>2, <2>1, <3>1, <3>3
      <4>2. ~butex_wake_all(c)
        BY <1>2, <4>1, WakeAllFindsAll DEF WillWake
      <4>3. WillWake(c, butex[w])'
        <5>1. PICK b : b = butex[w]
          OBVIOUS
        <5>2. WillWake(c, b)'
          BY <1>2, <2>3, <4>1, <4>2, <5>1, WakerStays
        <5> QED BY <3>1, <5>1, <5>2 DEF WillWake
      <4> QED BY <3>1, <4>3
    <3> QED BY <3>2, <3>3
  <2>4. CASE UNCHANGED vars
    <3>1. UNCHANGED <<value, butex, expected_value, pc, container, cpc, cb>>
      BY <2>4 DEF vars, butexVars, recordVars, threadVars, callerVars
    <3> QED BY <1>2, <2>1, <3>1 DEF Waiting, WillWake
  <2> QED BY <1>2, <2>2, <2>3, <2>4, StepSplits
<1>3. RecordInv /\ NoLostWake /\ [Next]_vars => NoLostWake'
  BY <1>2 DEF NoLostWake, Waiting, WillWake, Appending
<1> QED BY RecordInvariant, <1>1, <1>3, PTL DEF Spec


\* Somebody or something will resume bthread w.
Kept(w) == container[w] # NULL \/ Wakers(w) # {} \/ tokens[w] = 1

\* The step of a waiting thread keeps the other bthreads, and itself when it suspends.
LEMMA WaitersAreKept ==
    ASSUME StaleContainers = {NULL}, RecordInv, WaiterStep, NEW w \in Bthreads,
           pc[w] = "blocked" => Kept(w), pc'[w] = "blocked"
    PROVE  Kept(w)'
<1> USE ButexAssumption DEF RecordInv, ButexInv, TypeOK, ThreadInv, Waiters, Erasers,
           butexVars, recordVars, metaVars, threadVars, callerVars, eraseVars
<1>1. ASSUME pc[w] = "blocked", container'[w] = container[w], tokens'[w] = tokens[w],
             todo' = todo,
             \A a \in Erasers : er[a] = "wake" => er'[a] = "wake" /\ ew'[a] = ew[a]
      PROVE  Kept(w)'
  <2>1. Wakers(w) \subseteq Wakers(w)'
    BY <1>1 DEF Wakers
  <2> QED BY <1>1, <2>1 DEF Kept
<1>2. ASSUME NEW x \in Bthreads, NEW b \in Butexes, butex_wait(x, b) PROVE Kept(w)'
  BY <1>1, <1>2 DEF butex_wait
<1>3. ASSUME NEW x \in Pthreads, NEW b \in Butexes, butex_wait_from_pthread(x, b)
      PROVE  Kept(w)'
  BY <1>1, <1>3 DEF butex_wait_from_pthread
<1>4. ASSUME NEW x \in Bthreads, Append_waiter(x, "append", "blocked") PROVE Kept(w)'
  <2>1. CASE x = w
    BY <1>4, <2>1 DEF Append_waiter, Kept
  <2>2. CASE x # w
    BY <1>1, <1>4, <2>2 DEF Append_waiter
  <2> QED BY <2>1, <2>2
<1>5. ASSUME NEW x \in Bthreads, CancelReady(x) PROVE Kept(w)'
  <2>1. CASE x = w
    <3>1. ~Suspended(w)
      BY <1>5, <2>1 DEF CancelReady, Suspended
    <3>2. tokens[w] \in Nat /\ tokens[w] <= 1 /\ tokens[w] # 1
      BY <3>1 DEF AtMostOneWaker
    <3>3. tokens'[w] = 1
      BY <1>5, <2>1, <3>2 DEF CancelReady, ready_to_run
    <3> QED BY <3>3 DEF Kept
  <2>2. CASE x # w
    BY <1>1, <1>5, <2>2 DEF CancelReady, ready_to_run
  <2> QED BY <2>1, <2>2
<1>6. ASSUME NEW x \in Bthreads,
             wait_for_butex(x) \/ CancelUnsleep(x) \/ Resume(x) \/ SpinTimer(x)
                \/ SpinWaiter(x, "spin", "ret") \/ Return(x, "ret")
      PROVE  Kept(w)'
  BY <1>1, <1>6
     DEF wait_for_butex, CancelUnsleep, Resume, SpinTimer, SpinWaiter, Return
<1>7. ASSUME NEW x \in Pthreads, PthreadStep(x) PROVE Kept(w)'
  <2>1. x # w /\ er[x] # "wake"
    BY DEF EraserInv
  <2> QED BY <1>1, <1>7, <2>1
          DEF PthreadStep, PthreadCheck, Append_waiter, FutexSignalled, FutexTimeout,
              FutexErased, EraseReturns, PthreadReturn, SpinWaiter, Return
<1> QED BY <1>2, <1>3, <1>4, <1>5, <1>6, <1>7 DEF WaiterStep, BthreadStep

\* A caller that hands over x keeps the others.
LEMMA HandOver ==
    ASSUME ButexInv, NEW c \in Callers, NEW x \in Range(todo[c]), NEW rest,
           Range(rest) = Range(todo[c]) \ {x}, todo' = [todo EXCEPT ![c] = rest],
           UNCHANGED <<container, er, ew>>, NEW w \in Bthreads, Kept(w),
           \/ tokens' = tokens /\ x \notin Bthreads
           \/ tokens' = [tokens EXCEPT ![x] = @ + 1]
    PROVE  Kept(w)'
<1>1. tokens \in [Waiters -> Nat] /\ todo \in [Callers -> Seq(Waiters)] /\ w \in Waiters
  BY DEF ButexInv, TypeOK, Waiters
<1>2. CASE x = w
  <2>1. Wakers(w) # {}
    BY <1>2 DEF Wakers
  <2>2. tokens[w] = 0
    BY <1>1, <2>1, HeldWaiter
  <2>3. tokens'[w] = 1
    BY <1>1, <1>2, <2>2
  <2> QED BY <2>3 DEF Kept
<1>3. CASE x # w
  <2>1. \A d \in Callers : w \in Range(todo[d]) => w \in Range(todo'[d])
    BY <1>1, <1>3
  <2>2. tokens'[w] = tokens[w] /\ Wakers(w) \subseteq Wakers(w)'
    BY <1>1, <1>3, <2>1 DEF Wakers
  <2> QED BY <2>2 DEF Kept
<1> QED BY <1>2, <1>3

\* A thread that is not a worker drops the tid of w in ready_to_run_general.
Drops(w) == \E a \in Erasers \ Workers : Readies(a, w)

\* The wakers take a bthread off its butex, or make it runnable if they do not drop it.
LEMMA WakersKeep ==
    ASSUME ButexInv, NEW c \in Callers, WakeStep(c), NEW w \in Bthreads, Kept(w), ~Drops(w)
    PROVE  Kept(w)'
<1> USE DEF butexVars, recordVars, metaVars, threadVars, callerVars, eraseVars
<1>1. CASE \/ butex_wake(c) \/ butex_wake_all(c)
           \/ \E excluded \in Excluded : butex_wake_except(c, excluded)
  <2>1. cb[c] \in Butexes /\ cpc[c] \in WakeOps
    BY <1>1, DrainSplits
  <2>2. PICK s \in Seq(Waiters), rest \in Seq(Waiters),
             next \in {"wake_one", "all_signal", "except_signal"} : Takes(c, s, rest, next)
    BY <1>1, DrainSplits
  <2>3. /\ container' = Detached(Range(s)) /\ todo' = [todo EXCEPT ![c] = s]
        /\ UNCHANGED <<tokens, er, ew>>
    BY <2>2 DEF Takes, Drain
  <2>4. todo[c] = <<>> /\ todo \in [Callers -> Seq(Waiters)] /\ Range(<<>>) = {}
    BY <2>1, SmallRange DEF ButexInv, TypeOK, CallerInv, WakeOps, WakingPCs
  <2>5. CASE w \in Range(s)
    BY <2>3, <2>4, <2>5 DEF Kept, Wakers
  <2>6. CASE w \notin Range(s)
    <3>1. container'[w] = container[w]
      BY <2>3, <2>6 DEF Detached, Waiters
    <3>2. \A d \in Callers : w \in Range(todo[d]) => w \in Range(todo'[d])
      BY <2>3, <2>4
    <3>3. Wakers(w) \subseteq Wakers(w)'
      BY <2>3, <3>2 DEF Wakers
    <3> QED BY <2>3, <3>1, <3>3 DEF Kept
  <2> QED BY <2>5, <2>6
<1>2. CASE WakeOnePthread(c)
  <2>1. Range(todo[c]) = {Head(todo[c])} /\ Range(<<>>) = {}
    BY <1>2, TodoFacts, SmallRange DEF WakeOnePthread, WakingPCs, ButexInv, CallerInv
  <2>2. PICK x \in Range(todo[c]) : x = Head(todo[c])
    BY <2>1
  <2>3. /\ todo' = [todo EXCEPT ![c] = <<>>] /\ UNCHANGED <<container, er, ew>>
        /\ tokens' = tokens /\ x \notin Bthreads
    BY <1>2, <2>2, ButexAssumption DEF WakeOnePthread, CallerAt
  <2> QED BY <2>1, <2>2, <2>3, HandOver
<1>3. CASE WakeFirst(c)
  <2>1. Range(todo[c]) = {Head(todo[c])} /\ Range(<<>>) = {}
    BY <1>3, TodoFacts, SmallRange DEF WakeFirst, WakingPCs, ButexInv, CallerInv
  <2>2. PICK x \in Range(todo[c]) : x = Head(todo[c])
    BY <2>1
  <2>3. /\ todo' = [todo EXCEPT ![c] = <<>>] /\ UNCHANGED <<container, er, ew>>
        /\ tokens' = [tokens EXCEPT ![x] = @ + 1]
    BY <1>3, <2>2 DEF WakeFirst, CallerAt, ready_to_run
  <2> QED BY <2>1, <2>2, <2>3, HandOver
<1>4. CASE SignalPthread(c)
  <2>1. PICK i \in 1..Len(todo[c]) :
           /\ todo[c][i] \in Pthreads
           /\ todo' = [todo EXCEPT ![c] = RemoveAt(todo[c], i)]
    BY <1>4 DEF SignalPthread, CallerAt, IsFirstPthread
  <2>2. cpc[c] \in WakingPCs
    BY <1>4 DEF SignalPthread, WakingPCs
  <2>3. Range(RemoveAt(todo[c], i)) = Range(todo[c]) \ {todo[c][i]}
    BY <2>2, TodoFacts, RemoveAtRange
  <2>4. PICK x \in Range(todo[c]) : x = todo[c][i]
    BY <2>2, TodoFacts DEF Range
  <2>5. PICK rest : rest = RemoveAt(todo[c], i)
    OBVIOUS
  <2>6. /\ todo' = [todo EXCEPT ![c] = rest] /\ UNCHANGED <<container, er, ew>>
        /\ tokens' = tokens /\ x \notin Bthreads /\ Range(rest) = Range(todo[c]) \ {x}
    BY <1>4, <2>1, <2>3, <2>4, <2>5, ButexAssumption DEF SignalPthread
  <2> QED BY <2>6, HandOver
<1>5. CASE ReadyTail(c)
  <2>1. cpc[c] \in WakingPCs
    BY <1>5 DEF ReadyTail, WakingPCs
  <2>2. PICK x \in Range(todo[c]) : x = Last(todo[c])
    BY <2>1, TodoFacts
  <2>3. PICK rest : rest = Front(todo[c])
    OBVIOUS
  <2>4. Range(rest) = Range(todo[c]) \ {x}
    BY <2>1, <2>2, <2>3, TodoFacts, FrontRange
  <2>5. /\ todo' = [todo EXCEPT ![c] = rest] /\ UNCHANGED <<container, er, ew>>
        /\ ready_to_run_general(c, x)
    BY <1>5, <2>2, <2>3 DEF ReadyTail, CallerAt
  <2>6. CASE c \in Workers
    <3>1. tokens' = [tokens EXCEPT ![x] = @ + 1]
      BY <2>5, <2>6 DEF ready_to_run_general, ready_to_run
    <3> QED BY <2>4, <2>5, <3>1, HandOver
  <2>7. CASE c \notin Workers
    <3>1. x # w
      BY <1>5, <2>2, <2>7 DEF Drops, Readies, ReadyTail, Erasers
    <3>2. tokens' = tokens
      BY <2>5, <2>7 DEF ready_to_run_general
    <3>3. todo \in [Callers -> Seq(Waiters)]
      BY DEF ButexInv, TypeOK
    <3>4. \A d \in Callers : w \in Range(todo[d]) => w \in Range(todo'[d])
      BY <2>4, <2>5, <3>1, <3>3
    <3>5. Wakers(w) \subseteq Wakers(w)'
      BY <2>5, <3>4 DEF Wakers
    <3> QED BY <2>5, <3>2, <3>5 DEF Kept
  <2> QED BY <2>6, <2>7
<1>6. CASE WakeOneBthread(c) \/ UnsleepFirst(c) \/ UnsleepTail(c)
  <2>1. UNCHANGED <<container, tokens, todo, er, ew>>
    BY <1>6 DEF WakeOneBthread, UnsleepFirst, UnsleepTail, UnsleepNext
  <2> QED BY <2>1 DEF Kept, Wakers
<1> QED BY <1>1, <1>2, <1>3, <1>4, <1>5, <1>6 DEF WakeStep

\* The others do too: timer, interrupters, and whoever starts a call.
LEMMA OthersKeep ==
    ASSUME RecordInv, OtherStep, NEW w \in Bthreads, Kept(w), ~Drops(w)
    PROVE  Kept(w)'
<1> USE ButexAssumption DEF RecordInv, ButexInv, TypeOK, Waiters, Erasers, butexVars,
           recordVars, metaVars, threadVars, callerVars, eraseVars
<1>1. ASSUME NEW c \in Callers, WakeStep(c) PROVE Kept(w)'
  BY <1>1, WakersKeep
<1>2. ASSUME NEW a \in Erasers, EraseWake(a) PROVE Kept(w)'
  <2>1. ew[a] \in Waiters
    BY <1>2 DEF EraseWake, EraserInv
  <2>2. CASE ew[a] = w
    <3>1. a \in Wakers(w)
      BY <1>2, <2>2 DEF EraseWake, Wakers
    <3>2. tokens[w] = 0
      BY <3>1, HeldWaiter
    <3>4. a \in Workers
      BY <1>2, <2>2 DEF Drops, Readies, EraseWake
    <3>3. tokens'[w] = 1
      BY <1>2, <2>1, <2>2, <3>2, <3>4 DEF EraseWake, ready_to_run_general, ready_to_run
    <3> QED BY <3>3 DEF Kept
  <2>3. CASE ew[a] # w
    <3>1. Wakers(w)' = Wakers(w) /\ container' = container
      BY <1>2, <2>3 DEF EraseWake, Wakers
    <3>2. tokens'[w] = tokens[w]
      BY <1>2, <2>1, <2>3 DEF EraseWake, ready_to_run_general, ready_to_run
    <3> QED BY <3>1, <3>2 DEF Kept
  <2> QED BY <2>2, <2>3
<1>3. ASSUME NEW a \in Erasers, EraseLocked(a) PROVE Kept(w)'
  <2>1. UNCHANGED <<todo, tokens, ew>> /\ er[a] # "wake" /\ ew[a] \in Waiters
    BY <1>3 DEF EraseLocked, EraserInv
  <2>2. Wakers(w) \subseteq Wakers(w)'
    BY <1>3, <2>1 DEF EraseLocked, Wakers
  <2>3. CASE container'[w] = container[w]
    BY <2>1, <2>2, <2>3 DEF Kept
  <2>4. CASE container'[w] # container[w]
    <3>1. /\ ew[a] = w /\ container[ew[a]] = eb[a]
          /\ er' = [er EXCEPT ![a] = IF a \in Pthreads THEN "erased" ELSE "wake"]
      BY <1>3, <2>4 DEF EraseLocked
    <3>3. a \notin Pthreads
      <4>1. er[a] # "idle"
        BY <1>3 DEF EraseLocked
      <4> QED BY <3>1, <4>1 DEF EraserInv
    <3>4. er'[a] = "wake"
      BY <3>1, <3>3
    <3>2. a \in Wakers(w)'
      BY <2>1, <3>1, <3>4 DEF Wakers
    <3> QED BY <3>2 DEF Kept
  <2> QED BY <2>3, <2>4
<1>4. ASSUME NEW a \in Erasers, EraseLoad(a) PROVE Kept(w)'
  BY <1>4 DEF EraseLoad, Kept, Wakers
<1>5. ASSUME NEW c \in Callers, SetInterrupted(c) \/ set_butex_waiter(c) PROVE Kept(w)'
  <2>1. UNCHANGED <<container, tokens, todo>>
    BY <1>5 DEF SetInterrupted, set_butex_waiter
  <2>2. \A a \in Erasers : er[a] = "wake" => er'[a] = "wake" /\ ew'[a] = ew[a]
    BY <1>5 DEF SetInterrupted, set_butex_waiter, EraseReturns, EraserInv
  <2>3. Wakers(w) \subseteq Wakers(w)'
    BY <2>1, <2>2 DEF Wakers
  <2> QED BY <2>1, <2>3 DEF Kept
<1>6. ASSUME NEW c \in Callers, NEW x \in Waiters, interrupt(c, x) PROVE Kept(w)'
  <2>1. er[c] = "idle" /\ UNCHANGED <<container, tokens, todo, er>>
        /\ ew' = [ew EXCEPT ![c] = x]
    BY <1>6 DEF interrupt, EraserInv
  <2> QED BY <2>1 DEF Kept, Wakers
<1>7. ASSUME NEW c \in Callers, NEW b \in Butexes, NEW op \in Ops, NEW v \in Values,
             CallWake(c, b, op, v)
      PROVE  Kept(w)'
  BY <1>7 DEF CallWake, Kept, Wakers
<1>8. ASSUME TimerDone \/ (\E x \in Bthreads : TimerFire(x)) PROVE Kept(w)'
  <2>1. /\ UNCHANGED <<container, tokens, todo>>
        /\ er[TimerThread] # "wake"
        /\ \A a \in Erasers : a # TimerThread => er'[a] = er[a] /\ ew'[a] = ew[a]
    BY <1>8 DEF TimerDone, TimerFire, EraseReturns
  <2>2. Wakers(w) \subseteq Wakers(w)'
    BY <2>1 DEF Wakers
  <2> QED BY <2>1, <2>2 DEF Kept
<1> QED BY <1>1, <1>2, <1>3, <1>4, <1>5, <1>6, <1>7, <1>8
        DEF OtherStep, EraseStep, InterruptStep

\* A suspended bthread stays on a butex, in the hands of a waker or in a run queue until
\* it runs again, whatever wakes, times out or interrupts it, unless a thread that is not
\* a worker makes it runnable through ready_to_run_general.
THEOREM SuspendedAreKept ==
    ASSUME StaleContainers = {NULL}
    PROVE  Spec => NeverForgotten
<1>1. ASSUME RecordInv, [Next]_vars, NEW w \in Bthreads, pc'[w] = "blocked", ~Drops(w),
             pc[w] = "blocked" => Kept(w)
      PROVE  Kept(w)'
  <2>1. CASE WaiterStep
    BY <1>1, <2>1, WaitersAreKept
  <2>2. CASE OtherStep
    BY <1>1, <2>2, OthersKeepPlaces, OthersKeep
  <2>3. CASE UNCHANGED vars
    BY <1>1, <2>3
       DEF Kept, Wakers, vars, recordVars, threadVars, callerVars, eraseVars
  <2> QED BY <1>1, <2>1, <2>2, <2>3, StepSplits
<1>2. ASSUME RecordInv, NEW w \in Bthreads, pc[w] = "blocked", ~Forgotten(w) PROVE Kept(w)
  <2>1. tokens[w] \in Nat /\ tokens[w] <= 1
    BY <1>2 DEF RecordInv, ButexInv, TypeOK, AtMostOneWaker, Waiters
  <2> QED BY <1>2, <2>1 DEF Forgotten, Kept
<1>3. ASSUME RecordInv, [Next]_vars, NEW w \in Bthreads, Forgotten(w)'
      PROVE  Forgotten(w) \/ Drops(w)
  <2>1. pc'[w] = "blocked" /\ ~(Kept(w)')
    BY <1>3 DEF Forgotten, Kept
  <2> QED BY <1>1, <1>2, <1>3, <2>1
<1>4. RecordInv /\ [Next]_vars =>
         [\A w \in Bthreads :
             Forgotten(w)' => \/ Forgotten(w)
                              \/ \E a \in Erasers \ Workers : Readies(a, w)]_vars
  BY <1>3 DEF Drops
<1> QED BY RecordInvariant, <1>4, PTL DEF Spec, NeverForgotten

-----------------------------------------------------------------------------
(* butex_wait keeps the contract of a blocking call                        *)

\* Where a bthread runs on a worker.
OnWorker == {"idle", "woken", "spin", "ret"}

\* A step that switches nobody and puts nobody into a run queue.
LEMMA NobodySwitched ==
    ASSUME tokens' = tokens,
           \A w \in Bthreads : pc'[w] \in OnWorker <=> pc[w] \in OnWorker
    PROVE  UNCHANGED Contract!vars
<1>1. \A w \in Bthreads : (pc'[w] \in OnWorker) = (pc[w] \in OnWorker)
  OBVIOUS
<1>2. [w \in Bthreads |-> pc[w] \in OnWorker]' = [w \in Bthreads |-> pc[w] \in OnWorker]
  BY <1>1
<1> QED BY <1>2 DEF Contract!vars, OnWorker

\* A bthread that is switched out and in no run queue is put into one.
LEMMA OneMadeReady ==
    ASSUME ButexInv, NEW x \in Bthreads, pc[x] \notin OnWorker, tokens[x] = 0,
           ready_to_run(x),
           \A w \in Bthreads : pc'[w] \in OnWorker <=> pc[w] \in OnWorker
    PROVE  Contract!Next
<1>1. \A w \in Bthreads : (pc'[w] \in OnWorker) = (pc[w] \in OnWorker)
  OBVIOUS
<1>2. [w \in Bthreads |-> pc[w] \in OnWorker]' = [w \in Bthreads |-> pc[w] \in OnWorker]
  BY <1>1
<1>3. /\ tokens \in [Waiters -> Nat] /\ tokens' = [tokens EXCEPT ![x] = @ + 1]
      /\ \A w \in Bthreads : w \in Waiters
  BY DEF ready_to_run, ButexInv, TypeOK, Waiters
<1>4. \A w \in Bthreads : tokens'[w] = IF w = x THEN 1 ELSE tokens[w]
  BY <1>3
<1>5. [w \in Bthreads |-> tokens[w]]' = [[w \in Bthreads |-> tokens[w]] EXCEPT ![x] = 1]
  BY <1>4
<1>6. Contract!MakeReady(x)
  BY <1>2, <1>5 DEF Contract!MakeReady, OnWorker
<1> QED BY <1>6 DEF Contract!Next

\* Whoever wakes bthread x finds it switched out and in no run queue.
LEMMA WakerMakesReady ==
    ASSUME ButexInv, NEW x \in Bthreads, Wakers(x) # {}, UNCHANGED pc,
           ready_to_run(x) \/ UNCHANGED tokens
    PROVE  Contract!Next \/ UNCHANGED Contract!vars
<1>1. x \in Waiters /\ tokens[x] = 0 /\ Suspended(x)
  BY HeldWaiter DEF Waiters
<1>2. pc[x] \notin OnWorker
  BY <1>1 DEF Suspended, OnWorker
<1>3. CASE ready_to_run(x)
  BY <1>1, <1>2, <1>3, OneMadeReady
<1>4. CASE UNCHANGED tokens
  BY <1>4, NobodySwitched
<1> QED BY <1>3, <1>4

\* A bthread suspends itself when it enters butex_wait and comes back by a run queue;
\* a cancelled wait puts it there itself.
LEMMA BthreadSuspends ==
    ASSUME ButexInv, NEW w \in Bthreads,
           (\E b \in Butexes : butex_wait(w, b)) \/ BthreadStep(w)
    PROVE  Contract!Next \/ UNCHANGED Contract!vars
<1>1. /\ w \in Waiters /\ \A x \in Bthreads : x \in Waiters
      /\ pc \in [Waiters -> WaiterPCs] /\ tokens \in [Waiters -> Nat]
  BY DEF ButexInv, TypeOK, Waiters
<1>2. \A q : pc' = [pc EXCEPT ![w] = q]
                => \A x \in Bthreads : pc'[x] = IF x = w THEN q ELSE pc[x]
  BY <1>1
<1>3. ASSUME NEW b \in Butexes, butex_wait(w, b)
      PROVE  Contract!Next
  <2>1. pc[w] = "idle" /\ pc' = [pc EXCEPT ![w] = "remained"] /\ tokens' = tokens
    BY <1>3 DEF butex_wait
  <2>2. \A x \in Bthreads :
           (pc'[x] \in OnWorker) = (IF x = w THEN FALSE ELSE pc[x] \in OnWorker)
    <3>1. \A x \in Bthreads : x # w => pc'[x] = pc[x]
      BY <1>2, <2>1
    <3>2. pc'[w] = "remained"
      BY <1>2, <2>1
    <3>3. (pc'[w] \in OnWorker) = FALSE
      BY <3>2 DEF OnWorker
    <3>4. ASSUME NEW x \in Bthreads
          PROVE  (pc'[x] \in OnWorker) = (IF x = w THEN FALSE ELSE pc[x] \in OnWorker)
      <4>1. CASE x = w
        BY <3>3, <4>1
      <4>2. CASE x # w
        BY <3>1, <4>2
      <4> QED BY <4>1, <4>2
    <3> QED BY <3>4
  <2>3. [x \in Bthreads |-> pc[x] \in OnWorker]'
           = [[x \in Bthreads |-> pc[x] \in OnWorker] EXCEPT ![w] = FALSE]
    BY <2>2
  <2>4. Contract!Suspend(w)
    BY <2>1, <2>3 DEF Contract!Suspend, OnWorker
  <2> QED BY <2>4 DEF Contract!Next
<1>4. CASE CancelReady(w)
  <2>1. /\ pc[w] = "cancel_ready" /\ pc' = [pc EXCEPT ![w] = "blocked"]
        /\ ready_to_run(w)
    BY <1>4 DEF CancelReady
  <2>2. tokens[w] = 0
    BY <1>1, <2>1 DEF ButexInv, AtMostOneWaker, Suspended
  <2>3. pc[w] \notin OnWorker
        /\ \A x \in Bthreads : pc'[x] \in OnWorker <=> pc[x] \in OnWorker
    BY <1>2, <2>1 DEF OnWorker
  <2> QED BY <2>1, <2>2, <2>3, OneMadeReady
<1>5. CASE Resume(w)
  <2>1. /\ pc[w] = "blocked" /\ pc' = [pc EXCEPT ![w] = "woken"]
        /\ tokens[w] > 0 /\ tokens' = [tokens EXCEPT ![w] = @ - 1]
    BY <1>5 DEF Resume
  <2>2. tokens[w] = 1
    BY <1>1, <2>1 DEF ButexInv, AtMostOneWaker
  <2>3. \A x \in Bthreads :
           (pc'[x] \in OnWorker) = (IF x = w THEN TRUE ELSE pc[x] \in OnWorker)
    <3>1. \A x \in Bthreads : x # w => pc'[x] = pc[x]
      BY <1>2, <2>1
    <3>2. pc'[w] \in OnWorker
      BY <1>2, <2>1 DEF OnWorker
    <3> QED BY <3>1, <3>2
  <2>4. [x \in Bthreads |-> pc[x] \in OnWorker]'
           = [[x \in Bthreads |-> pc[x] \in OnWorker] EXCEPT ![w] = TRUE]
    BY <2>3
  <2>5. \A x \in Bthreads : tokens'[x] = IF x = w THEN 0 ELSE tokens[x]
    BY <1>1, <2>1, <2>2
  <2>6. [x \in Bthreads |-> tokens[x]]' = [[x \in Bthreads |-> tokens[x]] EXCEPT ![w] = 0]
    BY <2>5
  <2>7. Contract!Run(w)
    BY <2>2, <2>4, <2>6 DEF Contract!Run, OnWorker
  <2> QED BY <2>7 DEF Contract!Next
<1>6. ASSUME \/ wait_for_butex(w) \/ Append_waiter(w, "append", "blocked")
             \/ CancelUnsleep(w) \/ SpinTimer(w) \/ SpinWaiter(w, "spin", "ret")
             \/ Return(w, "ret")
      PROVE  UNCHANGED Contract!vars
  <2>1. /\ tokens' = tokens
        /\ \E q \in WaiterPCs : /\ pc' = [pc EXCEPT ![w] = q]
                                /\ q \in OnWorker <=> pc[w] \in OnWorker
    BY <1>6
       DEF wait_for_butex, Append_waiter, CancelUnsleep, SpinTimer, SpinWaiter, Return,
           OnWorker, WaiterPCs
  <2>2. \A x \in Bthreads : pc'[x] \in OnWorker <=> pc[x] \in OnWorker
    BY <1>2, <2>1
  <2> QED BY <2>1, <2>2, NobodySwitched
<1> QED BY <1>3, <1>4, <1>5, <1>6 DEF BthreadStep

\* A pthread that waits is no concern of the run queues.
LEMMA PthreadsApart ==
    ASSUME ButexInv, NEW w \in Pthreads,
           (\E b \in Butexes : butex_wait_from_pthread(w, b)) \/ PthreadStep(w)
    PROVE  UNCHANGED Contract!vars
<1>1. /\ w \in Waiters /\ \A x \in Bthreads : x \in Waiters /\ x # w
      /\ pc \in [Waiters -> WaiterPCs]
  BY ButexAssumption DEF ButexInv, TypeOK, Waiters
<1>2. tokens' = tokens /\ \E q \in WaiterPCs : pc' = [pc EXCEPT ![w] = q]
  BY DEF butex_wait_from_pthread, PthreadStep, PthreadCheck, Append_waiter, FutexSignalled,
         FutexTimeout, FutexErased, PthreadReturn, SpinWaiter, Return, WaiterPCs
<1>3. \A x \in Bthreads : pc'[x] = pc[x]
  BY <1>1, <1>2
<1> QED BY <1>2, <1>3, NobodySwitched

\* A waker, the timer and an interrupter make ready what they took off a list.
LEMMA OthersMakeReady ==
    ASSUME ButexInv, OtherStep
    PROVE  Contract!Next \/ UNCHANGED Contract!vars
<1> USE DEF threadVars
<1>1. ASSUME NEW a \in Erasers, EraseWake(a), ew[a] \in Bthreads
      PROVE  Contract!Next \/ UNCHANGED Contract!vars
  <2>1. a \in Wakers(ew[a]) /\ pc' = pc
    BY <1>1 DEF EraseWake, Wakers
  <2>2. ready_to_run(ew[a]) \/ tokens' = tokens
    BY <1>1 DEF EraseWake, ready_to_run_general
  <2> QED BY <1>1, <2>1, <2>2, WakerMakesReady
<1>2. ASSUME NEW a \in Erasers, EraseStep(a), ~(EraseWake(a) /\ ew[a] \in Bthreads)
      PROVE  UNCHANGED Contract!vars
  BY <1>2, NobodySwitched DEF EraseStep, EraseLoad, EraseLocked, EraseWake
<1>3. ASSUME NEW c \in Callers, WakeFirst(c) \/ ReadyTail(c)
      PROVE  Contract!Next \/ UNCHANGED Contract!vars
  <2>1. \E x \in Range(todo[c]) \cap Bthreads :
           ready_to_run(x) \/ tokens' = tokens
    <3>1. CASE WakeFirst(c)
      <4>1. cpc[c] \in ReadyingPCs /\ cpc[c] \in WakingPCs /\ ready_to_run(Head(todo[c]))
        BY <3>1 DEF WakeFirst, ReadyingPCs, WakingPCs
      <4> QED BY <4>1, TodoFacts
    <3>2. CASE ReadyTail(c)
      <4>1. /\ cpc[c] \in ReadyingPCs /\ cpc[c] \in WakingPCs
            /\ ready_to_run(Last(todo[c])) \/ tokens' = tokens
        BY <3>2 DEF ReadyTail, ReadyingPCs, WakingPCs, ready_to_run_general
      <4> QED BY <4>1, TodoFacts
    <3> QED BY <1>3, <3>1, <3>2
  <2>2. PICK x \in Range(todo[c]) \cap Bthreads : ready_to_run(x) \/ tokens' = tokens
    BY <2>1
  <2>3. c \in Wakers(x) /\ pc' = pc
    BY <1>3, <2>2 DEF Wakers, WakeFirst, ReadyTail
  <2> QED BY <2>2, <2>3, WakerMakesReady
<1>4. ASSUME NEW c \in Callers, WakeStep(c), ~WakeFirst(c), ~ReadyTail(c)
      PROVE  UNCHANGED Contract!vars
  <2>1. pc' = pc /\ tokens' = tokens
    BY <1>4, OperationKeeps
       DEF WakeStep, WakeOnePthread, WakeOneBthread, SignalPthread, UnsleepFirst,
           UnsleepTail, UnsleepNext
  <2> QED BY <2>1, NobodySwitched
<1>5. ASSUME NEW c \in Callers, InterruptStep(c)
      PROVE  UNCHANGED Contract!vars
  BY <1>5, NobodySwitched DEF InterruptStep, SetInterrupted, set_butex_waiter
<1>6. ASSUME \/ \E c \in Callers, b \in Butexes, op \in Ops, v \in Values : CallWake(c, b, op, v)
             \/ \E c \in Callers, w \in Waiters : interrupt(c, w)
             \/ \E w \in Bthreads : TimerFire(w)
             \/ TimerDone
      PROVE  UNCHANGED Contract!vars
  BY <1>6, NobodySwitched DEF CallWake, interrupt, TimerFire, TimerDone
<1> QED BY <1>1, <1>2, <1>3, <1>4, <1>5, <1>6 DEF OtherStep, EraseStep

\* butex_wait implements the contract of a blocking call: a bthread that waits is made
\* ready once, while it is switched out, whoever comes first and also when the wait is
\* cancelled while it is being queued.
THEOREM ButexImplementsSuspension ==
    ASSUME StaleContainers = {NULL}
    PROVE  Spec => WaitsAreSuspensions
<1>1. ASSUME Init PROVE Contract!Init
  <2>1. \A w \in Bthreads : pc[w] = "idle" /\ tokens[w] = 0
    BY <1>1 DEF Init, Waiters
  <2>2. \A w \in Bthreads : (pc[w] \in {"idle", "woken", "spin", "ret"}) = TRUE
    BY <2>1
  <2>3. [w \in Bthreads |-> pc[w] \in {"idle", "woken", "spin", "ret"}]
           = [w \in Bthreads |-> TRUE]
    BY <2>2
  <2>4. [w \in Bthreads |-> tokens[w]] = [w \in Bthreads |-> 0]
    BY <2>1
  <2> QED BY <2>3, <2>4 DEF Contract!Init
<1>2. ButexInv /\ [Next]_vars => [Contract!Next]_(Contract!vars)
  <2>1. ASSUME ButexInv, UNCHANGED vars PROVE UNCHANGED Contract!vars
    BY <2>1, NobodySwitched DEF vars, threadVars
  <2>2. ASSUME ButexInv, WaiterStep PROVE Contract!Next \/ UNCHANGED Contract!vars
    BY <2>2, BthreadSuspends, PthreadsApart DEF WaiterStep
  <2> QED BY <2>1, <2>2, OthersMakeReady, StepSplits
<1> QED BY <1>1, <1>2, ButexInvariant, PTL
           DEF Spec, WaitsAreSuspensions, Contract!Spec

=============================================================================
