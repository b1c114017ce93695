------------------------- MODULE SocketWriteProofs -------------------------
(***************************************************************************)
(* TLAPS proofs about SocketWrite for any number of threads, requests and  *)
(* bytes: one thread has the right to write, no released request is used,  *)
(* the CHECKs of the code hold, requests are set up in order, and the      *)
(* lock-free list is a queue.                                              *)
(***************************************************************************)
EXTENDS SocketWrite, ListLemmas, FiniteSetTheorems, WellFoundedInduction, TLAPS

-----------------------------------------------------------------------------
(* The inductive invariant.  The requests are, in the order of their       *)
(* exchange, the k in the hands of the holder, linked forwards, and those  *)
(* added since, each linked to the one before it or not yet linked.        *)

\* No request is queued twice.  Those in use are queued or being given back.
QueueInv ==
    /\ \A i, j \in 1..Len(order) : order[i] = order[j] => i = j
    /\ \A r \in busy : r \in Range(order) \/ \E a \in Agents : At(a, "return") /\ th[a].req = r
    /\ \A a \in Agents : At(a, "return") => th[a].req \in busy \ Range(order)
    /\ \A a, b \in Agents :
          At(a, "return") /\ At(b, "return") /\ th[a].req = th[b].req => a = b
    /\ head = IF order = <<>> THEN NULL ELSE order[Len(order)]

\* The right belongs to one thread, or to the connection attempt, and goes with the
\* oldest request.
OwnerInv ==
    /\ order # <<>> => Holders # {} \/ connecting # NULL
    /\ \A a \in Holders : order # <<>> /\ th[a].req = order[1] /\ connecting = NULL
    /\ \A a, b \in Holders : a = b
    /\ connecting # NULL => order # <<>> /\ connecting = order[1]

\* A request in the pool is not linked.
FreeInv == \A r \in Requests \ busy : next[r] = UNCONNECTED

\* A thread that has to link its request comes behind the one it will link to.
LinkInv ==
    /\ \A a \in Agents :
          At(a, "link") => \E i \in 2..Len(order) : /\ th[a].req = order[i]
                                                    /\ th[a].p = order[i - 1]
                                                    /\ next[order[i]] = UNCONNECTED
    /\ \A a, b \in Agents : At(a, "link") /\ At(b, "link") /\ th[a].req = th[b].req => a = b

\* Local variables that are not in use.
Locals(r) ==
    /\ r.pc = "idle" => r = Idle
    /\ r.pc \notin {"reverse", "setup"} => r.new = NULL /\ r.tail = NULL
    /\ r.pc \notin {"link", "reverse", "setup"} => r.p = NULL
    /\ r.pc = "link" => r.cur = NULL
    /\ r.pc = "return" => r.cur \in {NULL, r.req}
    /\ r.pc \in {"connect", "once", "background"} => r.from = "once"
    /\ r.pc \in {"keep", "write", "skim", "poll"} => r.from = "keep"
    /\ r.from # "keep" => r.cur = NULL

LocalsInv == \A a \in Agents : Locals(th[a])

\* The first k requests are linked forwards; those behind are as StartWrite left them.
InHand(k) ==
    /\ \A i \in 1..(k - 1) : next[order[i]] = order[i + 1]
    /\ next[order[k]] = NULL

AsAdded(i) == next[order[i]] \in {UNCONNECTED, order[i - 1]}

\* The list from the k-th to the m-th is being reversed, and order[j] comes next.
Reversing(r, k, j, m) ==
    /\ r.new = order[m] /\ r.p = order[j]
    /\ r.tail = IF j = m THEN NULL ELSE order[j + 1]
    /\ \A i \in (k + 1)..j : AsAdded(i)
    /\ \A i \in (j + 1)..(m - 1) : next[order[i]] = order[i + 1]
    /\ j < m => next[order[m]] = NULL
    /\ \A i \in (m + 1)..Len(order) : AsAdded(i)

\* The new requests up to the i-th are being set up.
SettingUp(r, k, i) ==
    /\ r.new = order[k] /\ r.p = order[i]
    /\ r.tail \in Range(order) /\ r.cur \in Range(order) \cup {NULL}

HolderAt(r, k) ==
    /\ r.pc = "connect" => k = 1 /\ next[order[1]] = UNCONNECTED
    /\ r.pc # "connect" => InHand(k)
    /\ r.pc # "reverse" => \A i \in (k + 1)..Len(order) : AsAdded(i)
    /\ r.pc = "reverse" =>
          \E m \in (k + 1)..Len(order) : \E j \in (k + 1)..m : Reversing(r, k, j, m)
    /\ r.pc = "setup" => \E i \in 2..k : SettingUp(r, k, i)
    /\ r.pc # "setup" => r.cur \in {NULL, order[k]}
    /\ r.pc = "once" => k = 1
    /\ r.pc \in {"cas", "reverse"} => IF r.from = "keep" THEN r.cur = order[k] ELSE k = 1

ListAt(k) ==
    /\ connecting # NULL => k = 1 /\ InHand(1) /\ \A i \in 2..Len(order) : AsAdded(i)
    /\ \A a \in Holders : HolderAt(th[a], k)

ListInv == order # <<>> => \E k \in 1..Len(order) : ListAt(k)

SocketInv ==
    TypeOK /\ QueueInv /\ OwnerInv /\ FreeInv /\ LinkInv /\ LocalsInv /\ ListInv

\* Setup() was called for the first n requests and no others.
ReadyUpTo(n) == \A i \in 1..Len(order) : order[i] \in ready <=> i <= n

\* For none before there is a connection, for those in hand, or for those before the one
\* that is set up next.
ReadyFor(r) ==
    /\ r.pc = "connect" => ReadyUpTo(0)
    /\ r.pc = "setup" => \A j \in 1..Len(order) : r.p = order[j] => ReadyUpTo(j - 1)
    /\ r.pc \notin {"connect", "setup"} => \A k \in 1..Len(order) : InHand(k) => ReadyUpTo(k)

\* While the connection is good, requests are set up as they are taken over, and a request
\* that is not set up is whole.
ReadyInv ==
    ~Failing =>
       /\ \A i \in 1..Len(order) : order[i] \notin ready => data[order[i]] = Size
       /\ connecting # NULL => ReadyUpTo(0)
       /\ \A a \in Holders : ReadyFor(th[a])

-----------------------------------------------------------------------------
(* Sets of numbers and sequences.                                          *)

\* A set of numbers that is not empty has a least element.
LEMMA LeastNumber ==
    ASSUME NEW S, S \subseteq Nat, S # {}
    PROVE  \E x \in S : \A y \in S : x <= y
<1>1. PICK x \in S : \A y \in S : ~(<<y, x>> \in OpToRel(<, Nat))
  BY NatLessThanWellFounded, WFMin
<1>2. ASSUME NEW y \in S PROVE x <= y
  <2>1. x \in Nat /\ y \in Nat
    OBVIOUS
  <2>2. ~(y < x)
    BY <1>1, <2>1 DEF OpToRel
  <2> QED BY <2>1, <2>2
<1> QED BY <1>2

\* A list without duplicates loses its first element, and nothing when it does not have
\* the element.
LEMMA FirstRemoved ==
    ASSUME NEW S, NEW s \in Seq(S), NEW e,
           \A i, j \in 1..Len(s) : s[i] = s[j] => i = j
    PROVE  /\ e \notin Range(s) => RemoveFirst(s, e) = s
           /\ s # <<>> /\ e = s[1] =>
                /\ RemoveFirst(s, e) = Tail(s)
                /\ Tail(s) \in Seq(S) /\ Len(Tail(s)) = Len(s) - 1
                /\ \A i \in 1..(Len(s) - 1) : Tail(s)[i] = s[i + 1]
<1>1. CASE \E i \in 1..Len(s) : s[i] = e
  <2>1. e \in Range(s)
    BY <1>1 DEF Range
  <2>2. ASSUME s # <<>>, e = s[1]
        PROVE  /\ RemoveFirst(s, e) = Tail(s)
               /\ Tail(s) \in Seq(S) /\ Len(Tail(s)) = Len(s) - 1
               /\ \A i \in 1..(Len(s) - 1) : Tail(s)[i] = s[i + 1]
    <3>1. 1 \in 1..Len(s) /\ Len(s) \in Nat
      BY <2>2
    <3>2. {i \in 1..Len(s) : s[i] = e} = {1}
      BY <2>2, <3>1
    <3>3. Min({1}) = 1
      BY DEF Min
    <3>4. SelectInSeq(s, LAMBDA v : v = e) = 1
      BY <3>2, <3>3 DEF SelectInSeq
    <3>5. RemoveFirst(s, e) = RemoveAt(s, 1)
      BY <1>1, <3>4 DEF RemoveFirst
    <3>6. /\ RemoveAt(s, 1) \in Seq(S) /\ Len(RemoveAt(s, 1)) = Len(s) - 1
          /\ \A i \in 1..(Len(s) - 1) : RemoveAt(s, 1)[i] = s[i + 1]
      BY <3>1, RemoveAtElements
    <3>7. /\ Tail(s) \in Seq(S) /\ Len(Tail(s)) = Len(s) - 1
          /\ \A i \in 1..(Len(s) - 1) : Tail(s)[i] = s[i + 1]
      BY <2>2, <3>1
    <3>8. RemoveAt(s, 1) = Tail(s)
      BY <3>6, <3>7, SeqEqual
    <3> QED BY <3>5, <3>7, <3>8
  <2> QED BY <2>1, <2>2
<1>2. CASE ~\E i \in 1..Len(s) : s[i] = e
  <2>1. RemoveFirst(s, e) = s
    BY <1>2 DEF RemoveFirst
  <2>2. s # <<>> => s[1] # e
    BY <1>2
  <2> QED BY <2>1, <2>2
<1> QED BY <1>1, <1>2

\* Appending.
LEMMA AppendElements ==
    ASSUME NEW S, NEW s \in Seq(S), NEW e \in S
    PROVE  /\ Append(s, e) \in Seq(S) /\ Len(Append(s, e)) = Len(s) + 1
           /\ \A i \in 1..Len(s) : Append(s, e)[i] = s[i]
           /\ Append(s, e)[Len(s) + 1] = e
  OBVIOUS

-----------------------------------------------------------------------------
(* What the invariant says of a state.                                     *)

\* The queue holds requests in use, each once, at most as many as the pool has.
LEMMA QueueFacts ==
    ASSUME TypeOK, QueueInv
    PROVE  /\ order \in Seq(busy) /\ Len(order) \in Nat
           /\ \A i \in 1..Len(order) : order[i] \in busy /\ order[i] \in Requests
           /\ \A r \in Range(order) : r \in busy
           /\ \A i \in 1..Len(order) : order[i] \in Range(order)
           /\ order = <<>> <=> Len(order) = 0
           /\ order # <<>> => Len(order) >= 1 /\ order[1] = Head(order)
           /\ Len(order) <= NReq
<1>1. order \in Seq(busy) /\ busy \subseteq Requests
  BY DEF TypeOK
<1>2. /\ Len(order) \in Nat /\ DOMAIN order = 1..Len(order)
      /\ \A i \in 1..Len(order) : order[i] \in busy /\ order[i] \in Requests
      /\ order = <<>> <=> Len(order) = 0
      /\ order # <<>> => Len(order) >= 1 /\ order[1] = Head(order)
  BY <1>1
<1>3. /\ \A r \in Range(order) : r \in busy
      /\ \A i \in 1..Len(order) : order[i] \in Range(order)
  BY <1>2 DEF Range
<1>4. Len(order) <= NReq
  <2>1. NReq \in Nat
    BY SocketAssumption
  <2>2. /\ IsFiniteSet(1..Len(order)) /\ Cardinality(1..Len(order)) = Len(order)
        /\ IsFiniteSet(1..NReq) /\ Cardinality(1..NReq) = NReq
    <3>1. /\ IsFiniteSet(1..Len(order))
          /\ Cardinality(1..Len(order)) = IF 1 > Len(order) THEN 0 ELSE Len(order) - 1 + 1
      BY <1>2, FS_Interval
    <3>2. /\ IsFiniteSet(1..NReq)
          /\ Cardinality(1..NReq) = IF 1 > NReq THEN 0 ELSE NReq - 1 + 1
      BY <2>1, FS_Interval
    <3> QED BY <1>2, <2>1, <3>1, <3>2
  <2>3. PICK f \in [1..Len(order) -> 1..NReq] : \A i \in 1..Len(order) : f[i] = order[i]
    <3>1. [i \in 1..Len(order) |-> order[i]] \in [1..Len(order) -> 1..NReq]
      BY <1>2 DEF Requests
    <3> QED BY <3>1
  <2>4. ASSUME NReq < Len(order) PROVE FALSE
    <3>1. Cardinality(1..NReq) < Cardinality(1..Len(order))
      BY <2>2, <2>4
    <3>2. PICK x \in 1..Len(order), y \in 1..Len(order) : x # y /\ f[x] = f[y]
      BY <2>2, <3>1, FS_PigeonHole
    <3> QED BY <2>3, <3>2 DEF QueueInv
  <2> QED BY <1>2, <2>1, <2>4
<1> QED BY <1>1, <1>2, <1>3, <1>4

\* There is only one list in hand.
LEMMA OneListInHand ==
    ASSUME TypeOK, QueueInv, NEW k \in 1..Len(order), NEW m \in 1..Len(order),
           InHand(k), InHand(m)
    PROVE  k = m
<1>1. /\ Len(order) \in Nat
      /\ \A i \in 1..Len(order) : order[i] \in Requests
  BY QueueFacts
<1>2. NULL \notin Requests
  BY SocketAssumption
<1>3. ASSUME k < m PROVE FALSE
  <2>1. k \in 1..(m - 1) /\ k + 1 \in 1..Len(order)
    BY <1>1, <1>3
  <2>2. next[order[k]] = order[k + 1] /\ next[order[k]] = NULL
    BY <2>1 DEF InHand
  <2> QED BY <1>1, <1>2, <2>1, <2>2
<1>4. ASSUME m < k PROVE FALSE
  <2>1. m \in 1..(k - 1) /\ m + 1 \in 1..Len(order)
    BY <1>1, <1>4
  <2>2. next[order[m]] = order[m + 1] /\ next[order[m]] = NULL
    BY <2>1 DEF InHand
  <2> QED BY <1>1, <1>2, <2>1, <2>2
<1> QED BY <1>1, <1>3, <1>4

\* The list that starts at the oldest request is the first k requests.
LEMMA ListInHand ==
    ASSUME TypeOK, QueueInv, NEW k \in 1..Len(order), InHand(k)
    PROVE  /\ List(order[1]) = SubSeq(order, 1, k)
           /\ List(order[1]) \in SeqOf(busy, NReq) /\ IsList(List(order[1]), order[1])
           /\ Len(List(order[1])) = k /\ Last(List(order[1])) = order[k]
           /\ \A i \in 1..k : List(order[1])[i] = order[i]
<1> DEFINE s == SubSeq(order, 1, k)
<1>1. /\ order \in Seq(busy) /\ Len(order) \in Nat /\ Len(order) <= NReq
      /\ \A i \in 1..Len(order) : order[i] \in busy /\ order[i] \in Requests
  BY QueueFacts
<1>2. NULL \notin Requests /\ NReq \in Nat
  BY SocketAssumption
<1>3. s \in Seq(busy) /\ Len(s) = k /\ \A i \in 1..k : s[i] = order[i]
  BY <1>1, SubSeqProperties
<1> HIDE DEF s
<1>4. IsList(s, order[1])
  <2>1. s # <<>> /\ s[1] = order[1] /\ Len(s) = k
    BY <1>3
  <2>2. \A i \in 1..(k - 1) : next[s[i]] = s[i + 1]
    BY <1>3 DEF InHand
  <2>3. next[s[k]] \notin Requests
    BY <1>2, <1>3 DEF InHand
  <2> QED BY <2>1, <2>2, <2>3 DEF IsList
<1>5. s \in SeqOf(busy, NReq) /\ s \in SeqOf(Requests, NReq)
  <2>1. k \in 0..NReq
    BY <1>1, <1>2
  <2>2. s \in [1..k -> busy] /\ s \in [1..k -> Requests]
    BY <1>1, <1>3
  <2> QED BY <2>1, <2>2 DEF SeqOf
<1>6. ASSUME NEW l \in SeqOf(Requests, NReq), IsList(l, order[1]) PROVE l = s
  <2>1. PICK n \in 0..NReq : l \in [1..n -> Requests]
    BY DEF SeqOf
  <2>2. l \in Seq(Requests) /\ Len(l) = n /\ n \in Nat
    BY <1>2, <2>1
  <2>3. /\ n >= 1 /\ l[1] = order[1]
        /\ \A i \in 1..(n - 1) : next[l[i]] = l[i + 1]
        /\ next[l[n]] \notin Requests
    BY <1>6, <2>2 DEF IsList
  <2> DEFINE Bad == {i \in 1..n : ~(i <= k /\ l[i] = order[i])}
  <2>4. Bad = {}
    <3>1. SUFFICES ASSUME Bad # {} PROVE FALSE
      OBVIOUS
    <3>2. PICK i \in Bad : \A j \in Bad : i <= j
      <4>1. Bad \subseteq Nat
        BY <2>2
      <4> HIDE DEF Bad
      <4> QED BY <3>1, <4>1, LeastNumber
    <3>3. i \in 1..n /\ ~(i <= k /\ l[i] = order[i])
      OBVIOUS
    <3>4. i # 1
      BY <1>1, <2>3, <3>3
    <3>5. i - 1 \in 1..(n - 1) /\ i - 1 \notin Bad
      BY <2>2, <3>2, <3>3, <3>4
    <3>6. i - 1 <= k /\ l[i - 1] = order[i - 1]
      BY <2>2, <3>5
    <3>7. next[l[i - 1]] = l[i] /\ l[i] \in Requests
      <4>1. (i - 1) + 1 = i
        BY <3>3
      <4> QED BY <2>1, <2>3, <3>3, <3>5, <4>1
    <3>8. CASE i - 1 = k
      BY <1>2, <3>6, <3>7, <3>8 DEF InHand
    <3>9. CASE i - 1 < k
      <4>1. i - 1 \in 1..(k - 1) /\ (i - 1) + 1 = i /\ i <= k
        BY <3>3, <3>4, <3>9
      <4>2. next[order[i - 1]] = order[i]
        BY <4>1 DEF InHand
      <4> QED BY <3>3, <3>6, <3>7, <4>1, <4>2
    <3> QED BY <3>3, <3>6, <3>8, <3>9
  <2>5. n <= k /\ \A i \in 1..n : l[i] = order[i]
    BY <2>2, <2>3, <2>4
  <2>6. ASSUME n < k PROVE FALSE
    <3>1. n \in 1..(k - 1) /\ n + 1 \in 1..Len(order)
      BY <1>1, <2>2, <2>3, <2>6
    <3>2. next[order[n]] = order[n + 1]
      BY <3>1 DEF InHand
    <3>3. l[n] = order[n]
      BY <2>2, <2>3, <2>5
    <3> QED BY <1>1, <2>3, <3>1, <3>2, <3>3
  <2>7. n = k
    BY <2>2, <2>5, <2>6
  <2>8. Len(l) = Len(s) /\ \A i \in 1..Len(l) : l[i] = s[i]
    BY <1>3, <2>2, <2>5, <2>7
  <2>9. s \in Seq(Requests)
    BY <1>1, <1>3
  <2> QED BY <2>2, <2>8, <2>9, SeqEqual
<1>7. List(order[1]) = s
  <2>1. \E l \in SeqOf(Requests, NReq) : IsList(l, order[1])
    BY <1>4, <1>5
  <2>2. List(order[1]) \in SeqOf(Requests, NReq) /\ IsList(List(order[1]), order[1])
    BY <2>1 DEF List
  <2> QED BY <1>6, <2>2
<1>8. Last(s) = order[k]
  BY <1>3 DEF Last
<1> QED BY <1>3, <1>4, <1>5, <1>7, <1>8 DEF s

\* The least free request that a thread takes.
LEMMA FreeRequest ==
    ASSUME Requests \ busy # {}
    PROVE  (CHOOSE x \in Requests \ busy : \A y \in Requests \ busy : x <= y) \in Requests \ busy
<1>1. Requests \ busy \subseteq Nat
  BY SocketAssumption DEF Requests
<1>2. \E x \in Requests \ busy : \A y \in Requests \ busy : x <= y
  BY <1>1, LeastNumber
<1> QED BY <1>2

-----------------------------------------------------------------------------
(* Steps of the holder of the right that leave the queue as it is.         *)

\* A step of the holder that moves its place in the queue and no other agent.
LEMMA HolderMoves ==
    ASSUME SocketInv, NEW a \in Agents, a \in Holders,
           NEW r \in ThreadStates, th' = [th EXCEPT ![a] = r],
           r.pc \notin {"idle", "link", "return"}, r.req = th[a].req, Locals(r),
           r.pc = "reverse" => r.p \in Requests,
           UNCHANGED <<head, busy, connecting, order>>,
           next' \in [Requests -> Pointer \cup {UNCONNECTED}],
           data' \in [Requests -> 0..Size], ready' \subseteq busy,
           FreeInv', \A b \in Agents : At(b, "link") => next'[th[b].req] = next[th[b].req],
           NEW k \in 1..Len(order), HolderAt(r, k)'
    PROVE  SocketInv'
<1>1. TypeOK /\ QueueInv /\ OwnerInv /\ LinkInv /\ LocalsInv
  BY DEF SocketInv
<1>2. /\ th'[a] = r /\ \A b \in Agents : b # a => th'[b] = th[b]
      /\ th' \in [Agents -> ThreadStates] /\ th[a].pc \notin {"idle", "link", "return"}
  BY <1>1 DEF TypeOK, Holders
<1>3. Holders' = {a} /\ Holders = {a}
  <2>1. Holders = {a}
    BY <1>1 DEF OwnerInv, Holders
  <2>2. a \in Holders' /\ \A b \in Agents : b # a => (b \in Holders' <=> b \in Holders)
    BY <1>2 DEF Holders
  <2> QED BY <2>1, <2>2 DEF Holders
<1>4. TypeOK'
  <2>1. th[a].req \in Requests
    BY <1>1, <1>2 DEF TypeOK, At
  <2>2. \A b \in Agents : /\ th'[b].pc # "idle" => th'[b].req \in Requests
                          /\ th'[b].pc = "reverse" => th'[b].p \in Requests
    BY <1>1, <1>2, <2>1 DEF TypeOK, At
  <2> QED BY <1>1, <1>2, <2>2 DEF TypeOK, At
<1>5. QueueInv'
  <2>1. \A b \in Agents : /\ th'[b].pc = "return" <=> th[b].pc = "return"
                          /\ th'[b].req = th[b].req
    BY <1>2
  <2> QED BY <1>1, <2>1 DEF QueueInv, At
<1>6. OwnerInv'
  <2>1. th'[a].req = th[a].req
    BY <1>2
  <2> QED BY <1>1, <1>3, <2>1 DEF OwnerInv
<1>7. LinkInv'
  <2>1. ASSUME NEW b \in Agents, At(b, "link")'
        PROVE  At(b, "link") /\ th'[b] = th[b]
    BY <1>2, <2>1 DEF At
  <2>2. ASSUME NEW b \in Agents, At(b, "link")'
        PROVE  \E i \in 2..Len(order) : /\ th'[b].req = order[i] /\ th'[b].p = order[i - 1]
                                        /\ next'[order[i]] = UNCONNECTED
    <3>1. At(b, "link") /\ th'[b] = th[b]
      BY <2>1, <2>2
    <3>2. PICK i \in 2..Len(order) : /\ th[b].req = order[i] /\ th[b].p = order[i - 1]
                                     /\ next[order[i]] = UNCONNECTED
      BY <1>1, <3>1 DEF LinkInv
    <3> QED BY <3>1, <3>2
  <2>3. ASSUME NEW b \in Agents, NEW c \in Agents, At(b, "link")', At(c, "link")',
               th'[b].req = th'[c].req
        PROVE  b = c
    BY <1>1, <2>1, <2>3 DEF LinkInv
  <2> QED BY <2>2, <2>3 DEF LinkInv
<1>8. LocalsInv'
  BY <1>1, <1>2 DEF LocalsInv
<1>9. ListInv'
  <2>1. connecting' = NULL
    BY <1>1 DEF OwnerInv
  <2>2. ListAt(k)'
    BY <1>2, <1>3, <2>1 DEF ListAt
  <2> QED BY <2>2 DEF ListInv
<1> QED BY <1>4, <1>5, <1>6, <1>7, <1>8, <1>9 DEF SocketInv

\* The same when no request is linked otherwise.
LEMMA HolderGoes ==
    ASSUME SocketInv, NEW a \in Agents, a \in Holders,
           NEW r \in ThreadStates, th' = [th EXCEPT ![a] = r],
           r.pc \notin {"idle", "link", "return"}, r.req = th[a].req, Locals(r),
           r.pc = "reverse" => r.p \in Requests,
           UNCHANGED <<head, next, busy, connecting, order>>,
           data' \in [Requests -> 0..Size], ready' \subseteq busy,
           NEW k \in 1..Len(order), HolderAt(r, k)
    PROVE  SocketInv'
<1>1. HolderAt(r, k)'
  BY DEF HolderAt, InHand, AsAdded, Reversing, SettingUp
<1>2. next' \in [Requests -> Pointer \cup {UNCONNECTED}]
  BY DEF SocketInv, TypeOK
<1>3. \A b \in Agents : At(b, "link") => next'[th[b].req] = next[th[b].req]
  OBVIOUS
<1>4. FreeInv'
  BY DEF SocketInv, FreeInv
<1> QED BY <1>1, <1>2, <1>3, <1>4, HolderMoves

\* What is known of the holder of the right.
LEMMA HolderFacts ==
    ASSUME SocketInv, NEW a \in Agents, a \in Holders
    PROVE  /\ th[a] \in ThreadStates /\ Locals(th[a])
           /\ order # <<>> /\ th[a].req = order[1] /\ th[a].req \in busy
           /\ th[a].req \in Requests /\ connecting = NULL
           /\ Holders = {a}
           /\ \E k \in 1..Len(order) : HolderAt(th[a], k)
<1>1. TypeOK /\ QueueInv /\ OwnerInv /\ LocalsInv /\ ListInv
  BY DEF SocketInv
<1>2. order # <<>> /\ th[a].req = order[1] /\ connecting = NULL
  BY <1>1 DEF OwnerInv
<1>3. Holders = {a}
  BY <1>1 DEF OwnerInv, Holders
<1>4. \E k \in 1..Len(order) : HolderAt(th[a], k)
  BY <1>1, <1>2 DEF ListInv, ListAt
<1>5. th[a] \in ThreadStates /\ Locals(th[a])
  BY <1>1 DEF TypeOK, LocalsInv
<1>6. th[a].req \in busy /\ th[a].req \in Requests
  <2>1. 1 \in 1..Len(order)
    BY <1>1, <1>2, QueueFacts
  <2> QED BY <1>1, <1>2, <2>1, QueueFacts
<1> QED BY <1>2, <1>3, <1>4, <1>5, <1>6

-----------------------------------------------------------------------------
(* The steps of the holder, one by one.                                    *)

\* The connection failed: the list in hand is dropped.
LEMMA DropKeeps ==
    ASSUME SocketInv, NEW a \in Agents, At(a, "once") \/ At(a, "poll") \/ At(a, "write") \/ At(a, "keep"),
           Go(a, To(a, "drop")),
           UNCHANGED <<head, next, data, busy, connecting, ready, order>>
    PROVE  SocketInv'
<1>1. a \in Holders /\ th[a].pc \in {"once", "poll", "write", "keep"}
  BY DEF Holders, At
<1>2. th[a] \in ThreadStates /\ Locals(th[a]) /\ th[a].req \in Requests
  BY <1>1, HolderFacts
<1>3. PICK k \in 1..Len(order) : HolderAt(th[a], k)
  BY <1>1, HolderFacts
<1>4. PICK r : r = [th[a] EXCEPT !.pc = "drop"]
  OBVIOUS
<1>5. /\ r \in ThreadStates /\ r.pc = "drop" /\ r.req = th[a].req /\ r.cur = th[a].cur
      /\ r.new = th[a].new /\ r.p = th[a].p /\ r.tail = th[a].tail /\ r.from = th[a].from
  BY <1>2, <1>4 DEF ThreadStates
<1>6. Locals(r)
  BY <1>1, <1>2, <1>5 DEF Locals
<1>7. HolderAt(r, k)
  BY <1>1, <1>3, <1>5 DEF HolderAt
<1>8. th' = [th EXCEPT ![a] = r]
  BY <1>4 DEF Go, To
<1>9. data' \in [Requests -> 0..Size] /\ ready' \subseteq busy
  BY DEF SocketInv, TypeOK
<1> QED BY <1>1, <1>5, <1>6, <1>7, <1>8, <1>9, HolderGoes

\* A write of the own request, or its failure.
LEMMA WriteOnceKeeps ==
    ASSUME SocketInv, NEW a \in Agents, WriteOnce(a)
    PROVE  SocketInv'
<1>1. CASE Go(a, To(a, "drop")) /\ UNCHANGED data
  BY <1>1, DropKeeps DEF WriteOnce
<1>2. ASSUME NEW n \in 0..data[th[a].req],
             data' = [data EXCEPT ![th[a].req] = @ - n], Go(a, To(a, "cas"))
      PROVE  SocketInv'
  <2>1. a \in Holders /\ th[a].pc = "once"
    BY DEF WriteOnce, Holders, At
  <2>2. th[a] \in ThreadStates /\ Locals(th[a]) /\ th[a].req \in Requests
    BY <2>1, HolderFacts
  <2>3. PICK k \in 1..Len(order) : HolderAt(th[a], k)
    BY <2>1, HolderFacts
  <2>4. PICK r : r = [th[a] EXCEPT !.pc = "cas"]
    OBVIOUS
  <2>5. /\ r \in ThreadStates /\ r.pc = "cas" /\ r.req = th[a].req /\ r.cur = th[a].cur
        /\ r.new = th[a].new /\ r.p = th[a].p /\ r.tail = th[a].tail /\ r.from = th[a].from
    BY <2>2, <2>4 DEF ThreadStates
  <2>6. Locals(r)
    BY <2>1, <2>2, <2>5 DEF Locals
  <2>7. HolderAt(r, k)
    BY <2>1, <2>2, <2>3, <2>5 DEF HolderAt, Locals
  <2>8. th' = [th EXCEPT ![a] = r]
    BY <1>2, <2>4 DEF Go, To
  <2>9. data' \in [Requests -> 0..Size] /\ ready' \subseteq busy
    <3>1. data \in [Requests -> 0..Size] /\ Size \in Nat /\ ready \subseteq busy
      BY SocketAssumption DEF SocketInv, TypeOK
    <3>2. data[th[a].req] \in 0..Size
      BY <2>2, <3>1
    <3>3. data[th[a].req] - n \in 0..Size
      BY <3>1, <3>2
    <3> QED BY <1>2, <3>1, <3>3 DEF WriteOnce
  <2>10. UNCHANGED <<head, next, busy, connecting, order>>
    BY DEF WriteOnce
  <2> QED BY <2>1, <2>5, <2>6, <2>7, <2>8, <2>9, <2>10, HolderGoes
<1> QED BY <1>1, <1>2 DEF WriteOnce

\* A part of the list is written.
LEMMA DoWriteKeeps ==
    ASSUME SocketInv, NEW a \in Agents, NEW i \in 1..NReq, NEW b \in 0..Size, DoWrite(a, i, b)
    PROVE  SocketInv'
<1>1. a \in Holders /\ th[a].pc \in {"write", "keep"}
  BY DEF DoWrite, Holders, At
<1>2. th[a] \in ThreadStates /\ Locals(th[a]) /\ th[a].req \in Requests
  BY <1>1, HolderFacts
<1>3. PICK k \in 1..Len(order) : HolderAt(th[a], k)
  BY <1>1, HolderFacts
<1>4. PICK nw \in BOOLEAN : nw = (data' # data)
  OBVIOUS
<1>5. PICK r : r = [th[a] EXCEPT !.pc = "skim", !.nw = nw]
  OBVIOUS
<1>6. /\ r \in ThreadStates /\ r.pc = "skim" /\ r.req = th[a].req /\ r.cur = th[a].cur
      /\ r.new = th[a].new /\ r.p = th[a].p /\ r.tail = th[a].tail /\ r.from = th[a].from
  BY <1>2, <1>5 DEF ThreadStates
<1>7. Locals(r)
  BY <1>1, <1>2, <1>6 DEF Locals
<1>8. HolderAt(r, k)
  BY <1>1, <1>3, <1>6 DEF HolderAt
<1>9. th' = [th EXCEPT ![a] = r]
  BY <1>4, <1>5, Zenon DEF Go, DoWrite
<1>10. data' \in [Requests -> 0..Size] /\ ready' \subseteq busy
  <2>1. data \in [Requests -> 0..Size] /\ Size \in Nat /\ ready \subseteq busy
    BY SocketAssumption DEF SocketInv, TypeOK
  <2>2. PICK l : data' = Cut(l, i, b) /\ b <= data[l[i]]
    BY DEF DoWrite
  <2>3. ASSUME NEW r2 \in Requests PROVE Cut(l, i, b)[r2] \in 0..Size
    <3>1. data[r2] \in 0..Size
      BY <2>1
    <3>2. l[i] = r2 => data[r2] - b \in 0..Size
      BY <2>1, <2>2, <3>1
    <3> QED BY <2>1, <3>1, <3>2 DEF Cut
  <2> QED BY <2>1, <2>2, <2>3 DEF Cut, DoWrite
<1>11. UNCHANGED <<head, next, busy, connecting, order>>
  BY DEF DoWrite
<1> QED BY <1>1, <1>6, <1>7, <1>8, <1>9, <1>10, <1>11, HolderGoes

\* The last request in hand becomes the tail if there is none: all of KeepWrite's ways to
\* IsWriteComplete.
LEMMA TailKeeps ==
    ASSUME SocketInv, NEW a \in Agents, th[a].pc \in {"skim", "poll"},
           NEW q \in {"cas", "poll"}, NEW nw \in BOOLEAN, NEW c,
           c = (IF q = "cas" /\ th[a].cur = NULL THEN Last(List(th[a].req)) ELSE th[a].cur),
           Go(a, [th[a] EXCEPT !.pc = q, !.nw = nw, !.cur = c]),
           UNCHANGED <<head, next, data, busy, connecting, ready, order>>
    PROVE  SocketInv'
<1>1. a \in Holders
  BY DEF Holders
<1>2. th[a] \in ThreadStates /\ Locals(th[a]) /\ th[a].req \in Requests /\ th[a].req = order[1]
  BY <1>1, HolderFacts
<1>3. PICK k \in 1..Len(order) : HolderAt(th[a], k)
  BY <1>1, HolderFacts
<1>4. InHand(k) /\ th[a].cur \in {NULL, order[k]}
  BY <1>3 DEF HolderAt
<1>5. Last(List(th[a].req)) = order[k] /\ order[k] \in Requests
  BY <1>2, <1>4, ListInHand, QueueFacts DEF SocketInv
<1>6. c \in {NULL, order[k]} /\ (q = "cas" => c = order[k]) /\ c \in Pointer
  BY <1>4, <1>5 DEF Pointer
<1>7. PICK r : r = [th[a] EXCEPT !.pc = q, !.nw = nw, !.cur = c]
  OBVIOUS
<1>8. /\ r \in ThreadStates /\ r.pc = q /\ r.req = th[a].req /\ r.cur = c
      /\ r.new = th[a].new /\ r.p = th[a].p /\ r.tail = th[a].tail /\ r.from = th[a].from
  BY <1>2, <1>6, <1>7 DEF ThreadStates
<1>9. Locals(r)
  BY <1>2, <1>8 DEF Locals
<1>10. HolderAt(r, k)
  <2>1. th[a].from = "keep"
    BY <1>2 DEF Locals
  <2> QED BY <1>3, <1>6, <1>8, <2>1 DEF HolderAt
<1>11. th' = [th EXCEPT ![a] = r]
  BY <1>7 DEF Go
<1>12. data' \in [Requests -> 0..Size] /\ ready' \subseteq busy
  BY DEF SocketInv, TypeOK
<1> QED BY <1>1, <1>8, <1>9, <1>10, <1>11, <1>12, HolderGoes

\* All that was written is released; what is left waits or is written.
LEMMA SkimmedKeeps ==
    ASSUME SocketInv, NEW a \in Agents, Skimmed(a)
    PROVE  SocketInv'
<1>1. th[a].pc = "skim" /\ a \in Holders
  BY DEF Skimmed, At, Holders
<1>2. th[a] \in ThreadStates
  BY <1>1, HolderFacts
<1>3. PICK q \in {"cas", "poll"} : q = IF th[a].nw THEN "cas" ELSE "poll"
  OBVIOUS
<1>4. PICK c : c = IF q = "cas" /\ th[a].cur = NULL THEN Last(List(th[a].req)) ELSE th[a].cur
  OBVIOUS
<1>5. [th[a] EXCEPT !.pc = IF th[a].nw THEN "cas" ELSE "poll", !.nw = FALSE,
                    !.cur = IF th[a].nw /\ @ = NULL THEN Last(List(th[a].req)) ELSE @]
        = [th[a] EXCEPT !.pc = q, !.nw = FALSE, !.cur = c]
  BY <1>2, <1>3, <1>4 DEF ThreadStates
<1>6. Go(a, [th[a] EXCEPT !.pc = q, !.nw = FALSE, !.cur = c])
  BY <1>5, Zenon DEF Skimmed
<1> QED BY <1>1, <1>4, <1>6, TailKeeps DEF Skimmed

\* KeepWrite waits until the descriptor can be written.
LEMMA WaitEpollOutKeeps ==
    ASSUME SocketInv, NEW a \in Agents, WaitEpollOut(a)
    PROVE  SocketInv'
<1>1. th[a].pc = "poll" /\ a \in Holders
  BY DEF WaitEpollOut, At, Holders
<1>2. th[a] \in ThreadStates
  BY <1>1, HolderFacts
<1>3. CASE Go(a, To(a, "drop"))
  BY <1>3, DropKeeps DEF WaitEpollOut
<1>4. CASE Go(a, [th[a] EXCEPT !.pc = "cas",
                               !.cur = IF @ = NULL THEN Last(List(th[a].req)) ELSE @])
  <2>1. PICK c : c = IF "cas" = "cas" /\ th[a].cur = NULL THEN Last(List(th[a].req)) ELSE th[a].cur
    OBVIOUS
  <2>2. PICK nw \in BOOLEAN : nw = th[a].nw
    BY <1>2 DEF ThreadStates
  <2>3. [th[a] EXCEPT !.pc = "cas", !.cur = IF @ = NULL THEN Last(List(th[a].req)) ELSE @]
          = [th[a] EXCEPT !.pc = "cas", !.nw = nw, !.cur = c]
    BY <1>2, <2>1, <2>2 DEF ThreadStates
  <2>4. Go(a, [th[a] EXCEPT !.pc = "cas", !.nw = nw, !.cur = c])
    BY <1>4, <2>3, Zenon
  <2> QED BY <1>1, <2>1, <2>4, TailKeeps DEF WaitEpollOut
<1> QED BY <1>3, <1>4 DEF WaitEpollOut

\* The data of the last failed request is cleared.
LEMMA ClearLastKeeps ==
    ASSUME SocketInv, NEW a \in Agents, ClearLast(a)
    PROVE  SocketInv'
<1>1. a \in Holders /\ th[a].pc = "drop"
  BY DEF ClearLast, Holders, At
<1>2. th[a] \in ThreadStates /\ Locals(th[a]) /\ th[a].req \in Requests /\ th[a].req = order[1]
  BY <1>1, HolderFacts
<1>3. PICK k \in 1..Len(order) : HolderAt(th[a], k)
  BY <1>1, HolderFacts
<1>4. k = 1
  <2>1. InHand(k) /\ next[order[1]] = NULL
    BY <1>1, <1>2, <1>3 DEF HolderAt, ClearLast
  <2>2. InHand(1)
    BY <2>1 DEF InHand
  <2> QED BY <2>1, <2>2, QueueFacts, OneListInHand DEF SocketInv
<1>5. PICK r : r = [th[a] EXCEPT !.pc = "cas", !.from = "fail", !.cur = NULL]
  OBVIOUS
<1>6. /\ r \in ThreadStates /\ r.pc = "cas" /\ r.req = th[a].req /\ r.cur = NULL
      /\ r.new = th[a].new /\ r.p = th[a].p /\ r.tail = th[a].tail /\ r.from = "fail"
  BY <1>2, <1>5 DEF ThreadStates, Pointer
<1>7. Locals(r)
  BY <1>1, <1>2, <1>6 DEF Locals
<1>8. HolderAt(r, k)
  BY <1>1, <1>3, <1>4, <1>6 DEF HolderAt
<1>9. th' = [th EXCEPT ![a] = r]
  BY <1>5 DEF Go, ClearLast
<1>10. data' \in [Requests -> 0..Size] /\ ready' \subseteq busy
  <2>1. 0 \in 0..Size
    BY SocketAssumption
  <2> QED BY <2>1 DEF SocketInv, TypeOK, ClearLast
<1>11. UNCHANGED <<head, next, busy, connecting, order>>
  BY DEF ClearLast
<1> QED BY <1>1, <1>6, <1>7, <1>8, <1>9, <1>10, <1>11, HolderGoes

-----------------------------------------------------------------------------
(* IsWriteComplete.                                                        *)

\* What IsWriteComplete is called with: the last request in hand is old_head.
LEMMA OldHeadFacts ==
    ASSUME SocketInv, NEW a \in Agents, th[a].pc \in {"cas", "reverse"},
           NEW k \in 1..Len(order), HolderAt(th[a], k)
    PROVE  /\ OldHead(a) = order[k] /\ InHand(k)
           /\ th[a].from # "keep" => k = 1
           /\ (OldHead(a) = th[a].req <=> k = 1)
<1>1. a \in Holders
  BY DEF Holders
<1>2. th[a].req = order[1] /\ Len(order) \in Nat /\ 1 \in 1..Len(order)
  BY <1>1, HolderFacts, QueueFacts DEF SocketInv
<1>3. OldHead(a) = order[k] /\ InHand(k) /\ (th[a].from # "keep" => k = 1)
  BY <1>2 DEF HolderAt, OldHead
<1>4. order[k] = order[1] => k = 1
  BY <1>2 DEF SocketInv, QueueInv
<1> QED BY <1>2, <1>3, <1>4

\* The comparison succeeds and the caller goes on, or it fails and what was added is to
\* be reversed.
LEMMA CompareKeeps ==
    ASSUME SocketInv, NEW a \in Agents, CompareExchange(a), UNCHANGED <<head, order>>,
           ~(head = OldHead(a) /\ ReturnWhenNoMore(a))
    PROVE  SocketInv'
<1>1. a \in Holders /\ th[a].pc = "cas"
  BY DEF CompareExchange, Holders, At
<1>2. th[a] \in ThreadStates /\ Locals(th[a]) /\ th[a].req = order[1] /\ order # <<>>
  BY <1>1, HolderFacts
<1>3. PICK k \in 1..Len(order) : HolderAt(th[a], k)
  BY <1>1, HolderFacts
<1>4. data' \in [Requests -> 0..Size] /\ ready' \subseteq busy
  BY DEF SocketInv, TypeOK, CompareExchange
<1>5. UNCHANGED <<head, next, busy, connecting, order>>
  BY DEF CompareExchange
<1>6. OldHead(a) = order[k]
  BY <1>1, <1>3, OldHeadFacts
<1>7. CASE head = OldHead(a)
  <2>1. Go(a, To(a, Back(a)))
    BY <1>7 DEF CompareExchange
  <2>2. PICK q \in {"background", "keep", "drop"} :
           /\ q = Back(a)
           /\ q = "background" => th[a].from = "once"
           /\ q = "keep" => th[a].from = "keep"
    BY <1>2 DEF Back, ThreadStates
  <2>3. PICK r : r = [th[a] EXCEPT !.pc = q]
    OBVIOUS
  <2>4. /\ r \in ThreadStates /\ r.pc = q /\ r.req = th[a].req /\ r.cur = th[a].cur
        /\ r.new = th[a].new /\ r.p = th[a].p /\ r.tail = th[a].tail /\ r.from = th[a].from
    BY <1>2, <2>3 DEF ThreadStates
  <2>5. Locals(r)
    BY <1>1, <1>2, <2>2, <2>4 DEF Locals
  <2>6. HolderAt(r, k)
    BY <1>1, <1>3, <2>2, <2>4 DEF HolderAt
  <2>7. th' = [th EXCEPT ![a] = r]
    BY <2>1, <2>2, <2>3 DEF Go, To
  <2> QED BY <1>1, <1>4, <1>5, <2>2, <2>4, <2>5, <2>6, <2>7, HolderGoes
<1>8. CASE head # OldHead(a)
  <2>1. Go(a, [th[a] EXCEPT !.pc = "reverse", !.new = head, !.p = head, !.tail = NULL])
    BY <1>8 DEF CompareExchange
  <2>2. PICK m \in 1..Len(order) : m = Len(order)
    BY <1>2, QueueFacts DEF SocketInv
  <2>3. head = order[m] /\ order[m] \in Requests
    BY <1>2, <2>2, QueueFacts DEF SocketInv, QueueInv
  <2>4. m \in (k + 1)..Len(order) /\ m \in (k + 1)..m
    BY <1>6, <1>8, <2>2, <2>3
  <2>5. PICK r : r = [th[a] EXCEPT !.pc = "reverse", !.new = order[m], !.p = order[m], !.tail = NULL]
    OBVIOUS
  <2>6. /\ r \in ThreadStates /\ r.pc = "reverse" /\ r.req = th[a].req /\ r.cur = th[a].cur
        /\ r.new = order[m] /\ r.p = order[m] /\ r.tail = NULL /\ r.from = th[a].from
    BY <1>2, <2>3, <2>5 DEF ThreadStates, Pointer
  <2>7. Locals(r)
    BY <1>1, <1>2, <2>6 DEF Locals
  <2>8. Reversing(r, k, m, m)
    <3>1. \A i \in (k + 1)..Len(order) : AsAdded(i)
      BY <1>1, <1>3 DEF HolderAt
    <3>2. /\ \A i \in (k + 1)..m : AsAdded(i)
          /\ \A i \in (m + 1)..(m - 1) : next[order[i]] = order[i + 1]
          /\ \A i \in (m + 1)..Len(order) : AsAdded(i)
      BY <2>2, <3>1
    <3>3. ~(m < m)
      BY <2>2
    <3> QED BY <2>6, <3>2, <3>3 DEF Reversing
  <2>9. HolderAt(r, k)
    <3>1. \E m2 \in (k + 1)..Len(order) : \E j \in (k + 1)..m2 : Reversing(r, k, j, m2)
      BY <2>4, <2>8
    <3>2. InHand(k) /\ r.cur \in {NULL, order[k]} /\ IF r.from = "keep" THEN r.cur = order[k] ELSE k = 1
      BY <1>1, <1>3, <2>6 DEF HolderAt
    <3> QED BY <2>6, <3>1, <3>2 DEF HolderAt
  <2>10. th' = [th EXCEPT ![a] = r]
    BY <2>1, <2>3, <2>5 DEF Go
  <2>11. r.p \in Requests
    BY <2>3, <2>6
  <2> QED BY <1>1, <1>4, <1>5, <2>6, <2>7, <2>9, <2>10, <2>11, HolderGoes
<1> QED BY <1>7, <1>8

\* One turn of the reversal.
LEMMA ReverseListKeeps ==
    ASSUME SocketInv, NEW a \in Agents, ReverseList(a)
    PROVE  SocketInv'
<1>1. a \in Holders /\ th[a].pc = "reverse" /\ th[a].p # NULL /\ next[th[a].p] # UNCONNECTED
  BY DEF ReverseList, Holders, At
<1>2. th[a] \in ThreadStates /\ Locals(th[a]) /\ th[a].req = order[1] /\ order # <<>>
  BY <1>1, HolderFacts
<1>3. PICK k \in 1..Len(order) : HolderAt(th[a], k)
  BY <1>1, HolderFacts
<1>4. OldHead(a) = order[k] /\ InHand(k)
  BY <1>1, <1>3, OldHeadFacts
<1>51. PICK m \in (k + 1)..Len(order) : \E j \in (k + 1)..m : Reversing(th[a], k, j, m)
  BY <1>1, <1>3 DEF HolderAt
<1>5. PICK j \in (k + 1)..m : Reversing(th[a], k, j, m)
  BY <1>51
<1>6. /\ Len(order) \in Nat /\ k \in Nat /\ m \in Nat /\ j \in Nat
      /\ 1 <= k /\ k < j /\ j <= m /\ m <= Len(order)
      /\ \A i \in 1..Len(order) : order[i] \in Requests
      /\ \A i1, i2 \in 1..Len(order) : order[i1] = order[i2] => i1 = i2
      /\ \A i \in 1..Len(order) : order[i] \in Range(order)
      /\ next \in [Requests -> Pointer \cup {UNCONNECTED}]
      /\ NULL \notin Requests /\ UNCONNECTED \notin Requests /\ UNCONNECTED # NULL
  <2>1. /\ Len(order) \in Nat
        /\ \A i \in 1..Len(order) : order[i] \in Requests /\ order[i] \in Range(order)
    BY QueueFacts DEF SocketInv
  <2>2. /\ k \in Nat /\ m \in Nat /\ j \in Nat
        /\ 1 <= k /\ k < j /\ j <= m /\ m <= Len(order)
    <3>1. k \in 1..Len(order) /\ m \in (k + 1)..Len(order) /\ j \in (k + 1)..m
      BY <1>3, <1>5
    <3> QED BY <2>1, <3>1
  <2>3. \A i1, i2 \in 1..Len(order) : order[i1] = order[i2] => i1 = i2
    BY DEF SocketInv, QueueInv
  <2>4. next \in [Requests -> Pointer \cup {UNCONNECTED}]
    BY DEF SocketInv, TypeOK
  <2> QED BY <2>1, <2>2, <2>3, <2>4, SocketAssumption
<1>61. order[j] \in Requests /\ order[j - 1] \in Requests /\ order[k] \in Requests
  <2>1. j \in 1..Len(order) /\ j - 1 \in 1..Len(order)
    BY <1>6
  <2> QED BY <1>6, <2>1
<1>7. th[a].p = order[j] /\ next[order[j]] = order[j - 1]
  <2>1. th[a].p = order[j] /\ AsAdded(j)
    BY <1>6, <1>5 DEF Reversing
  <2> QED BY <1>1, <2>1 DEF AsAdded
<1>8. next[order[k]] = NULL
  BY <1>4 DEF InHand
<1>9. PICK t \in Pointer : t = th[a].tail /\ t = IF j = m THEN NULL ELSE order[j + 1]
  BY <1>2, <1>5 DEF Reversing, ThreadStates
<1>10. (next[order[j]] = OldHead(a)) <=> j = k + 1
  <2>1. j - 1 \in 1..Len(order)
    BY <1>6
  <2>2. order[j - 1] = order[k] <=> j - 1 = k
    BY <1>3, <1>6, <2>1
  <2> QED BY <1>4, <1>6, <1>7, <2>2
<1>11. /\ \A b \in Agents : At(b, "link") => th[b].req \in Requests /\ next[th[b].req] = UNCONNECTED
       /\ UNCHANGED <<head, busy, connecting, order>>
       /\ data' \in [Requests -> 0..Size] /\ ready' \subseteq busy
  <2>1. ASSUME NEW b \in Agents, At(b, "link")
        PROVE  th[b].req \in Requests /\ next[th[b].req] = UNCONNECTED
    <3>1. PICK i \in 2..Len(order) : th[b].req = order[i] /\ next[order[i]] = UNCONNECTED
      BY <2>1 DEF SocketInv, LinkInv
    <3> QED BY <1>6, <3>1
  <2> QED BY <2>1 DEF ReverseList, SocketInv, TypeOK
<1>12. CASE j = k + 1
  <2>1. next' = [[next EXCEPT ![order[j]] = t] EXCEPT ![order[k]] = order[j]]
    BY <1>4, <1>7, <1>9, <1>10, <1>12 DEF ReverseList
  <2>2. Go(a, [th[a] EXCEPT !.tail = order[j], !.p = order[j], !.pc = "setup"])
    BY <1>7, <1>10, <1>12 DEF ReverseList
  <2>3. /\ next' \in [Requests -> Pointer \cup {UNCONNECTED}]
        /\ next'[order[k]] = order[j] /\ next'[order[j]] = t
        /\ \A i \in 1..Len(order) : i # j /\ i # k => next'[order[i]] = next[order[i]]
        /\ \A x \in Requests : next[x] = UNCONNECTED => next'[x] = next[x]
    <3>1. order[j] \in Requests /\ order[k] \in Requests /\ order[j] # order[k]
      BY <1>6
    <3>2. /\ next' \in [Requests -> Pointer \cup {UNCONNECTED}]
          /\ next'[order[k]] = order[j] /\ next'[order[j]] = t
          /\ \A x \in Requests : x # order[j] /\ x # order[k] => next'[x] = next[x]
      BY <1>6, <2>1, <3>1 DEF Pointer
    <3>3. next[order[j]] # UNCONNECTED /\ next[order[k]] # UNCONNECTED
      BY <1>1, <1>6, <1>7, <1>8
    <3> QED BY <1>6, <3>1, <3>2, <3>3
  <2>4. PICK r : r = [th[a] EXCEPT !.tail = order[j], !.p = order[j], !.pc = "setup"]
    OBVIOUS
  <2>5. /\ r \in ThreadStates /\ r.pc = "setup" /\ r.req = th[a].req /\ r.cur = th[a].cur
        /\ r.new = th[a].new /\ r.p = order[j] /\ r.tail = order[j] /\ r.from = th[a].from
    BY <1>2, <1>61, <2>4 DEF ThreadStates, Pointer
  <2>6. Locals(r)
    BY <1>1, <1>2, <2>5 DEF Locals
  <2>7. InHand(m)'
    <3>1. ASSUME NEW i \in 1..(m - 1) PROVE next'[order[i]] = order[i + 1]
      <4>1. CASE i < k
        BY <1>4, <1>6, <2>3, <4>1 DEF InHand
      <4>2. CASE i = k
        BY <1>12, <2>3, <4>2
      <4>3. CASE i = j
        BY <1>6, <1>9, <2>3, <4>3
      <4>4. CASE i > j
        BY <1>5, <1>6, <2>3, <4>4 DEF Reversing
      <4> QED BY <1>6, <1>12, <4>1, <4>2, <4>3, <4>4
    <3>2. next'[order[m]] = NULL
      <4>1. CASE j = m
        BY <1>9, <2>3, <4>1
      <4>2. CASE j # m
        BY <1>5, <1>6, <2>3, <4>2 DEF Reversing
      <4> QED BY <4>1, <4>2
    <3> QED BY <1>11, <3>1, <3>2 DEF InHand
  <2>8. \A i \in (m + 1)..Len(order) : AsAdded(i)'
    BY <1>5, <1>6, <1>11, <2>3 DEF Reversing, AsAdded
  <2>9. SettingUp(r, m, j)' /\ j \in 2..m
    <3>1. r.cur \in {NULL, order[k]} /\ r.new = order[m]
      BY <1>1, <1>3, <1>5, <2>5 DEF HolderAt, Reversing
    <3> QED BY <1>6, <1>11, <2>5, <3>1 DEF SettingUp
  <2>10. HolderAt(r, m)'
    BY <1>11, <2>5, <2>7, <2>8, <2>9 DEF HolderAt
  <2>11. th' = [th EXCEPT ![a] = r] /\ m \in 1..Len(order)
    BY <1>6, <2>2, <2>4 DEF Go
  <2>12. FreeInv'
    BY <1>11, <2>3 DEF SocketInv, FreeInv
  <2> QED BY <1>1, <1>11, <2>12, <2>3, <2>5, <2>6, <2>10, <2>11, HolderMoves
<1>13. CASE j # k + 1
  <2>1. next' = [next EXCEPT ![order[j]] = t]
    BY <1>7, <1>9, <1>10, <1>13 DEF ReverseList
  <2>2. Go(a, [th[a] EXCEPT !.tail = order[j], !.p = order[j - 1], !.pc = "reverse"])
    BY <1>7, <1>10, <1>13 DEF ReverseList
  <2>3. /\ next' \in [Requests -> Pointer \cup {UNCONNECTED}]
        /\ next'[order[j]] = t
        /\ \A i \in 1..Len(order) : i # j => next'[order[i]] = next[order[i]]
        /\ \A x \in Requests : next[x] = UNCONNECTED => next'[x] = next[x]
    <3>1. order[j] \in Requests
      BY <1>6
    <3>2. /\ next' \in [Requests -> Pointer \cup {UNCONNECTED}]
          /\ next'[order[j]] = t
          /\ \A x \in Requests : x # order[j] => next'[x] = next[x]
      BY <1>6, <2>1, <3>1 DEF Pointer
    <3>3. next[order[j]] # UNCONNECTED
      BY <1>1, <1>7
    <3> QED BY <1>6, <3>1, <3>2, <3>3
  <2>4. j - 1 \in 1..Len(order) /\ k < j - 1 /\ j - 1 < m
    BY <1>6, <1>13
  <2>5. PICK r : r = [th[a] EXCEPT !.tail = order[j], !.p = order[j - 1], !.pc = "reverse"]
    OBVIOUS
  <2>6. /\ r \in ThreadStates /\ r.pc = "reverse" /\ r.req = th[a].req /\ r.cur = th[a].cur
        /\ r.new = th[a].new /\ r.p = order[j - 1] /\ r.tail = order[j] /\ r.from = th[a].from
        /\ r.p \in Requests
    BY <1>2, <1>61, <2>5 DEF ThreadStates, Pointer
  <2>7. Locals(r)
    BY <1>1, <1>2, <2>6 DEF Locals
  <2>8. InHand(k)'
    <3>1. \A i \in 1..k : i \in 1..Len(order) /\ i # j
      BY <1>6
    <3>2. \A i \in 1..k : next'[order[i]] = next[order[i]]
      BY <2>3, <3>1
    <3>3. \A i \in 1..(k - 1) : i \in 1..k
      BY <1>6
    <3>4. k \in 1..k
      BY <1>6
    <3> QED BY <1>4, <1>11, <3>2, <3>3, <3>4 DEF InHand
  <2>9. Reversing(r, k, j - 1, m)'
    <3>1. r.new = order[m] /\ r.p = order[j - 1] /\ r.tail = IF j - 1 = m THEN NULL ELSE order[(j - 1) + 1]
      BY <1>5, <1>6, <2>4, <2>6 DEF Reversing
    <3>2. /\ \A i \in (k + 1)..(j - 1) : next'[order[i]] \in {UNCONNECTED, order[i - 1]}
          /\ \A i \in (m + 1)..Len(order) : next'[order[i]] \in {UNCONNECTED, order[i - 1]}
      <4>1. \A i \in (k + 1)..(j - 1) : i \in 1..Len(order) /\ i # j /\ i \in (k + 1)..j
        BY <1>6
      <4>2. \A i \in (m + 1)..Len(order) : i \in 1..Len(order) /\ i # j
        BY <1>6
      <4>3. /\ \A i \in (k + 1)..j : AsAdded(i)
            /\ \A i \in (m + 1)..Len(order) : AsAdded(i)
        BY <1>5 DEF Reversing
      <4> QED BY <2>3, <4>1, <4>2, <4>3 DEF AsAdded
    <3>3. ASSUME NEW i \in ((j - 1) + 1)..(m - 1) PROVE next'[order[i]] = order[i + 1]
      <4>1. CASE i = j
        BY <1>6, <1>9, <2>3, <4>1
      <4>2. CASE i # j
        <5>1. i \in (j + 1)..(m - 1) /\ i \in 1..Len(order)
          BY <1>6, <4>2
        <5>2. next[order[i]] = order[i + 1]
          BY <1>5, <5>1 DEF Reversing
        <5> QED BY <2>3, <4>2, <5>1, <5>2
      <4> QED BY <4>1, <4>2
    <3>4. next'[order[m]] = NULL
      <4>1. CASE j = m
        BY <1>9, <2>3, <4>1
      <4>2. CASE j # m
        BY <1>5, <1>6, <2>3, <4>2 DEF Reversing
      <4> QED BY <4>1, <4>2
    <3> QED BY <1>11, <3>1, <3>2, <3>3, <3>4 DEF Reversing, AsAdded
  <2>10. HolderAt(r, k)'
    <3>1. j - 1 \in (k + 1)..m
      BY <1>6, <2>4
    <3>2. (\E m2 \in (k + 1)..Len(order) : \E j2 \in (k + 1)..m2 : Reversing(r, k, j2, m2))'
      BY <1>5, <1>11, <2>9, <3>1
    <3>3. r.cur \in {NULL, order[k]} /\ IF r.from = "keep" THEN r.cur = order[k] ELSE k = 1
      BY <1>1, <1>3, <2>6 DEF HolderAt
    <3> QED BY <1>11, <2>6, <2>8, <3>2, <3>3 DEF HolderAt
  <2>11. th' = [th EXCEPT ![a] = r]
    BY <2>2, <2>5 DEF Go
  <2>12. FreeInv'
    BY <1>11, <2>3 DEF SocketInv, FreeInv
  <2> QED BY <1>1, <1>11, <2>12, <2>3, <2>6, <2>7, <2>10, <2>11, HolderMoves
<1> QED BY <1>12, <1>13

\* Setup() of one of the new requests.
LEMMA SetupKeeps ==
    ASSUME SocketInv, NEW a \in Agents, Setup(a)
    PROVE  SocketInv'
<1>1. a \in Holders /\ th[a].pc = "setup"
  BY DEF Setup, Holders, At
<1>2. th[a] \in ThreadStates /\ Locals(th[a]) /\ th[a].req = order[1] /\ order # <<>>
  BY <1>1, HolderFacts
<1>3. PICK k \in 1..Len(order) : HolderAt(th[a], k)
  BY <1>1, HolderFacts
<1>4. PICK i \in 2..k : SettingUp(th[a], k, i)
  BY <1>1, <1>3 DEF HolderAt
<1>5. /\ InHand(k) /\ th[a].p = order[i] /\ th[a].new = order[k]
      /\ \A j \in (k + 1)..Len(order) : AsAdded(j)
  BY <1>1, <1>3, <1>4 DEF HolderAt, SettingUp
<1>6. /\ Len(order) \in Nat /\ i \in 1..Len(order) /\ k \in Nat
      /\ \A j \in 1..Len(order) : order[j] \in Requests /\ order[j] \in busy
      /\ NULL \notin Requests
  BY QueueFacts, SocketAssumption DEF SocketInv
<1>7. /\ data' \in [Requests -> 0..Size] /\ ready' \subseteq busy
      /\ UNCHANGED <<head, next, busy, connecting, order>>
  BY <1>5, <1>6 DEF SocketInv, TypeOK, Setup
<1>8. CASE next[th[a].p] = NULL
  <2>1. PICK c \in Pointer : /\ c = IF th[a].from = "keep" THEN th[a].new ELSE th[a].cur
                             /\ c \in {NULL, order[k]} /\ (th[a].from # "keep" => c = NULL)
    BY <1>2, <1>5, <1>6 DEF ThreadStates, Locals, Pointer
  <2>2. PICK q \in {"background", "keep", "drop"} :
           /\ q = Back(a)
           /\ q = "background" => th[a].from = "once"
           /\ q = "keep" => th[a].from = "keep"
    BY <1>2 DEF Back, ThreadStates
  <2>3. PICK r : r = [th[a] EXCEPT !.pc = q, !.p = NULL, !.new = NULL, !.tail = NULL, !.cur = c]
    OBVIOUS
  <2>4. /\ r \in ThreadStates /\ r.pc = q /\ r.req = th[a].req /\ r.cur = c
        /\ r.new = NULL /\ r.p = NULL /\ r.tail = NULL /\ r.from = th[a].from
    BY <1>2, <2>3 DEF ThreadStates, Pointer
  <2>5. Locals(r)
    BY <2>1, <2>2, <2>4 DEF Locals
  <2>6. HolderAt(r, k)
    BY <1>5, <2>1, <2>2, <2>4 DEF HolderAt
  <2>7. th' = [th EXCEPT ![a] = r]
    BY <1>8, <2>1, <2>2, <2>3 DEF Go, Setup
  <2> QED BY <1>1, <1>7, <2>2, <2>4, <2>5, <2>6, <2>7, HolderGoes
<1>9. CASE next[th[a].p] # NULL
  <2>1. i \in 1..(k - 1) /\ i + 1 \in 2..k /\ i + 1 \in 1..Len(order)
    BY <1>4, <1>5, <1>6, <1>9 DEF InHand
  <2>2. next[th[a].p] = order[i + 1] /\ order[i + 1] \in Requests
    BY <1>5, <1>6, <2>1 DEF InHand
  <2>3. PICK r : r = [th[a] EXCEPT !.p = order[i + 1]]
    OBVIOUS
  <2>4. /\ r \in ThreadStates /\ r.pc = "setup" /\ r.req = th[a].req /\ r.cur = th[a].cur
        /\ r.new = th[a].new /\ r.p = order[i + 1] /\ r.tail = th[a].tail /\ r.from = th[a].from
    BY <1>1, <1>2, <2>2, <2>3 DEF ThreadStates, Pointer
  <2>5. Locals(r)
    BY <1>1, <1>2, <2>4 DEF Locals
  <2>6. HolderAt(r, k)
    <3>1. SettingUp(r, k, i + 1)
      BY <1>4, <2>4 DEF SettingUp
    <3> QED BY <1>5, <2>1, <2>4, <3>1 DEF HolderAt
  <2>7. th' = [th EXCEPT ![a] = r]
    BY <1>9, <2>2, <2>3 DEF Go, Setup
  <2> QED BY <1>1, <1>7, <2>4, <2>5, <2>6, <2>7, HolderGoes
<1> QED BY <1>8, <1>9

-----------------------------------------------------------------------------
(* The right changes hands.                                                *)

\* Steps that leave the queue as it is and touch no thread that has to link or to give
\* back its request.
LEMMA QueueKept ==
    ASSUME SocketInv, th' \in [Agents -> ThreadStates],
           UNCHANGED <<head, busy, order>>, connecting' \in Pointer,
           next' \in [Requests -> Pointer \cup {UNCONNECTED}],
           data' \in [Requests -> 0..Size], ready' \subseteq busy,
           \A b \in Agents :
              /\ th[b].pc \in {"link", "return"} \/ th'[b].pc \in {"link", "return"} =>
                    th'[b] = th[b]
              /\ th'[b].pc # "idle" => th'[b].req \in Requests
              /\ th'[b].pc = "reverse" => th'[b].p \in Requests
              /\ Locals(th'[b]),
           \A b \in Agents : At(b, "link") => next'[th[b].req] = next[th[b].req],
           OwnerInv', FreeInv', NEW k \in 1..Len(order), ListAt(k)'
    PROVE  SocketInv'
<1>1. TypeOK /\ QueueInv /\ OwnerInv /\ LinkInv /\ LocalsInv
  BY DEF SocketInv
<1>2. TypeOK'
  BY <1>1 DEF TypeOK, At
<1>3. QueueInv'
  <2>1. \A b \in Agents : (th[b].pc = "return" \/ th'[b].pc = "return") =>
                              th'[b] = th[b]
    OBVIOUS
  <2>2. /\ \A i, j \in 1..Len(order') : order'[i] = order'[j] => i = j
        /\ head' = IF order' = <<>> THEN NULL ELSE order'[Len(order')]
    BY <1>1 DEF QueueInv
  <2>3. ASSUME NEW r \in busy
        PROVE  r \in Range(order) \/ \E b \in Agents : th'[b].pc = "return" /\ th'[b].req = r
    BY <1>1, <2>1 DEF QueueInv, At
  <2>4. \A b \in Agents : th'[b].pc = "return" => th'[b].req \in busy \ Range(order)
    BY <1>1, <2>1 DEF QueueInv, At
  <2>5. \A b, c \in Agents : th'[b].pc = "return" /\ th'[c].pc = "return" /\ th'[b].req = th'[c].req
                                => b = c
    BY <1>1, <2>1 DEF QueueInv, At
  <2> QED BY <2>2, <2>3, <2>4, <2>5 DEF QueueInv, At
<1>4. LinkInv'
  <2>1. ASSUME NEW b \in Agents, At(b, "link")'
        PROVE  At(b, "link") /\ th'[b] = th[b]
    BY <2>1 DEF At
  <2>2. ASSUME NEW b \in Agents, At(b, "link")'
        PROVE  \E i \in 2..Len(order) : /\ th'[b].req = order[i] /\ th'[b].p = order[i - 1]
                                        /\ next'[order[i]] = UNCONNECTED
    <3>1. At(b, "link") /\ th'[b] = th[b]
      BY <2>1, <2>2
    <3>2. PICK i \in 2..Len(order) : /\ th[b].req = order[i] /\ th[b].p = order[i - 1]
                                     /\ next[order[i]] = UNCONNECTED
      BY <1>1, <3>1 DEF LinkInv
    <3> QED BY <3>1, <3>2
  <2>3. ASSUME NEW b \in Agents, NEW c \in Agents, At(b, "link")', At(c, "link")',
               th'[b].req = th'[c].req
        PROVE  b = c
    BY <1>1, <2>1, <2>3 DEF LinkInv
  <2> QED BY <2>2, <2>3 DEF LinkInv
<1>5. LocalsInv' /\ ListInv'
  BY DEF LocalsInv, ListInv
<1> QED BY <1>2, <1>3, <1>4, <1>5 DEF SocketInv

\* A bthread takes the request over, or the thread itself goes on.
LEMMA StartKeepWriteKeeps ==
    ASSUME SocketInv, NEW a \in Agents, StartKeepWrite(a)
    PROVE  SocketInv'
<1>1. a \in Holders /\ th[a].pc = "background"
  BY DEF StartKeepWrite, Holders, At
<1>2. /\ th[a] \in ThreadStates /\ Locals(th[a]) /\ th[a].req = order[1] /\ order # <<>>
      /\ th[a].req \in Requests /\ Holders = {a} /\ connecting = NULL
  BY <1>1, HolderFacts
<1>3. PICK k \in 1..Len(order) : HolderAt(th[a], k)
  BY <1>1, HolderFacts
<1>4. /\ data' \in [Requests -> 0..Size] /\ ready' \subseteq busy
      /\ next' \in [Requests -> Pointer \cup {UNCONNECTED}] /\ connecting' \in Pointer
      /\ UNCHANGED <<head, next, busy, connecting, order>>
  BY DEF SocketInv, TypeOK, StartKeepWrite
<1>5. PICK r : r = [Idle EXCEPT !.pc = "keep", !.req = th[a].req, !.from = "keep"]
  OBVIOUS
<1>6. /\ r \in ThreadStates /\ r.pc = "keep" /\ r.req = th[a].req /\ r.cur = NULL
      /\ r.new = NULL /\ r.p = NULL /\ r.tail = NULL /\ r.from = "keep"
      /\ Idle \in ThreadStates
  BY <1>2, <1>5 DEF ThreadStates, Idle, Pointer
<1>7. Locals(r) /\ HolderAt(r, k) /\ Locals(Idle)
  BY <1>1, <1>3, <1>6 DEF Locals, HolderAt, Idle
<1>8. CASE Go(a, r)
  BY <1>1, <1>4, <1>6, <1>7, <1>8, HolderGoes DEF Go
<1>9. ASSUME NEW b \in Keepers, At(b, "idle"), th' = [th EXCEPT ![b] = r, ![a] = Idle]
      PROVE  SocketInv'
  <2>1. /\ a # b /\ b \in Agents /\ th' \in [Agents -> ThreadStates]
        /\ th'[a] = Idle /\ th'[b] = r /\ th[b].pc = "idle"
        /\ \A c \in Agents : c # a /\ c # b => th'[c] = th[c]
    BY <1>1, <1>6, <1>9 DEF At, Agents, SocketInv, TypeOK
  <2>2. Idle.pc = "idle"
    BY DEF Idle
  <2>3. Holders' = {b}
    BY <1>2, <1>6, <2>1, <2>2 DEF Holders
  <2>4. OwnerInv'
    BY <1>2, <1>4, <1>6, <2>1, <2>3 DEF OwnerInv
  <2>5. ListAt(k)'
    <3>1. HolderAt(r, k)'
      BY <1>4, <1>7 DEF HolderAt, InHand, AsAdded, Reversing, SettingUp
    <3> QED BY <1>2, <1>4, <2>1, <2>3, <3>1 DEF ListAt
  <2>6. ASSUME NEW c \in Agents
        PROVE  /\ th[c].pc \in {"link", "return"} \/ th'[c].pc \in {"link", "return"} =>
                    th'[c] = th[c]
               /\ th'[c].pc # "idle" => th'[c].req \in Requests
               /\ th'[c].pc = "reverse" => th'[c].p \in Requests
               /\ Locals(th'[c])
    <3>1. CASE c = a
      BY <1>1, <1>7, <2>1, <2>2, <3>1
    <3>2. CASE c = b
      BY <1>2, <1>6, <1>7, <2>1, <3>2
    <3>3. CASE c # a /\ c # b
      BY <2>1, <3>3 DEF SocketInv, TypeOK, LocalsInv, At
    <3> QED BY <3>1, <3>2, <3>3
  <2>7. \A c \in Agents : At(c, "link") => next'[th[c].req] = next[th[c].req]
    BY <1>4
  <2>8. FreeInv'
    BY <1>4 DEF SocketInv, FreeInv
  <2> QED BY <1>4, <2>1, <2>4, <2>5, <2>6, <2>7, <2>8, QueueKept
<1> QED BY <1>5, <1>8, <1>9 DEF StartKeepWrite

\* The connection attempt ends, in a bthread.
LEMMA KeepWriteIfConnectedKeeps ==
    ASSUME SocketInv, NEW a \in Agents, KeepWriteIfConnected(a)
    PROVE  SocketInv'
<1>1. /\ th[a].pc = "idle" /\ connecting # NULL /\ connecting' = NULL
      /\ UNCHANGED <<head, next, data, busy, order>>
  BY DEF KeepWriteIfConnected, At
<1>2. /\ order # <<>> /\ connecting = order[1] /\ Holders = {}
      /\ Len(order) \in Nat /\ 1 \in 1..Len(order)
      /\ order[1] \in Requests /\ order[1] \in busy
  <2>1. order # <<>> /\ connecting = order[1] /\ Holders = {}
    BY <1>1 DEF SocketInv, OwnerInv
  <2>2. Len(order) \in Nat /\ 1 \in 1..Len(order)
    BY <2>1, QueueFacts DEF SocketInv
  <2> QED BY <2>1, <2>2, QueueFacts DEF SocketInv
<1>3. InHand(1) /\ \A i \in 2..Len(order) : AsAdded(i)
  BY <1>1, <1>2 DEF SocketInv, ListInv, ListAt
<1>4. PICK r : /\ Go(a, r) /\ ready' \subseteq busy
               /\ r \in ThreadStates /\ r.pc \in {"keep", "drop"} /\ r.req = order[1]
               /\ r.cur = NULL /\ r.new = NULL /\ r.p = NULL /\ r.tail = NULL
               /\ r.pc = "keep" => r.from = "keep"
  <2>1. ready \subseteq busy
    BY DEF SocketInv, TypeOK
  <2>2. CASE /\ Go(a, [Idle EXCEPT !.pc = "keep", !.req = connecting, !.from = "keep"])
             /\ ready' = ready \cup {connecting}
    <3>1. PICK r : r = [Idle EXCEPT !.pc = "keep", !.req = connecting, !.from = "keep"]
      OBVIOUS
    <3>2. /\ r \in ThreadStates /\ r.pc = "keep" /\ r.req = order[1] /\ r.from = "keep"
          /\ r.cur = NULL /\ r.new = NULL /\ r.p = NULL /\ r.tail = NULL
      BY <1>2, <3>1 DEF ThreadStates, Idle, Pointer
    <3> QED BY <1>2, <2>1, <2>2, <3>1, <3>2
  <2>3. CASE Go(a, [Idle EXCEPT !.pc = "drop", !.req = connecting]) /\ UNCHANGED ready
    <3>1. PICK r : r = [Idle EXCEPT !.pc = "drop", !.req = connecting]
      OBVIOUS
    <3>2. /\ r \in ThreadStates /\ r.pc = "drop" /\ r.req = order[1]
          /\ r.cur = NULL /\ r.new = NULL /\ r.p = NULL /\ r.tail = NULL
      BY <1>2, <3>1 DEF ThreadStates, Idle, Pointer
    <3> QED BY <1>2, <2>1, <2>3, <3>1, <3>2
  <2> QED BY <2>2, <2>3 DEF KeepWriteIfConnected
<1>5. /\ th'[a] = r /\ th' \in [Agents -> ThreadStates]
      /\ \A c \in Agents : c # a => th'[c] = th[c]
  BY <1>4 DEF Go, SocketInv, TypeOK
<1>6. Locals(r)
  BY <1>4 DEF Locals
<1>7. Holders' = {a}
  BY <1>2, <1>4, <1>5 DEF Holders
<1>8. OwnerInv'
  BY <1>1, <1>2, <1>4, <1>5, <1>7 DEF OwnerInv
<1>9. ListAt(1)'
  <2>1. HolderAt(r, 1)'
    BY <1>1, <1>3, <1>4 DEF HolderAt, InHand, AsAdded
  <2> QED BY <1>1, <1>5, <1>7, <2>1 DEF ListAt
<1>10. ASSUME NEW c \in Agents
       PROVE  /\ th[c].pc \in {"link", "return"} \/ th'[c].pc \in {"link", "return"} =>
                   th'[c] = th[c]
              /\ th'[c].pc # "idle" => th'[c].req \in Requests
              /\ th'[c].pc = "reverse" => th'[c].p \in Requests
              /\ Locals(th'[c])
  <2>1. CASE c = a
    BY <1>1, <1>2, <1>4, <1>5, <1>6, <2>1
  <2>2. CASE c # a
    BY <1>5, <2>2 DEF SocketInv, TypeOK, LocalsInv, At
  <2> QED BY <2>1, <2>2
<1>11. /\ data' \in [Requests -> 0..Size] /\ next' \in [Requests -> Pointer \cup {UNCONNECTED}]
       /\ connecting' \in Pointer
       /\ \A c \in Agents : At(c, "link") => next'[th[c].req] = next[th[c].req]
  BY <1>1 DEF SocketInv, TypeOK, Pointer
<1>12. FreeInv'
  BY <1>1 DEF SocketInv, FreeInv, KeepWriteIfConnected
<1> QED BY <1>1, <1>2, <1>4, <1>5, <1>8, <1>9, <1>10, <1>11, <1>12, QueueKept

\* ConnectIfNot: there is a connection, or it fails, or it goes on in the background.
LEMMA ConnectIfNotKeeps ==
    ASSUME SocketInv, NEW a \in Agents, ConnectIfNot(a)
    PROVE  SocketInv'
<1>1. a \in Holders /\ th[a].pc = "connect"
  BY DEF ConnectIfNot, Holders, At
<1>2. /\ th[a] \in ThreadStates /\ Locals(th[a]) /\ th[a].req = order[1] /\ order # <<>>
      /\ th[a].req \in Requests /\ th[a].req \in busy /\ Holders = {a} /\ connecting = NULL
  BY <1>1, HolderFacts
<1>3. PICK k \in 1..Len(order) : HolderAt(th[a], k)
  BY <1>1, HolderFacts
<1>4. /\ k = 1 /\ th[a].cur \in {NULL, order[1]}
      /\ \A i \in 2..Len(order) : AsAdded(i)
      /\ th[a].cur = NULL /\ th[a].from = "once"
  BY <1>1, <1>2, <1>3 DEF HolderAt, Locals
<1>5. /\ Len(order) \in Nat /\ 1 \in 1..Len(order)
      /\ \A i \in 1..Len(order) : order[i] \in Requests
      /\ \A i \in 2..Len(order) : order[i] # order[1] /\ order[i] \in Requests
  <2>1. Len(order) \in Nat /\ 1 \in 1..Len(order) /\ \A i \in 1..Len(order) : order[i] \in Requests
    BY <1>2, QueueFacts DEF SocketInv
  <2> QED BY <2>1 DEF SocketInv, QueueInv
<1>6. /\ next' \in [Requests -> Pointer \cup {UNCONNECTED}]
      /\ next'[order[1]] = NULL
      /\ \A i \in 2..Len(order) : next'[order[i]] = next[order[i]]
  BY <1>2, <1>5 DEF ConnectIfNot, SocketInv, TypeOK, Pointer
<1>7. \A b \in Agents : At(b, "link") => next'[th[b].req] = next[th[b].req]
  BY <1>6 DEF SocketInv, LinkInv
<1>8. (InHand(1) /\ \A i \in 2..Len(order) : AsAdded(i))'
  BY <1>4, <1>6 DEF InHand, AsAdded, ConnectIfNot
<1>9. data' \in [Requests -> 0..Size] /\ UNCHANGED <<head, busy, order>> /\ FreeInv'
  BY <1>2 DEF SocketInv, TypeOK, FreeInv, ConnectIfNot
<1>10. ASSUME NEW q \in {"drop", "once", "background"}, Go(a, To(a, q)), UNCHANGED connecting,
              ready' \subseteq busy
       PROVE  SocketInv'
  <2>1. PICK r : r = [th[a] EXCEPT !.pc = q]
    OBVIOUS
  <2>2. /\ r \in ThreadStates /\ r.pc = q /\ r.req = th[a].req /\ r.cur = th[a].cur
        /\ r.new = th[a].new /\ r.p = th[a].p /\ r.tail = th[a].tail /\ r.from = th[a].from
    BY <1>2, <2>1 DEF ThreadStates
  <2>3. Locals(r)
    BY <1>1, <1>2, <1>4, <2>2 DEF Locals
  <2>4. HolderAt(r, 1)'
    BY <1>4, <1>8, <1>9, <2>2 DEF HolderAt
  <2>5. th' = [th EXCEPT ![a] = r]
    BY <1>10, <2>1 DEF Go, To
  <2> QED BY <1>1, <1>5, <1>6, <1>7, <1>9, <1>10, <2>2, <2>3, <2>4, <2>5, HolderMoves
<1>11. ASSUME connecting' = th[a].req, Go(a, Idle), UNCHANGED ready
       PROVE  SocketInv'
  <2>1. Idle \in ThreadStates /\ Idle.pc = "idle" /\ Locals(Idle)
    BY DEF Idle, ThreadStates, Pointer, Locals
  <2>2. /\ th'[a] = Idle /\ th' \in [Agents -> ThreadStates]
        /\ \A c \in Agents : c # a => th'[c] = th[c]
    BY <1>11, <2>1 DEF Go, SocketInv, TypeOK
  <2>3. Holders' = {}
    BY <1>2, <2>1, <2>2 DEF Holders
  <2>4. OwnerInv'
    BY <1>2, <1>9, <1>11, <2>3, SocketAssumption DEF OwnerInv
  <2>5. ListAt(1)'
    BY <1>8, <2>3 DEF ListAt
  <2>6. ASSUME NEW c \in Agents
        PROVE  /\ th[c].pc \in {"link", "return"} \/ th'[c].pc \in {"link", "return"} =>
                    th'[c] = th[c]
               /\ th'[c].pc # "idle" => th'[c].req \in Requests
               /\ th'[c].pc = "reverse" => th'[c].p \in Requests
               /\ Locals(th'[c])
    <3>1. CASE c = a
      BY <1>1, <2>1, <2>2, <3>1
    <3>2. CASE c # a
      BY <2>2, <3>2 DEF SocketInv, TypeOK, LocalsInv, At
    <3> QED BY <3>1, <3>2
  <2>7. connecting' \in Pointer /\ ready' \subseteq busy
    BY <1>2, <1>11 DEF SocketInv, TypeOK, Pointer
  <2> QED BY <1>5, <1>6, <1>7, <1>9, <2>2, <2>4, <2>5, <2>6, <2>7, QueueKept
<1>12. ready \subseteq busy
  BY DEF SocketInv, TypeOK
<1> QED BY <1>2, <1>10, <1>11, <1>12 DEF ConnectIfNot

\* A thread links its request to the one before it.
LEMMA LinkKeeps ==
    ASSUME SocketInv, NEW a \in Agents, Link(a)
    PROVE  SocketInv'
<1>1. /\ At(a, "link") /\ th[a].pc = "link" /\ Go(a, Idle)
      /\ next' = [next EXCEPT ![th[a].req] = th[a].p]
      /\ UNCHANGED <<head, data, busy, connecting, ready, order>>
  BY DEF Link, At
<1>2. PICK i \in 2..Len(order) : /\ th[a].req = order[i] /\ th[a].p = order[i - 1]
                                 /\ next[order[i]] = UNCONNECTED
  BY <1>1 DEF SocketInv, LinkInv
<1>3. /\ Len(order) \in Nat /\ order # <<>>
      /\ \A j \in 1..Len(order) : order[j] \in Requests
      /\ \A j, m \in 1..Len(order) : order[j] = order[m] => j = m
      /\ NULL \notin Requests /\ UNCONNECTED \notin Requests /\ UNCONNECTED # NULL
  BY <1>2, QueueFacts, SocketAssumption DEF SocketInv, QueueInv
<1>4. i \in 1..Len(order) /\ i - 1 \in 1..Len(order) /\ order[i] \in Requests /\ order[i - 1] \in Requests
  BY <1>2, <1>3
<1>5. /\ next' \in [Requests -> Pointer \cup {UNCONNECTED}]
      /\ next'[order[i]] = order[i - 1]
      /\ \A x \in Requests : x # order[i] => next'[x] = next[x]
      /\ \A j \in 1..Len(order) : j # i => next'[order[j]] = next[order[j]]
  BY <1>1, <1>2, <1>3, <1>4 DEF SocketInv, TypeOK, Pointer
<1>6. Idle \in ThreadStates /\ Idle.pc = "idle" /\ Locals(Idle)
  BY DEF Idle, ThreadStates, Pointer, Locals
<1>7. /\ th'[a] = Idle /\ th' \in [Agents -> ThreadStates]
      /\ \A c \in Agents : c # a => th'[c] = th[c]
  BY <1>1, <1>6 DEF Go, SocketInv, TypeOK
<1>8. Holders' = Holders
  BY <1>1, <1>6, <1>7 DEF Holders
<1>9. TypeOK'
  <2>1. \A b \in Agents : /\ th'[b].pc # "idle" => th'[b].req \in Requests
                          /\ th'[b].pc = "reverse" => th'[b].p \in Requests
    BY <1>6, <1>7 DEF SocketInv, TypeOK, At
  <2> QED BY <1>1, <1>5, <1>7, <2>1 DEF SocketInv, TypeOK, At
<1>10. QueueInv'
  <2>1. \A b \in Agents : /\ th[b].pc = "return" => th'[b] = th[b]
                          /\ th'[b].pc = "return" => th'[b] = th[b]
    BY <1>1, <1>6, <1>7
  <2>2. ASSUME NEW r \in busy
        PROVE  r \in Range(order) \/ \E b \in Agents : th'[b].pc = "return" /\ th'[b].req = r
    BY <2>1 DEF SocketInv, QueueInv, At
  <2>3. \A b \in Agents : th'[b].pc = "return" => th'[b].req \in busy \ Range(order)
    BY <2>1 DEF SocketInv, QueueInv, At
  <2>4. \A b, c \in Agents : th'[b].pc = "return" /\ th'[c].pc = "return" /\ th'[b].req = th'[c].req
                                => b = c
    BY <2>1 DEF SocketInv, QueueInv, At
  <2>5. /\ \A j, m \in 1..Len(order) : order[j] = order[m] => j = m
        /\ head = IF order = <<>> THEN NULL ELSE order[Len(order)]
    BY DEF SocketInv, QueueInv
  <2> QED BY <1>1, <2>2, <2>3, <2>4, <2>5 DEF QueueInv, At
<1>11. OwnerInv'
  <2>1. \A b \in Holders : th'[b] = th[b]
    BY <1>1, <1>7 DEF Holders
  <2>2. OwnerInv
    BY DEF SocketInv
  <2> QED BY <1>1, <1>8, <2>1, <2>2 DEF OwnerInv
<1>12. LinkInv'
  <2>1. ASSUME NEW b \in Agents, At(b, "link")'
        PROVE  b # a /\ At(b, "link") /\ th'[b] = th[b]
    BY <1>6, <1>7, <2>1 DEF At
  <2>2. ASSUME NEW b \in Agents, At(b, "link")'
        PROVE  \E j \in 2..Len(order) : /\ th'[b].req = order[j] /\ th'[b].p = order[j - 1]
                                        /\ next'[order[j]] = UNCONNECTED
    <3>1. b # a /\ At(b, "link") /\ th'[b] = th[b]
      BY <2>1, <2>2
    <3>2. PICK j \in 2..Len(order) : /\ th[b].req = order[j] /\ th[b].p = order[j - 1]
                                     /\ next[order[j]] = UNCONNECTED
      BY <3>1 DEF SocketInv, LinkInv
    <3>3. j # i
      BY <1>1, <1>2, <3>1, <3>2 DEF SocketInv, LinkInv
    <3>4. next'[order[j]] = next[order[j]]
      BY <1>3, <1>5, <3>3
    <3> QED BY <3>1, <3>2, <3>4
  <2>3. ASSUME NEW b \in Agents, NEW c \in Agents, At(b, "link")', At(c, "link")',
               th'[b].req = th'[c].req
        PROVE  b = c
    BY <2>1, <2>3 DEF SocketInv, LinkInv
  <2> QED BY <1>1, <2>2, <2>3 DEF LinkInv
<1>13. LocalsInv'
  BY <1>6, <1>7 DEF SocketInv, LocalsInv
<1>14. ListInv'
  <2>1. PICK k \in 1..Len(order) : ListAt(k)
    BY <1>3 DEF SocketInv, ListInv
  <2>2. ASSUME NEW m \in 1..Len(order), InHand(m)
        PROVE  i > m /\ InHand(m)'
    <3>1. m < i
      <4>1. SUFFICES ASSUME i <= m PROVE FALSE
        BY <1>4
      <4>2. CASE i = m
        BY <1>2, <1>3, <2>2, <4>2 DEF InHand
      <4>3. CASE i < m
        <5>1. i \in 1..(m - 1) /\ i + 1 \in 1..Len(order)
          BY <1>4, <4>3
        <5> QED BY <1>2, <1>3, <2>2, <5>1 DEF InHand
      <4> QED BY <1>4, <4>1, <4>2, <4>3
    <3>2. \A j \in 1..m : next'[order[j]] = next[order[j]]
      BY <1>3, <1>5, <3>1
    <3>3. \A j \in 1..(m - 1) : j \in 1..m
      BY <1>3
    <3>4. m \in 1..m
      BY <1>3
    <3> QED BY <1>1, <2>2, <3>1, <3>2, <3>3, <3>4 DEF InHand
  <2>3. \A j \in 1..Len(order) : AsAdded(j) => AsAdded(j)'
    BY <1>1, <1>3, <1>5 DEF AsAdded
  <2>4. ASSUME connecting # NULL
        PROVE  k = 1 /\ InHand(1)' /\ \A j \in 2..Len(order) : AsAdded(j)'
    <3>1. k = 1 /\ InHand(1) /\ \A j \in 2..Len(order) : AsAdded(j)
      BY <2>1, <2>4 DEF ListAt
    <3>2. \A j \in 2..Len(order) : j \in 1..Len(order)
      BY <1>3
    <3> QED BY <2>2, <2>3, <3>1, <3>2
  <2>5. ASSUME NEW c \in Holders PROVE th'[c] = th[c] /\ HolderAt(th[c], k)'
    <3>1. th'[c] = th[c] /\ HolderAt(th[c], k)
      BY <1>1, <1>7, <2>1 DEF Holders, ListAt
    <3>2. PICK r : r = th[c] /\ HolderAt(r, k)
      BY <3>1
    <3>3. \A j \in (k + 1)..Len(order) : j \in 1..Len(order)
      BY <1>3
    <3>4. r.pc = "connect" => next'[order[1]] = UNCONNECTED
      <4>1. 1 # i /\ 1 \in 1..Len(order)
        BY <1>2, <1>3
      <4> QED BY <1>5, <3>2, <4>1 DEF HolderAt
    <3>5. r.pc # "connect" => InHand(k)'
      BY <2>2, <3>2 DEF HolderAt
    <3>6. r.pc # "reverse" => \A j \in (k + 1)..Len(order) : AsAdded(j)'
      BY <2>3, <3>2, <3>3 DEF HolderAt
    <3>7. r.pc = "reverse" =>
             (\E m \in (k + 1)..Len(order) : \E j \in (k + 1)..m : Reversing(r, k, j, m))'
      <4>1. SUFFICES ASSUME r.pc = "reverse"
                     PROVE  \E m \in (k + 1)..Len(order) : \E j \in (k + 1)..m : Reversing(r, k, j, m)'
        BY <1>1
      <4>2. PICK m \in (k + 1)..Len(order) : \E j \in (k + 1)..m : Reversing(r, k, j, m)
        BY <3>2, <4>1 DEF HolderAt
      <4>3. PICK j \in (k + 1)..m : Reversing(r, k, j, m)
        BY <4>2
      <4>4. i \notin (j + 1)..(m - 1) /\ (j < m => i # m)
        <5>1. \A n \in (j + 1)..(m - 1) : n + 1 \in 1..Len(order)
          BY <1>3
        <5> QED BY <1>2, <1>3, <4>3, <5>1 DEF Reversing
      <4>5. /\ \A n \in (j + 1)..(m - 1) : next'[order[n]] = next[order[n]]
            /\ j < m => next'[order[m]] = next[order[m]]
        BY <1>3, <1>5, <4>4
      <4>6. /\ \A n \in (k + 1)..j : AsAdded(n)'
            /\ \A n \in (m + 1)..Len(order) : AsAdded(n)'
        <5>1. /\ \A n \in (k + 1)..j : n \in 1..Len(order)
              /\ \A n \in (m + 1)..Len(order) : n \in 1..Len(order)
          BY <1>3
        <5> QED BY <2>3, <4>3, <5>1 DEF Reversing
      <4>7. Reversing(r, k, j, m)'
        BY <1>1, <4>3, <4>5, <4>6 DEF Reversing
      <4> QED BY <4>7
    <3>8. r.pc = "setup" => (\E j \in 2..k : SettingUp(r, k, j))'
      BY <1>1, <3>2 DEF HolderAt, SettingUp
    <3>9. HolderAt(r, k)'
      BY <1>1, <3>2, <3>4, <3>5, <3>6, <3>7, <3>8 DEF HolderAt
    <3> QED BY <3>1, <3>2, <3>9
  <2>6. ListAt(k)'
    BY <1>1, <1>8, <2>4, <2>5 DEF ListAt
  <2> QED BY <1>1, <2>6 DEF ListInv
<1>15. FreeInv'
  <2>1. order[i] \in busy
    BY <1>4, QueueFacts DEF SocketInv
  <2> QED BY <1>1, <1>5, <2>1 DEF SocketInv, FreeInv
<1> QED BY <1>9, <1>10, <1>11, <1>12, <1>13, <1>14, <1>15 DEF SocketInv

-----------------------------------------------------------------------------
(* Requests are given back.                                                *)

\* A sequence is one of every set that has its elements.
LEMMA ElementsOf ==
    ASSUME NEW S, NEW s \in Seq(S), NEW T, \A i \in 1..Len(s) : s[i] \in T
    PROVE  s \in Seq(T)
  OBVIOUS

\* The last request, or the failed one, goes back to the pool.
LEMMA ReturnKeeps ==
    ASSUME SocketInv, NEW a \in Agents, ReturnWriteRequest(a)
    PROVE  SocketInv'
<1>1. th[a].pc = "return" /\ Go(a, Idle) /\ UNCHANGED <<head, connecting>>
  BY DEF ReturnWriteRequest, At
<1>2. PICK x \in busy : x = th[a].req /\ x \notin Range(order) /\ x \in Requests
  BY <1>1 DEF SocketInv, QueueInv, TypeOK, At
<1>3. /\ order \in Seq(busy) /\ Len(order) \in Nat
      /\ \A i \in 1..Len(order) : order[i] \in busy /\ order[i] \in Requests /\ order[i] # x
      /\ \A i, j \in 1..Len(order) : order[i] = order[j] => i = j
  BY <1>2, QueueFacts DEF SocketInv, QueueInv
<1>4. order' = order
  BY <1>2, <1>3, FirstRemoved DEF ReturnWriteRequest, Release
<1>5. /\ busy' = busy \ {x} /\ ready' = ready \ {x}
      /\ next' = [next EXCEPT ![x] = UNCONNECTED] /\ data' = [data EXCEPT ![x] = 0]
  BY <1>2 DEF ReturnWriteRequest, Release
<1>6. /\ next' \in [Requests -> Pointer \cup {UNCONNECTED}] /\ data' \in [Requests -> 0..Size]
      /\ \A i \in 1..Len(order) : next'[order[i]] = next[order[i]]
      /\ order' \in Seq(busy') /\ busy' \subseteq Requests /\ ready' \subseteq busy'
  <2>1. 0 \in 0..Size
    BY SocketAssumption
  <2>2. \A i \in 1..Len(order) : order[i] \in busy'
    BY <1>3, <1>5
  <2>3. order' \in Seq(busy')
    BY <1>3, <1>4, <2>2, ElementsOf
  <2> QED BY <1>2, <1>3, <1>5, <2>1, <2>3 DEF SocketInv, TypeOK
<1>7. Idle \in ThreadStates /\ Idle.pc = "idle" /\ Locals(Idle)
  BY DEF Idle, ThreadStates, Pointer, Locals
<1>8. /\ th'[a] = Idle /\ th' \in [Agents -> ThreadStates]
      /\ \A c \in Agents : c # a => th'[c] = th[c]
  BY <1>1, <1>7 DEF Go, SocketInv, TypeOK
<1>9. Holders' = Holders
  BY <1>1, <1>7, <1>8 DEF Holders
<1>10. TypeOK'
  <2>1. \A b \in Agents : /\ th'[b].pc # "idle" => th'[b].req \in Requests
                          /\ th'[b].pc = "reverse" => th'[b].p \in Requests
    BY <1>7, <1>8 DEF SocketInv, TypeOK, At
  <2>2. head \in Pointer /\ connecting \in Pointer
    BY DEF SocketInv, TypeOK
  <2> QED BY <1>1, <1>6, <1>8, <2>1, <2>2 DEF TypeOK, At
<1>11. QueueInv'
  <2>1. \A b \in Agents : th'[b].pc = "return" => b # a /\ th'[b] = th[b] /\ th[b].req # x
    BY <1>1, <1>2, <1>7, <1>8 DEF SocketInv, QueueInv, At
  <2>2. ASSUME NEW r \in busy'
        PROVE  r \in Range(order) \/ \E b \in Agents : th'[b].pc = "return" /\ th'[b].req = r
    <3>1. r \in busy /\ r # x
      BY <1>5
    <3>2. CASE r \notin Range(order)
      <4>1. PICK b \in Agents : th[b].pc = "return" /\ th[b].req = r
        BY <3>1, <3>2 DEF SocketInv, QueueInv, At
      <4> QED BY <1>2, <1>8, <3>1, <4>1
    <3> QED BY <3>2
  <2>3. \A b \in Agents : th'[b].pc = "return" => th'[b].req \in busy' \ Range(order)
    BY <1>5, <2>1 DEF SocketInv, QueueInv, At
  <2>4. \A b, c \in Agents : th'[b].pc = "return" /\ th'[c].pc = "return" /\ th'[b].req = th'[c].req
                                => b = c
    BY <2>1 DEF SocketInv, QueueInv, At
  <2>5. head = IF order = <<>> THEN NULL ELSE order[Len(order)]
    BY DEF SocketInv, QueueInv
  <2> QED BY <1>1, <1>3, <1>4, <2>2, <2>3, <2>4, <2>5 DEF QueueInv, At
<1>12. OwnerInv'
  <2>1. \A b \in Holders : th'[b] = th[b]
    BY <1>1, <1>8 DEF Holders
  <2>2. OwnerInv
    BY DEF SocketInv
  <2> QED BY <1>1, <1>4, <1>9, <2>1, <2>2 DEF OwnerInv
<1>13. LinkInv'
  <2>1. ASSUME NEW b \in Agents, At(b, "link")'
        PROVE  At(b, "link") /\ th'[b] = th[b]
    BY <1>7, <1>8, <2>1 DEF At
  <2>2. ASSUME NEW b \in Agents, At(b, "link")'
        PROVE  \E j \in 2..Len(order) : /\ th'[b].req = order[j] /\ th'[b].p = order[j - 1]
                                        /\ next'[order[j]] = UNCONNECTED
    <3>1. At(b, "link") /\ th'[b] = th[b]
      BY <2>1, <2>2
    <3>2. PICK j \in 2..Len(order) : /\ th[b].req = order[j] /\ th[b].p = order[j - 1]
                                     /\ next[order[j]] = UNCONNECTED
      BY <3>1 DEF SocketInv, LinkInv
    <3>3. j \in 1..Len(order)
      BY <1>3
    <3>4. next'[order[j]] = UNCONNECTED
      BY <1>3, <1>6, <3>2, <3>3
    <3> QED BY <3>1, <3>2, <3>4
  <2>3. ASSUME NEW b \in Agents, NEW c \in Agents, At(b, "link")', At(c, "link")',
               th'[b].req = th'[c].req
        PROVE  b = c
    BY <2>1, <2>3 DEF SocketInv, LinkInv
  <2> QED BY <1>4, <2>2, <2>3 DEF LinkInv
<1>14. LocalsInv'
  BY <1>7, <1>8 DEF SocketInv, LocalsInv
<1>15. ListInv'
  <2>1. SUFFICES ASSUME order # <<>> PROVE \E k \in 1..Len(order) : ListAt(k)'
    BY <1>4 DEF ListInv
  <2>2. PICK k \in 1..Len(order) : ListAt(k)
    BY <2>1 DEF SocketInv, ListInv
  <2>3. \A m \in 1..Len(order) : InHand(m) => InHand(m)'
    <3>1. ASSUME NEW m \in 1..Len(order) PROVE \A j \in 1..(m - 1) : j \in 1..Len(order)
      BY <1>3
    <3> QED BY <1>4, <1>6, <3>1 DEF InHand
  <2>4. \A j \in 1..Len(order) : AsAdded(j) => AsAdded(j)'
    BY <1>4, <1>6 DEF AsAdded
  <2>5. 1 \in 1..Len(order) /\ \A j \in 2..Len(order) : j \in 1..Len(order)
    BY <1>3, <2>2
  <2>6. ASSUME NEW c \in Holders PROVE th'[c] = th[c] /\ HolderAt(th[c], k)'
    <3>1. th'[c] = th[c] /\ HolderAt(th[c], k)
      BY <1>1, <1>8, <2>2 DEF Holders, ListAt
    <3>2. PICK r : r = th[c] /\ HolderAt(r, k)
      BY <3>1
    <3>3. \A j \in (k + 1)..Len(order) : j \in 1..Len(order)
      BY <1>3
    <3>4. r.pc = "connect" => next'[order[1]] = UNCONNECTED
      BY <1>6, <2>5, <3>2 DEF HolderAt
    <3>5. r.pc # "reverse" => \A j \in (k + 1)..Len(order) : AsAdded(j)'
      BY <2>4, <3>2, <3>3 DEF HolderAt
    <3>6. r.pc = "reverse" =>
             (\E m \in (k + 1)..Len(order) : \E j \in (k + 1)..m : Reversing(r, k, j, m))'
      <4>1. SUFFICES ASSUME r.pc = "reverse"
                     PROVE  \E m \in (k + 1)..Len(order) : \E j \in (k + 1)..m : Reversing(r, k, j, m)'
        BY <1>4
      <4>2. PICK m \in (k + 1)..Len(order) : \E j \in (k + 1)..m : Reversing(r, k, j, m)
        BY <3>2, <4>1 DEF HolderAt
      <4>3. PICK j \in (k + 1)..m : Reversing(r, k, j, m)
        BY <4>2
      <4>4. /\ \A n \in (j + 1)..(m - 1) : n \in 1..Len(order)
            /\ \A n \in (k + 1)..j : n \in 1..Len(order)
            /\ \A n \in (m + 1)..Len(order) : n \in 1..Len(order)
            /\ m \in 1..Len(order)
        BY <1>3
      <4>5. Reversing(r, k, j, m)'
        BY <1>4, <1>6, <2>4, <4>3, <4>4 DEF Reversing
      <4> QED BY <4>5
    <3>7. r.pc = "setup" => (\E j \in 2..k : SettingUp(r, k, j))'
      BY <1>4, <3>2 DEF HolderAt, SettingUp
    <3>8. HolderAt(r, k)'
      BY <1>4, <2>3, <3>2, <3>4, <3>5, <3>6, <3>7 DEF HolderAt
    <3> QED BY <3>1, <3>2, <3>8
  <2>7. ListAt(k)'
    BY <1>1, <1>4, <1>9, <2>2, <2>3, <2>4, <2>5, <2>6 DEF ListAt
  <2> QED BY <2>7
<1>16. FreeInv'
  BY <1>2, <1>5 DEF SocketInv, TypeOK, FreeInv
<1> QED BY <1>10, <1>11, <1>12, <1>13, <1>14, <1>15, <1>16 DEF SocketInv

\* The first request leaves the queue.
LEMMA QueueWithoutFirst ==
    ASSUME SocketInv, order # <<>>, NEW q, q = RemoveFirst(order, order[1])
    PROVE  /\ q = Tail(order) /\ q \in Seq(busy \ {order[1]}) /\ Len(q) = Len(order) - 1
           /\ \A i \in 1..(Len(order) - 1) : q[i] = order[i + 1]
           /\ \A i, j \in 1..Len(q) : q[i] = q[j] => i = j
           /\ Range(order) = Range(q) \cup {order[1]} /\ order[1] \notin Range(q)
           /\ Len(order) # 1 => q # <<>> /\ q[Len(q)] = order[Len(order)]
<1>1. /\ order \in Seq(busy) /\ Len(order) \in Nat /\ Len(order) >= 1
      /\ DOMAIN order = 1..Len(order)
      /\ \A i \in 1..Len(order) : order[i] \in busy
      /\ \A i, j \in 1..Len(order) : order[i] = order[j] => i = j
  BY QueueFacts DEF SocketInv, QueueInv
<1>2. /\ q = Tail(order) /\ q \in Seq(busy) /\ Len(q) = Len(order) - 1
      /\ \A i \in 1..(Len(order) - 1) : q[i] = order[i + 1]
  <2>1. PICK e : e = order[1]
    OBVIOUS
  <2>2. /\ RemoveFirst(order, e) = Tail(order)
        /\ Tail(order) \in Seq(busy) /\ Len(Tail(order)) = Len(order) - 1
        /\ \A i \in 1..(Len(order) - 1) : Tail(order)[i] = order[i + 1]
    BY <1>1, <2>1, FirstRemoved, Zenon
  <2> QED BY <2>1, <2>2
<1>3. \A i \in 1..Len(q) : i + 1 \in 1..Len(order) /\ q[i] = order[i + 1] /\ i + 1 # 1
  BY <1>1, <1>2
<1>4. \A i, j \in 1..Len(q) : q[i] = q[j] => i = j
  BY <1>1, <1>3
<1>5. \A i \in 1..Len(q) : q[i] \in busy \ {order[1]}
  <2>1. 1 \in 1..Len(order)
    BY <1>1
  <2> QED BY <1>1, <1>3, <2>1
<1>6. q \in Seq(busy \ {order[1]})
  BY <1>2, <1>5, ElementsOf
<1>7. DOMAIN q = 1..Len(q)
  BY <1>2
<1>8. ASSUME NEW x \in Range(order) PROVE x \in Range(q) \cup {order[1]}
  <2>1. PICK i \in 1..Len(order) : x = order[i]
    BY <1>1, <1>8 DEF Range
  <2>2. CASE i # 1
    <3>1. i - 1 \in 1..Len(q) /\ q[i - 1] = x
      BY <1>1, <1>2, <2>1, <2>2
    <3> QED BY <1>7, <3>1 DEF Range
  <2> QED BY <2>1, <2>2
<1>9. ASSUME NEW x \in Range(q) PROVE x \in Range(order) /\ x # order[1]
  <2>1. PICK i \in 1..Len(q) : x = q[i]
    BY <1>7, <1>9 DEF Range
  <2> QED BY <1>1, <1>3, <1>5, <2>1 DEF Range
<1>10. order[1] \in Range(order)
  BY <1>1 DEF Range
<1>11. ASSUME Len(order) # 1 PROVE q # <<>> /\ q[Len(q)] = order[Len(order)]
  <2>1. Len(q) \in 1..(Len(order) - 1) /\ Len(q) + 1 = Len(order)
    BY <1>1, <1>2, <1>11
  <2>2. q # <<>>
    BY <2>1
  <2>3. q[Len(q)] = order[Len(q) + 1]
    BY <1>2, <2>1
  <2> QED BY <2>1, <2>2, <2>3
<1> QED BY <1>2, <1>4, <1>6, <1>8, <1>9, <1>10, <1>11

\* The holder releases the first request in hand and goes on with the next one.
LEMMA ReleaseKeeps ==
    ASSUME SocketInv, NEW a \in Agents, th[a].pc \in {"keep", "skim", "drop"},
           next[th[a].req] # NULL, Release(th[a].req), UNCHANGED <<head, connecting>>,
           NEW r \in ThreadStates, th' = [th EXCEPT ![a] = r], r.req = next[th[a].req],
           r.pc \in {"write", "skim", "drop"}, Locals(r), r.cur \in {NULL, th[a].cur}
    PROVE  SocketInv'
<1>1. a \in Holders
  BY DEF Holders
<1>2. /\ th[a] \in ThreadStates /\ Locals(th[a]) /\ order # <<>> /\ th[a].req = order[1]
      /\ th[a].req \in busy /\ th[a].req \in Requests /\ connecting = NULL /\ Holders = {a}
  BY <1>1, HolderFacts
<1>3. PICK k \in 1..Len(order) : HolderAt(th[a], k)
  BY <1>1, HolderFacts
<1>4. /\ InHand(k) /\ th[a].cur \in {NULL, order[k]}
      /\ \A i \in (k + 1)..Len(order) : AsAdded(i)
  BY <1>3 DEF HolderAt
<1>5. /\ Len(order) \in Nat
      /\ \A i \in 1..Len(order) : order[i] \in busy /\ order[i] \in Requests
      /\ \A i, j \in 1..Len(order) : order[i] = order[j] => i = j
      /\ NULL \notin Requests /\ UNCONNECTED \notin Requests /\ UNCONNECTED # NULL
  BY QueueFacts, SocketAssumption DEF SocketInv, QueueInv
<1>6. k >= 2 /\ k \in Nat /\ k <= Len(order) /\ 1 \in 1..(k - 1) /\ next[order[1]] = order[2]
  <2>1. k # 1
    BY <1>2, <1>4 DEF InHand
  <2>2. 1 \in 1..(k - 1) /\ k >= 2 /\ k \in Nat /\ k <= Len(order)
    BY <1>5, <2>1
  <2> QED BY <1>4, <2>2 DEF InHand
<1>7. /\ order' = Tail(order) /\ order' \in Seq(busy') /\ Len(order') = Len(order) - 1
      /\ \A i \in 1..(Len(order) - 1) : order'[i] = order[i + 1]
      /\ \A i, j \in 1..Len(order') : order'[i] = order'[j] => i = j
      /\ Range(order) = Range(order') \cup {order[1]} /\ order[1] \notin Range(order')
      /\ order' # <<>> /\ order'[Len(order')] = order[Len(order)]
      /\ busy' = busy \ {order[1]} /\ ready' = ready \ {order[1]}
  BY <1>2, <1>5, <1>6, QueueWithoutFirst DEF Release
<1>8. /\ next' = [next EXCEPT ![order[1]] = UNCONNECTED] /\ data' = [data EXCEPT ![order[1]] = 0]
  BY <1>2 DEF Release
<1>9. /\ next' \in [Requests -> Pointer \cup {UNCONNECTED}] /\ data' \in [Requests -> 0..Size]
      /\ \A i \in 2..Len(order) : next'[order[i]] = next[order[i]]
      /\ busy' \subseteq Requests /\ ready' \subseteq busy'
  <2>1. 0 \in 0..Size
    BY SocketAssumption
  <2>2. \A i \in 2..Len(order) : order[i] # order[1] /\ order[i] \in Requests
    BY <1>5
  <2> QED BY <1>2, <1>7, <1>8, <2>1, <2>2 DEF SocketInv, TypeOK
<1>10. /\ th'[a] = r /\ th' \in [Agents -> ThreadStates] /\ r.req = order[2]
       /\ order[2] = order'[1] /\ order[2] \in Requests
       /\ \A c \in Agents : c # a => th'[c] = th[c]
  BY <1>2, <1>5, <1>6, <1>7 DEF SocketInv, TypeOK
<1>11. Holders' = {a}
  BY <1>2, <1>10 DEF Holders
<1>12. TypeOK'
  <2>1. \A b \in Agents : /\ th'[b].pc # "idle" => th'[b].req \in Requests
                          /\ th'[b].pc = "reverse" => th'[b].p \in Requests
    BY <1>10 DEF SocketInv, TypeOK, At
  <2>2. head \in Pointer /\ connecting \in Pointer
    BY DEF SocketInv, TypeOK
  <2> QED BY <1>7, <1>9, <1>10, <2>1, <2>2 DEF TypeOK, At
<1>13. QueueInv'
  <2>1. \A b \in Agents : /\ th'[b].pc = "return" => b # a /\ th'[b] = th[b]
                          /\ th[b].pc = "return" => b # a /\ th'[b] = th[b]
    BY <1>10
  <2>2. ASSUME NEW x \in busy'
        PROVE  x \in Range(order') \/ \E b \in Agents : th'[b].pc = "return" /\ th'[b].req = x
    <3>1. x \in busy /\ x # order[1]
      BY <1>7
    <3>2. CASE x \notin Range(order)
      <4>1. PICK b \in Agents : th[b].pc = "return" /\ th[b].req = x
        BY <3>1, <3>2 DEF SocketInv, QueueInv, At
      <4> QED BY <2>1, <4>1
    <3> QED BY <1>7, <3>1, <3>2
  <2>3. ASSUME NEW b \in Agents, th'[b].pc = "return"
        PROVE  th'[b].req \in busy' \ Range(order')
    <3>1. th[b].req \in busy \ Range(order) /\ th'[b] = th[b]
      BY <2>1, <2>3 DEF SocketInv, QueueInv, At
    <3> QED BY <1>7, <3>1
  <2>4. \A b, c \in Agents : th'[b].pc = "return" /\ th'[c].pc = "return" /\ th'[b].req = th'[c].req
                                => b = c
    BY <2>1 DEF SocketInv, QueueInv, At
  <2>5. head' = IF order' = <<>> THEN NULL ELSE order'[Len(order')]
    BY <1>2, <1>7 DEF SocketInv, QueueInv
  <2> QED BY <1>7, <2>2, <2>3, <2>4, <2>5 DEF QueueInv, At
<1>14. OwnerInv'
  BY <1>2, <1>7, <1>10, <1>11 DEF OwnerInv
<1>15. LinkInv'
  <2>1. ASSUME NEW b \in Agents, At(b, "link")'
        PROVE  At(b, "link") /\ th'[b] = th[b]
    BY <1>10, <2>1 DEF At
  <2>2. ASSUME NEW b \in Agents, At(b, "link")'
        PROVE  \E j \in 2..Len(order') : /\ th'[b].req = order'[j] /\ th'[b].p = order'[j - 1]
                                         /\ next'[order'[j]] = UNCONNECTED
    <3>1. At(b, "link") /\ th'[b] = th[b]
      BY <2>1, <2>2
    <3>2. PICK j \in 2..Len(order) : /\ th[b].req = order[j] /\ th[b].p = order[j - 1]
                                     /\ next[order[j]] = UNCONNECTED
      BY <3>1 DEF SocketInv, LinkInv
    <3>3. j # 2
      <4>1. SUFFICES next[order[2]] # UNCONNECTED
        BY <3>2
      <4>2. CASE k = 2
        BY <1>4, <1>5, <4>2 DEF InHand
      <4>3. CASE k # 2
        <5>1. 2 \in 1..(k - 1) /\ 3 \in 1..Len(order)
          BY <1>5, <1>6, <4>3
        <5>2. next[order[2]] = order[3]
          BY <1>4, <5>1 DEF InHand
        <5> QED BY <1>5, <5>1, <5>2
      <4> QED BY <4>2, <4>3
    <3>4. /\ j - 1 \in 2..Len(order') /\ order'[j - 1] = order[j] /\ order'[(j - 1) - 1] = order[j - 1]
      BY <1>5, <1>7, <3>2, <3>3
    <3> QED BY <1>9, <3>1, <3>2, <3>4
  <2>3. ASSUME NEW b \in Agents, NEW c \in Agents, At(b, "link")', At(c, "link")',
               th'[b].req = th'[c].req
        PROVE  b = c
    BY <2>1, <2>3 DEF SocketInv, LinkInv
  <2> QED BY <2>2, <2>3 DEF LinkInv
<1>16. LocalsInv'
  BY <1>10 DEF SocketInv, LocalsInv
<1>17. ListInv'
  <2>1. PICK m \in 1..Len(order') : m = k - 1 /\ m + 1 = k
    BY <1>6, <1>7
  <2>2. InHand(m)'
    <3>1. ASSUME NEW i \in 1..(m - 1) PROVE next'[order'[i]] = order'[i + 1]
      <4>1. i + 1 \in 1..(k - 1) /\ i + 1 \in 2..Len(order) /\ i \in 1..(Len(order) - 1)
            /\ i + 1 \in 1..(Len(order) - 1)
        BY <1>6, <2>1
      <4>2. next[order[i + 1]] = order[(i + 1) + 1]
        BY <1>4, <4>1 DEF InHand
      <4> QED BY <1>7, <1>9, <4>1, <4>2
    <3>2. order'[m] = order[k] /\ next'[order[k]] = NULL
      BY <1>4, <1>6, <1>7, <1>9, <2>1 DEF InHand
    <3> QED BY <3>1, <3>2 DEF InHand
  <2>3. ASSUME NEW i \in (m + 1)..Len(order') PROVE AsAdded(i)'
    <3>1. /\ i + 1 \in (k + 1)..Len(order) /\ i + 1 \in 2..Len(order)
          /\ i \in 1..(Len(order) - 1) /\ i - 1 \in 1..(Len(order) - 1) /\ (i - 1) + 1 = i
          /\ (i + 1) - 1 = i
      BY <1>6, <1>7, <2>1
    <3>2. next[order[i + 1]] \in {UNCONNECTED, order[i]}
      BY <1>4, <3>1 DEF AsAdded
    <3>3. order'[i] = order[i + 1] /\ order'[i - 1] = order[i]
      BY <1>7, <3>1
    <3> QED BY <1>9, <3>1, <3>2, <3>3 DEF AsAdded
  <2>4. r.cur \in {NULL, order'[m]}
    BY <1>4, <1>6, <1>7, <2>1
  <2>5. HolderAt(r, m)'
    BY <2>2, <2>3, <2>4 DEF HolderAt
  <2>6. ListAt(m)'
    BY <1>2, <1>10, <1>11, <2>5 DEF ListAt
  <2> QED BY <2>6 DEF ListInv
<1>18. FreeInv'
  BY <1>2, <1>7, <1>8 DEF SocketInv, TypeOK, FreeInv
<1> QED BY <1>12, <1>13, <1>14, <1>15, <1>16, <1>17, <1>18 DEF SocketInv

\* The request behind the first one in hand.
LEMMA SecondInHand ==
    ASSUME SocketInv, NEW a \in Agents, th[a].pc \in {"keep", "skim", "drop"},
           next[th[a].req] # NULL
    PROVE  next[th[a].req] = order[2] /\ order[2] \in Requests /\ Len(order) >= 2
<1>1. a \in Holders
  BY DEF Holders
<1>2. 1 \in 1..Len(order) /\ th[a].req = order[1] /\ Len(order) \in Nat
  BY <1>1, HolderFacts, QueueFacts DEF SocketInv
<1>3. PICK k \in 1..Len(order) : HolderAt(th[a], k)
  BY <1>1, HolderFacts
<1>4. InHand(k) /\ k # 1
  BY <1>2, <1>3 DEF HolderAt, InHand
<1>5. 1 \in 1..(k - 1) /\ 2 \in 1..Len(order) /\ Len(order) >= 2
  BY <1>2, <1>4
<1>6. next[order[1]] = order[2] /\ order[2] \in Requests
  BY <1>4, <1>5, QueueFacts DEF SocketInv, InHand
<1> QED BY <1>2, <1>5, <1>6

\* KeepWrite gives back a request that was sent and goes to the next.
LEMMA SkipKeeps ==
    ASSUME SocketInv, NEW a \in Agents, Skip(a)
    PROVE  SocketInv'
<1>1. a \in Holders /\ th[a].pc \in {"keep", "skim"} /\ next[th[a].req] # NULL
  BY DEF Skip, Written, Holders, At
<1>2. th[a] \in ThreadStates /\ Locals(th[a]) /\ th[a].req \in Requests
  BY <1>1, HolderFacts
<1>3. PICK q \in {"write", "skim"} : q = IF At(a, "keep") THEN "write" ELSE "skim"
  OBVIOUS
<1>4. PICK r : r = [th[a] EXCEPT !.req = next[th[a].req], !.pc = q]
  OBVIOUS
<1>5. r \in ThreadStates
  BY <1>1, <1>2, <1>4, SecondInHand DEF ThreadStates, Pointer
<1>6. /\ r.pc = q /\ r.req = next[th[a].req] /\ r.cur = th[a].cur
      /\ r.new = th[a].new /\ r.p = th[a].p /\ r.tail = th[a].tail /\ r.from = th[a].from
  BY <1>2, <1>4 DEF ThreadStates
<1>7. Locals(r)
  BY <1>1, <1>2, <1>6 DEF Locals
<1>8. th' = [th EXCEPT ![a] = r]
  BY <1>3, <1>4 DEF Go, Skip
<1> QED BY <1>1, <1>5, <1>6, <1>7, <1>8, ReleaseKeeps DEF Skip

\* ReleaseAllFailedWriteRequests gives back one request.
LEMMA ReleaseFailedKeeps ==
    ASSUME SocketInv, NEW a \in Agents, ReleaseFailed(a)
    PROVE  SocketInv'
<1>1. a \in Holders /\ th[a].pc = "drop" /\ next[th[a].req] # NULL
  BY DEF ReleaseFailed, Holders, At
<1>2. th[a] \in ThreadStates /\ Locals(th[a]) /\ th[a].req \in Requests
  BY <1>1, HolderFacts
<1>3. PICK r : r = [th[a] EXCEPT !.req = next[th[a].req], !.from = "fail", !.cur = NULL]
  OBVIOUS
<1>4. r \in ThreadStates
  BY <1>1, <1>2, <1>3, SecondInHand DEF ThreadStates, Pointer
<1>5. /\ r.pc = "drop" /\ r.req = next[th[a].req] /\ r.cur = NULL
      /\ r.new = th[a].new /\ r.p = th[a].p /\ r.tail = th[a].tail /\ r.from = "fail"
  BY <1>1, <1>2, <1>3 DEF ThreadStates
<1>6. Locals(r)
  BY <1>1, <1>2, <1>5 DEF Locals
<1>7. th' = [th EXCEPT ![a] = r]
  BY <1>3 DEF Go, ReleaseFailed
<1> QED BY <1>1, <1>4, <1>5, <1>6, <1>7, ReleaseKeeps DEF ReleaseFailed

\* When the right is given up, nothing is left in the queue but the last request.
LEMMA OnlyRequest ==
    ASSUME SocketInv, NEW a \in Agents, At(a, "cas"), head = OldHead(a), ReturnWhenNoMore(a),
           NEW q, q = RemoveFirst(order, th[a].req)
    PROVE  /\ Len(order) = 1 /\ th[a].req = order[1] /\ data[order[1]] = 0
           /\ q = <<>> /\ q = Tail(order) /\ Range(order) = {order[1]}
<1>1. a \in Holders /\ th[a].pc = "cas"
  BY DEF Holders, At
<1>2. /\ th[a].req = order[1] /\ order # <<>> /\ order \in Seq(busy) /\ Len(order) \in Nat
      /\ 1 \in 1..Len(order) /\ Len(order) \in 1..Len(order)
  BY <1>1, HolderFacts, QueueFacts DEF SocketInv
<1>3. head = order[Len(order)] /\ head = order[1] /\ data[order[1]] = 0
  BY <1>2 DEF SocketInv, QueueInv, ReturnWhenNoMore
<1>4. Len(order) = 1
  BY <1>2, <1>3 DEF SocketInv, QueueInv
<1>5. PICK e : e = order[1]
  OBVIOUS
<1>6. q = Tail(order) /\ q \in Seq(busy \ {e}) /\ Len(q) = 0
      /\ Range(order) = Range(q) \cup {e}
  BY <1>2, <1>4, <1>5, QueueWithoutFirst
<1>7. q = <<>>
  BY <1>6
<1>8. Range(q) = {}
  BY <1>7, SmallRange
<1> QED BY <1>2, <1>3, <1>4, <1>5, <1>6, <1>7, <1>8

\* The right is given up: _write_head becomes NULL.
LEMMA GiveUpKeeps ==
    ASSUME SocketInv, NEW a \in Agents, At(a, "cas"), head = OldHead(a), ReturnWhenNoMore(a),
           head' = NULL, order' = RemoveFirst(order, th[a].req), Go(a, To(a, "return")),
           UNCHANGED <<next, data, busy, connecting, ready>>
    PROVE  SocketInv'
<1>1. a \in Holders /\ th[a].pc = "cas"
  BY DEF Holders, At
<1>2. /\ th[a] \in ThreadStates /\ Locals(th[a]) /\ th[a].req = order[1]
      /\ th[a].req \in busy /\ th[a].req \in Requests /\ connecting = NULL /\ Holders = {a}
  BY <1>1, HolderFacts
<1>3. PICK k \in 1..Len(order) : HolderAt(th[a], k)
  BY <1>1, HolderFacts
<1>4. Len(order) = 1 /\ order' = <<>> /\ Range(order) = {order[1]}
  BY OnlyRequest
<1>5. th[a].cur \in {NULL, order[1]}
  BY <1>1, <1>3, <1>4 DEF HolderAt
<1>6. PICK r : r = [th[a] EXCEPT !.pc = "return"]
  OBVIOUS
<1>7. /\ r \in ThreadStates /\ r.pc = "return" /\ r.req = th[a].req /\ r.cur = th[a].cur
      /\ r.new = th[a].new /\ r.p = th[a].p /\ r.tail = th[a].tail /\ r.from = th[a].from
  BY <1>2, <1>6 DEF ThreadStates
<1>8. Locals(r)
  BY <1>1, <1>2, <1>5, <1>7 DEF Locals
<1>9. /\ th'[a] = r /\ th' \in [Agents -> ThreadStates]
      /\ \A c \in Agents : c # a => th'[c] = th[c]
  BY <1>6, <1>7 DEF Go, To, SocketInv, TypeOK
<1>10. Holders' = {}
  BY <1>2, <1>7, <1>9 DEF Holders
<1>11. Range(order') = {} /\ order' \in Seq(busy')
  BY <1>4, SmallRange
<1>12. TypeOK'
  <2>1. \A b \in Agents : /\ th'[b].pc # "idle" => th'[b].req \in Requests
                          /\ th'[b].pc = "reverse" => th'[b].p \in Requests
    BY <1>2, <1>7, <1>9 DEF SocketInv, TypeOK, At
  <2>2. head' \in Pointer /\ connecting' \in Pointer
    BY DEF SocketInv, TypeOK, Pointer
  <2> QED BY <1>9, <1>11, <2>1, <2>2 DEF SocketInv, TypeOK, At
<1>13. QueueInv'
  <2>1. \A b \in Agents : b # a => /\ th'[b] = th[b]
                                   /\ th[b].pc = "return" => th[b].req # order[1]
    <3>1. order[1] \in Range(order)
      BY <1>4
    <3> QED BY <1>9, <3>1 DEF SocketInv, QueueInv, At
  <2>2. ASSUME NEW x \in busy
        PROVE  \E b \in Agents : th'[b].pc = "return" /\ th'[b].req = x
    <3>1. CASE x = order[1]
      BY <1>2, <1>7, <1>9, <3>1
    <3>2. CASE x # order[1]
      <4>1. PICK b \in Agents : th[b].pc = "return" /\ th[b].req = x
        BY <1>4, <3>2 DEF SocketInv, QueueInv, At
      <4> QED BY <1>1, <2>1, <4>1
    <3> QED BY <3>1, <3>2
  <2>3. \A b \in Agents : th'[b].pc = "return" => th'[b].req \in busy
    BY <1>2, <1>7, <1>9 DEF SocketInv, QueueInv, At
  <2>4. ASSUME NEW b \in Agents, NEW c \in Agents, th'[b].pc = "return", th'[c].pc = "return",
               th'[b].req = th'[c].req
        PROVE  b = c
    <3>1. CASE b # a /\ c # a
      BY <2>1, <2>4, <3>1 DEF SocketInv, QueueInv, At
    <3>2. CASE b = a /\ c # a
      BY <1>2, <1>7, <1>9, <2>1, <2>4, <3>2
    <3>3. CASE b # a /\ c = a
      BY <1>2, <1>7, <1>9, <2>1, <2>4, <3>3
    <3> QED BY <3>1, <3>2, <3>3
  <2>5. Len(order') = 0
    BY <1>4
  <2> QED BY <1>4, <1>11, <2>2, <2>3, <2>4, <2>5 DEF QueueInv, At
<1>14. OwnerInv'
  BY <1>2, <1>4, <1>10 DEF OwnerInv
<1>15. LinkInv'
  <2>1. ASSUME NEW b \in Agents, At(b, "link") PROVE FALSE
    <3>1. \E i \in 2..Len(order) : th[b].req = order[i]
      BY <2>1 DEF SocketInv, LinkInv
    <3> QED BY <1>4, <3>1
  <2>2. \A b \in Agents : ~At(b, "link")'
    BY <1>7, <1>9, <2>1 DEF At
  <2> QED BY <2>2 DEF LinkInv
<1>16. LocalsInv' /\ ListInv' /\ FreeInv'
  BY <1>4, <1>8, <1>9 DEF SocketInv, LocalsInv, ListInv, FreeInv
<1> QED BY <1>12, <1>13, <1>14, <1>15, <1>16 DEF SocketInv

\* IsWriteComplete tries to set _write_head back to NULL.
LEMMA CompareExchangeKeeps ==
    ASSUME SocketInv, NEW a \in Agents, CompareExchange(a)
    PROVE  SocketInv'
<1>1. CASE head = OldHead(a) /\ ReturnWhenNoMore(a)
  BY <1>1, GiveUpKeeps DEF CompareExchange
<1>2. CASE ~(head = OldHead(a) /\ ReturnWhenNoMore(a))
  BY <1>2, CompareKeeps DEF CompareExchange
<1> QED BY <1>1, <1>2

-----------------------------------------------------------------------------
(* A request is added.                                                     *)

\* What Exchange does to the queue.
LEMMA ExchangeFacts ==
    ASSUME SocketInv, NEW a \in Agents, Exchange(a)
    PROVE  \E x \in Requests \ busy :
              /\ busy' = busy \cup {x} /\ data' = [data EXCEPT ![x] = Size]
              /\ order' = Append(order, x) /\ head' = x
              /\ \A i \in 1..Len(order) : order[i] # x
              /\ order' \in Seq(busy') /\ Len(order') = Len(order) + 1
              /\ \A i \in 1..Len(order) : order'[i] = order[i]
              /\ order'[Len(order) + 1] = x
              /\ Range(order') = Range(order) \cup {x}
              /\ Go(a, [Idle EXCEPT !.pc = IF head = NULL THEN "connect" ELSE "link",
                                    !.req = x, !.p = head])
<1>1. PICK x \in Requests \ busy :
         /\ busy' = busy \cup {x} /\ data' = [data EXCEPT ![x] = Size]
         /\ order' = Append(order, x) /\ head' = x
         /\ Go(a, [Idle EXCEPT !.pc = IF head = NULL THEN "connect" ELSE "link",
                               !.req = x, !.p = head])
  BY FreeRequest DEF Exchange
<1>2. /\ order \in Seq(busy) /\ Len(order) \in Nat
      /\ \A i \in 1..Len(order) : order[i] \in busy
  BY QueueFacts DEF SocketInv
<1>3. PICK S : S = busy \cup {x}
  OBVIOUS
<1>4. order \in Seq(S) /\ x \in S
  <2>1. \A i \in 1..Len(order) : order[i] \in S
    BY <1>2, <1>3
  <2> QED BY <1>2, <1>3, <2>1, ElementsOf
<1>5. /\ Append(order, x) \in Seq(S) /\ Len(Append(order, x)) = Len(order) + 1
      /\ \A i \in 1..Len(order) : Append(order, x)[i] = order[i]
      /\ Append(order, x)[Len(order) + 1] = x
      /\ Range(Append(order, x)) = Range(order) \cup {x}
  BY <1>4, AppendElements, AppendRange
<1> QED BY <1>1, <1>2, <1>3, <1>5

\* StartWrite puts its request at _write_head.
LEMMA ExchangeKeeps ==
    ASSUME SocketInv, NEW a \in Agents, Exchange(a)
    PROVE  SocketInv'
<1>1. PICK x \in Requests \ busy :
         /\ busy' = busy \cup {x} /\ data' = [data EXCEPT ![x] = Size] /\ head' = x
         /\ \A i \in 1..Len(order) : order[i] # x
         /\ order' \in Seq(busy') /\ Len(order') = Len(order) + 1
         /\ \A i \in 1..Len(order) : order'[i] = order[i]
         /\ order'[Len(order) + 1] = x
         /\ Range(order') = Range(order) \cup {x}
         /\ Go(a, [Idle EXCEPT !.pc = IF head = NULL THEN "connect" ELSE "link",
                               !.req = x, !.p = head])
  BY ExchangeFacts
<1>2. th[a].pc = "idle" /\ UNCHANGED <<next, connecting, ready>>
  BY DEF Exchange, At
<1>3. /\ Len(order) \in Nat /\ order' # <<>>
      /\ \A i \in 1..Len(order) : order[i] \in busy /\ order[i] \in Requests
      /\ \A i, j \in 1..Len(order) : order[i] = order[j] => i = j
      /\ order = <<>> <=> Len(order) = 0
  <2>1. /\ Len(order) \in Nat
        /\ \A i \in 1..Len(order) : order[i] \in busy /\ order[i] \in Requests
        /\ \A i, j \in 1..Len(order) : order[i] = order[j] => i = j
        /\ order = <<>> <=> Len(order) = 0
    BY QueueFacts DEF SocketInv, QueueInv
  <2>2. Len(order') # 0
    BY <1>1, <2>1
  <2> QED BY <2>1, <2>2
<1>4. PICK q \in {"connect", "link"} : q = IF head = NULL THEN "connect" ELSE "link"
  OBVIOUS
<1>5. PICK r : r = [Idle EXCEPT !.pc = q, !.req = x, !.p = head]
  OBVIOUS
<1>6. /\ r \in ThreadStates /\ r.pc = q /\ r.req = x /\ r.cur = NULL
      /\ r.new = NULL /\ r.p = head /\ r.tail = NULL /\ r.from = "once"
  <2>1. head \in Pointer
    BY DEF SocketInv, TypeOK
  <2> QED BY <1>5, <2>1 DEF ThreadStates, Idle, Pointer
<1>7. Locals(r)
  BY <1>4, <1>6 DEF Locals
<1>8. /\ th'[a] = r /\ th' \in [Agents -> ThreadStates]
      /\ \A c \in Agents : c # a => th'[c] = th[c]
  BY <1>1, <1>4, <1>5, <1>6 DEF Go, SocketInv, TypeOK
<1>9. /\ NULL \notin Requests /\ UNCONNECTED \notin Requests
      /\ order = <<>> <=> head = NULL
      /\ order # <<>> => head = order[Len(order)]
  <2>1. order # <<>> => Len(order) \in 1..Len(order)
    BY <1>3
  <2> QED BY <1>3, <2>1, SocketAssumption DEF SocketInv, QueueInv
<1>10. Holders' = IF head = NULL THEN Holders \cup {a} ELSE Holders
  BY <1>2, <1>4, <1>6, <1>8 DEF Holders
<1>11. /\ \A b \in Holders : b # a /\ th'[b] = th[b]
       /\ head = NULL => Holders = {} /\ connecting = NULL
  <2>1. \A b \in Holders : b # a /\ th'[b] = th[b]
    BY <1>2, <1>8 DEF Holders
  <2> QED BY <1>9, <2>1 DEF SocketInv, OwnerInv
<1>12. \A i \in 1..Len(order') : i \in 1..Len(order) \/ i = Len(order) + 1
  BY <1>1, <1>3
<1>13. TypeOK'
  <2>1. \A b \in Agents : /\ th'[b].pc # "idle" => th'[b].req \in Requests
                          /\ th'[b].pc = "reverse" => th'[b].p \in Requests
    BY <1>4, <1>6, <1>8 DEF SocketInv, TypeOK, At
  <2>2. data' \in [Requests -> 0..Size]
    <3>1. Size \in 0..Size
      BY SocketAssumption
    <3> QED BY <1>1, <3>1 DEF SocketInv, TypeOK
  <2>3. head' \in Pointer /\ connecting' \in Pointer
    BY <1>1, <1>2 DEF SocketInv, TypeOK, Pointer
  <2>4. busy' \subseteq Requests /\ ready' \subseteq busy'
        /\ next' \in [Requests -> Pointer \cup {UNCONNECTED}]
    BY <1>1, <1>2 DEF SocketInv, TypeOK
  <2> QED BY <1>1, <1>8, <2>1, <2>2, <2>3, <2>4 DEF TypeOK, At
<1>14. QueueInv'
  <2>1. \A b \in Agents : /\ th'[b].pc = "return" => b # a /\ th'[b] = th[b]
                          /\ th[b].pc = "return" => b # a /\ th'[b] = th[b]
    BY <1>2, <1>4, <1>6, <1>8
  <2>2. ASSUME NEW y \in busy'
        PROVE  y \in Range(order') \/ \E b \in Agents : th'[b].pc = "return" /\ th'[b].req = y
    <3>1. CASE y = x
      BY <1>1, <3>1
    <3>2. CASE y # x /\ y \notin Range(order)
      <4>1. PICK b \in Agents : th[b].pc = "return" /\ th[b].req = y
        BY <1>1, <3>2 DEF SocketInv, QueueInv, At
      <4> QED BY <2>1, <4>1
    <3> QED BY <1>1, <3>1, <3>2
  <2>3. ASSUME NEW b \in Agents, th'[b].pc = "return"
        PROVE  th'[b].req \in busy' \ Range(order')
    <3>1. th[b].req \in busy \ Range(order) /\ th'[b] = th[b]
      BY <2>1, <2>3 DEF SocketInv, QueueInv, At
    <3> QED BY <1>1, <3>1
  <2>4. \A b, c \in Agents : th'[b].pc = "return" /\ th'[c].pc = "return" /\ th'[b].req = th'[c].req
                                => b = c
    BY <2>1 DEF SocketInv, QueueInv, At
  <2>5. \A i, j \in 1..Len(order') : order'[i] = order'[j] => i = j
    BY <1>1, <1>3, <1>12
  <2>6. head' = IF order' = <<>> THEN NULL ELSE order'[Len(order')]
    BY <1>1, <1>3
  <2> QED BY <2>2, <2>3, <2>4, <2>5, <2>6 DEF QueueInv, At
<1>15. OwnerInv'
  <2>1. CASE head = NULL
    <3>1. order'[1] = x /\ Holders' = {a} /\ connecting' = NULL
      BY <1>1, <1>2, <1>3, <1>9, <1>10, <1>11, <2>1
    <3> QED BY <1>3, <1>6, <1>8, <3>1 DEF OwnerInv
  <2>2. CASE head # NULL
    <3>1. order # <<>> /\ order'[1] = order[1] /\ Holders' = Holders
      <4>1. order # <<>> /\ 1 \in 1..Len(order)
        BY <1>3, <1>9, <2>2
      <4> QED BY <1>1, <1>10, <2>2, <4>1
    <3> QED BY <1>2, <1>3, <1>11, <3>1 DEF SocketInv, OwnerInv
  <2> QED BY <2>1, <2>2
<1>16. LinkInv'
  <2>1. \A b \in Agents : th'[b].pc = "link" /\ b # a =>
            /\ th'[b] = th[b] /\ At(b, "link")
            /\ \E i \in 2..Len(order) : /\ th[b].req = order[i] /\ th[b].p = order[i - 1]
                                        /\ next[order[i]] = UNCONNECTED
    BY <1>8 DEF SocketInv, LinkInv, At
  <2>2. ASSUME NEW b \in Agents, th'[b].pc = "link"
        PROVE  \E i \in 2..Len(order') : /\ th'[b].req = order'[i] /\ th'[b].p = order'[i - 1]
                                         /\ next'[order'[i]] = UNCONNECTED
    <3>1. CASE b = a
      <4>1. head # NULL /\ order # <<>>
        BY <1>4, <1>6, <1>8, <1>9, <2>2, <3>1
      <4>2. /\ Len(order) + 1 \in 2..Len(order') /\ (Len(order) + 1) - 1 = Len(order)
            /\ Len(order) \in 1..Len(order)
        BY <1>1, <1>3, <4>1
      <4>3. next[x] = UNCONNECTED
        BY DEF SocketInv, FreeInv
      <4> QED BY <1>1, <1>2, <1>6, <1>8, <1>9, <3>1, <4>1, <4>2, <4>3
    <3>2. CASE b # a
      <4>1. PICK i \in 2..Len(order) : /\ th[b].req = order[i] /\ th[b].p = order[i - 1]
                                       /\ next[order[i]] = UNCONNECTED
        BY <2>1, <2>2, <3>2
      <4>2. i \in 2..Len(order') /\ i \in 1..Len(order) /\ i - 1 \in 1..Len(order)
        BY <1>1, <1>3
      <4>3. order'[i] = order[i] /\ order'[i - 1] = order[i - 1] /\ th'[b] = th[b]
        BY <1>1, <1>8, <3>2, <4>2
      <4> QED BY <1>2, <4>1, <4>2, <4>3
    <3> QED BY <3>1, <3>2
  <2>3. ASSUME NEW b \in Agents, NEW c \in Agents, th'[b].pc = "link", th'[c].pc = "link",
               th'[b].req = th'[c].req
        PROVE  b = c
    <3>1. \A d \in Agents : th'[d].pc = "link" /\ d # a => th'[d].req # x
      <4>1. ASSUME NEW d \in Agents, th'[d].pc = "link", d # a PROVE th'[d].req # x
        <5>1. PICK i \in 2..Len(order) : th'[d].req = order[i]
          BY <2>1, <4>1
        <5> QED BY <1>1, <1>3, <5>1
      <4> QED BY <4>1
    <3>2. CASE b # a /\ c # a
      BY <2>1, <2>3, <3>2 DEF SocketInv, LinkInv
    <3>3. CASE ~(b # a /\ c # a)
      BY <1>6, <1>8, <2>3, <3>1, <3>3
    <3> QED BY <3>2, <3>3
  <2> QED BY <2>2, <2>3 DEF LinkInv, At
<1>17. LocalsInv'
  BY <1>7, <1>8 DEF SocketInv, LocalsInv
<1>18. FreeInv'
  BY <1>1, <1>2 DEF SocketInv, FreeInv
<1>19. ListInv'
  <2>1. CASE head = NULL
    <3>1. /\ order'[1] = x /\ Holders' = {a} /\ connecting' = NULL /\ Len(order') = 1
          /\ next[x] = UNCONNECTED
      BY <1>1, <1>2, <1>3, <1>9, <1>10, <1>11, <2>1 DEF SocketInv, FreeInv
    <3>2. HolderAt(r, 1)'
      BY <1>2, <1>4, <1>6, <2>1, <3>1 DEF HolderAt
    <3>3. ListAt(1)'
      BY <1>8, <3>1, <3>2 DEF ListAt
    <3> QED BY <3>1, <3>3 DEF ListInv
  <2>2. CASE head # NULL
    <3>1. order # <<>> /\ Holders' = Holders
      BY <1>9, <1>10, <2>2
    <3>2. PICK k \in 1..Len(order) : ListAt(k)
      BY <3>1 DEF SocketInv, ListInv
    <3>3. \A j \in 1..Len(order) : order'[j] = order[j]
      BY <1>1
    <3>4. ASSUME NEW m \in 1..Len(order), InHand(m) PROVE InHand(m)'
      <4>1. \A j \in 1..(m - 1) : j \in 1..Len(order) /\ j + 1 \in 1..Len(order)
        BY <1>3
      <4> QED BY <1>2, <3>3, <3>4, <4>1 DEF InHand
    <3>5. ASSUME NEW j \in 2..Len(order), AsAdded(j) PROVE AsAdded(j)'
      <4>1. j \in 1..Len(order) /\ j - 1 \in 1..Len(order)
        BY <1>3
      <4> QED BY <1>2, <3>3, <3>5, <4>1 DEF AsAdded
    <3>60. PICK new \in Nat : new = Len(order) + 1
      BY <1>3
    <3>6. AsAdded(new)'
      <4>1. next[x] = UNCONNECTED
        BY DEF SocketInv, FreeInv
      <4> QED BY <1>1, <1>2, <3>60, <4>1 DEF AsAdded
    <3>7. ASSUME NEW m \in 1..Len(order), \A j \in (m + 1)..Len(order) : AsAdded(j)
          PROVE  \A j \in (m + 1)..Len(order') : AsAdded(j)'
      <4>1. \A j \in (m + 1)..Len(order') : j = new \/ (j \in (m + 1)..Len(order) /\ j \in 2..Len(order))
        BY <1>1, <1>3, <3>60
      <4> QED BY <3>5, <3>6, <3>7, <4>1
    <3>8. 1 \in 1..Len(order) /\ k \in 1..Len(order') /\ Len(order) + 1 \in 1..Len(order')
      BY <1>1, <1>3, <3>2
    <3>9. ASSUME connecting # NULL
          PROVE  k = 1 /\ InHand(1)' /\ \A j \in 2..Len(order') : AsAdded(j)'
      <4>1. k = 1 /\ InHand(1) /\ \A j \in 2..Len(order) : AsAdded(j)
        BY <3>2, <3>9 DEF ListAt
      <4> QED BY <3>4, <3>7, <3>8, <4>1
    <3>10. ASSUME NEW c \in Holders PROVE th'[c] = th[c] /\ HolderAt(th[c], k)'
      <4>1. th'[c] = th[c] /\ HolderAt(th[c], k)
        BY <1>11, <3>2 DEF ListAt
      <4>2. PICK s : s = th[c] /\ HolderAt(s, k)
        BY <4>1
      <4>3. s.pc = "connect" => k = 1 /\ next'[order'[1]] = UNCONNECTED
        BY <1>2, <3>3, <3>8, <4>2 DEF HolderAt
      <4>4. s.pc # "connect" => InHand(k)'
        BY <3>4, <4>2 DEF HolderAt
      <4>5. s.pc # "reverse" => \A j \in (k + 1)..Len(order') : AsAdded(j)'
        BY <3>7, <4>2 DEF HolderAt
      <4>6. ASSUME s.pc = "reverse"
            PROVE  (\E m \in (k + 1)..Len(order) : \E j \in (k + 1)..m : Reversing(s, k, j, m))'
        <5>1. PICK m \in (k + 1)..Len(order) : \E j \in (k + 1)..m : Reversing(s, k, j, m)
          BY <4>2, <4>6 DEF HolderAt
        <5>2. PICK j \in (k + 1)..m : Reversing(s, k, j, m)
          BY <5>1
        <5>3. /\ \A n \in (j + 1)..(m - 1) : n \in 1..Len(order) /\ n + 1 \in 1..Len(order)
              /\ \A n \in (k + 1)..j : n \in 2..Len(order)
              /\ m \in 1..Len(order) /\ j \in 1..Len(order) /\ m \in (k + 1)..Len(order')
              /\ j # m => j + 1 \in 1..Len(order)
          BY <1>1, <1>3
        <5>4. \A n \in (m + 1)..Len(order') : AsAdded(n)'
          BY <3>7, <5>2, <5>3 DEF Reversing
        <5>5. \A n \in (k + 1)..j : AsAdded(n)'
          BY <3>5, <5>2, <5>3 DEF Reversing
        <5>6. Reversing(s, k, j, m)'
          BY <1>2, <3>3, <5>2, <5>3, <5>4, <5>5 DEF Reversing
        <5> QED BY <5>3, <5>6
      <4>7. s.pc = "setup" => (\E j \in 2..k : SettingUp(s, k, j))'
        <5>1. SUFFICES ASSUME s.pc = "setup" PROVE \E j \in 2..k : SettingUp(s, k, j)'
          OBVIOUS
        <5>2. PICK j \in 2..k : SettingUp(s, k, j)
          BY <4>2, <5>1 DEF HolderAt
        <5>3. j \in 1..Len(order)
          BY <1>3
        <5>4. SettingUp(s, k, j)'
          BY <1>1, <3>3, <5>2, <5>3 DEF SettingUp
        <5> QED BY <5>4
      <4>8. HolderAt(s, k)'
        BY <3>3, <4>2, <4>3, <4>4, <4>5, <4>6, <4>7 DEF HolderAt
      <4> QED BY <4>1, <4>2, <4>8
    <3>11. ListAt(k)'
      BY <1>2, <3>1, <3>9, <3>10 DEF ListAt
    <3> QED BY <3>8, <3>11 DEF ListInv
  <2> QED BY <2>1, <2>2
<1> QED BY <1>13, <1>14, <1>15, <1>16, <1>17, <1>18, <1>19 DEF SocketInv

-----------------------------------------------------------------------------
(* The invariant and what follows from it.                                 *)

\* The invariant holds when nothing is being written.
LEMMA SocketInit ==
    ASSUME Init
    PROVE  SocketInv
<1>1. \A a \in Agents : th[a] = Idle
  BY DEF Init
<1>2. Idle.pc = "idle" /\ Idle \in ThreadStates /\ Locals(Idle)
  BY DEF Idle, ThreadStates, Pointer, Locals
<1>3. Holders = {}
  BY <1>1, <1>2 DEF Holders
<1>4. Range(<<>>) = {} /\ <<>> \in Seq({})
  BY SmallRange
<1>5. TypeOK
  <2>1. 0 \in 0..Size
    BY SocketAssumption
  <2> QED BY <1>1, <1>2, <1>4, <2>1 DEF Init, TypeOK, Pointer, At
<1>6. QueueInv
  BY <1>1, <1>2 DEF Init, QueueInv, At
<1>7. OwnerInv /\ FreeInv /\ LinkInv /\ LocalsInv /\ ListInv
  BY <1>1, <1>2, <1>3 DEF Init, OwnerInv, FreeInv, LinkInv, LocalsInv, ListInv, At
<1> QED BY <1>5, <1>6, <1>7 DEF SocketInv

\* Every step and a stutter keep the invariant.
LEMMA SocketStep ==
    ASSUME SocketInv, [Next]_vars
    PROVE  SocketInv'
<1>1. ASSUME UNCHANGED vars PROVE SocketInv'
  <2>1. UNCHANGED <<head, next, data, busy, connecting, th, ready, order>>
    BY <1>1 DEF vars
  <2>2. TypeOK' /\ FreeInv' /\ LocalsInv'
    BY <2>1 DEF SocketInv, TypeOK, FreeInv, LocalsInv, At
  <2>3. QueueInv' /\ OwnerInv' /\ LinkInv'
    BY <2>1 DEF SocketInv, QueueInv, OwnerInv, LinkInv, Holders, At
  <2>4. ListInv'
    BY <2>1 DEF SocketInv, ListInv, ListAt, Holders, HolderAt, InHand, AsAdded, Reversing, SettingUp
  <2> QED BY <2>2, <2>3, <2>4 DEF SocketInv
<1>2. ASSUME NEW a \in Agents, Step(a) PROVE SocketInv'
  <2>1. CASE Link(a)
    BY <2>1, LinkKeeps
  <2>2. CASE ConnectIfNot(a)
    BY <2>2, ConnectIfNotKeeps
  <2>3. CASE WriteOnce(a)
    BY <2>3, WriteOnceKeeps
  <2>4. CASE StartKeepWrite(a)
    BY <2>4, StartKeepWriteKeeps
  <2>5. CASE Skip(a)
    BY <2>5, SkipKeeps
  <2>6. CASE Skimmed(a)
    BY <2>6, SkimmedKeeps
  <2>7. CASE WaitEpollOut(a)
    BY <2>7, WaitEpollOutKeeps
  <2>8. CASE CompareExchange(a)
    BY <2>8, CompareExchangeKeeps
  <2>9. CASE ReverseList(a)
    BY <2>9, ReverseListKeeps
  <2>10. CASE Setup(a)
    BY <2>10, SetupKeeps
  <2>11. CASE ReturnWriteRequest(a)
    BY <2>11, ReturnKeeps
  <2>12. CASE ReleaseFailed(a)
    BY <2>12, ReleaseFailedKeeps
  <2>13. CASE ClearLast(a)
    BY <2>13, ClearLastKeeps
  <2> QED BY <1>2, <2>1, <2>2, <2>3, <2>4, <2>5, <2>6, <2>7, <2>8, <2>9, <2>10, <2>11, <2>12,
             <2>13 DEF Step
<1>3. ASSUME NEW a \in Agents, Exchange(a) PROVE SocketInv'
  BY <1>3, ExchangeKeeps
<1>4. ASSUME NEW a \in Agents, KeepWriteIfConnected(a) PROVE SocketInv'
  BY <1>4, KeepWriteIfConnectedKeeps
<1>5. ASSUME NEW a \in Agents, Write(a) PROVE SocketInv'
  <2>1. PICK i \in 1..NReq, b \in 0..Size : DoWrite(a, i, b)
    BY <1>5 DEF Write
  <2> QED BY <2>1, DoWriteKeeps
<1>6. ASSUME NEW a \in Agents, FailToWrite(a) PROVE SocketInv'
  BY <1>6, DropKeeps DEF FailToWrite
<1> QED BY <1>1, <1>2, <1>3, <1>4, <1>5, <1>6 DEF Next

(***************************************************************************)
(* The requests are always a queue: those in the hands of the holder of    *)
(* the right, linked from the oldest on, and those that were exchanged     *)
(* since, each linked, or about to be linked, to the one before it.        *)
(***************************************************************************)
THEOREM SocketInvariant == Spec => []SocketInv
<1>1. Init => SocketInv
  BY SocketInit
<1>2. SocketInv /\ [Next]_vars => SocketInv'
  BY SocketStep
<1> QED BY <1>1, <1>2, PTL DEF Spec

(***************************************************************************)
(* At most one thread has the right to write, and exactly while            *)
(* _write_head is not NULL.                                                *)
(***************************************************************************)
THEOREM RightIsHeldOnce == Spec => []OneWriter
<1>1. SocketInv => OneWriter
  <2> SUFFICES ASSUME SocketInv PROVE OneWriter
    OBVIOUS
  <2>2. head = NULL <=> order = <<>>
    <3>1. order # <<>> => Len(order) \in 1..Len(order)
      BY QueueFacts DEF SocketInv
    <3>2. order # <<>> => order[Len(order)] \in Requests
      BY <3>1, QueueFacts DEF SocketInv
    <3> QED BY <3>2, SocketAssumption DEF SocketInv, QueueInv
  <2>3. CASE Holders = {}
    <3>1. connecting # NULL <=> head # NULL
      BY <2>2, <2>3 DEF SocketInv, OwnerInv
    <3> QED BY <2>3, <3>1, FS_EmptySet DEF OneWriter, SocketInv
  <2>4. CASE Holders # {}
    <3>1. PICK a \in Holders : TRUE
      BY <2>4
    <3>2. Holders = {a} /\ connecting = NULL /\ head # NULL
      BY <2>2, <3>1 DEF SocketInv, OwnerInv, Holders
    <3>3. Cardinality(Holders) = 1
      BY <3>2, FS_Singleton
    <3> QED BY <3>2, <3>3 DEF OneWriter, SocketInv
  <2> QED BY <2>3, <2>4
<1> QED BY <1>1, SocketInvariant, PTL

(***************************************************************************)
(* No thread uses a request that went back to the pool, neither in its     *)
(* local variables nor in the list it holds, and no two hold the same one. *)
(***************************************************************************)
THEOREM RequestsOutliveTheirUse == Spec => []NoUseAfterRelease
<1>1. SocketInv => NoUseAfterRelease
  <2> SUFFICES ASSUME SocketInv PROVE NoUseAfterRelease
    OBVIOUS
  <2>2. /\ Len(order) \in Nat
        /\ \A i \in 1..Len(order) : order[i] \in busy /\ order[i] \in Range(order)
        /\ \A i, j \in 1..Len(order) : order[i] = order[j] => i = j
        /\ \A r \in Range(order) : r \in busy
        /\ order = <<>> <=> Len(order) = 0
    BY QueueFacts DEF SocketInv, QueueInv
  <2>3. head \in busy \cup {NULL}
    <3>1. order # <<>> => Len(order) \in 1..Len(order)
      BY <2>2
    <3> QED BY <2>2, <3>1 DEF SocketInv, QueueInv
  <2>4. ASSUME NEW a \in Agents
        PROVE  {th[a].req, th[a].cur, th[a].new, th[a].p, th[a].tail} \subseteq busy \cup {NULL}
    <3>1. Locals(th[a])
      BY DEF SocketInv, LocalsInv
    <3>2. CASE th[a].pc = "idle"
      <4>1. th[a] = Idle
        BY <3>1, <3>2 DEF Locals
      <4> QED BY <4>1 DEF Idle
    <3>3. CASE th[a].pc = "link"
      <4>1. PICK i \in 2..Len(order) : th[a].req = order[i] /\ th[a].p = order[i - 1]
        BY <3>3 DEF SocketInv, LinkInv, At
      <4>2. i \in 1..Len(order) /\ i - 1 \in 1..Len(order)
        BY <2>2
      <4>3. th[a].cur = NULL /\ th[a].new = NULL /\ th[a].tail = NULL
        BY <3>1, <3>3 DEF Locals
      <4> QED BY <2>2, <4>1, <4>2, <4>3
    <3>4. CASE th[a].pc = "return"
      <4>1. th[a].req \in busy
        BY <3>4 DEF SocketInv, QueueInv, At
      <4>2. /\ th[a].cur \in {NULL, th[a].req}
            /\ th[a].new = NULL /\ th[a].tail = NULL /\ th[a].p = NULL
        BY <3>1, <3>4 DEF Locals
      <4> QED BY <4>1, <4>2
    <3>5. CASE a \in Holders
      <4>1. th[a].req \in busy
        BY <3>5, HolderFacts
      <4>2. PICK k \in 1..Len(order) : HolderAt(th[a], k)
        BY <3>5, HolderFacts
      <4>3. CASE th[a].pc = "reverse"
        <5>1. PICK m \in (k + 1)..Len(order) : \E j \in (k + 1)..m : Reversing(th[a], k, j, m)
          BY <4>2, <4>3 DEF HolderAt
        <5>2. PICK j \in (k + 1)..m : Reversing(th[a], k, j, m)
          BY <5>1
        <5>3. m \in 1..Len(order) /\ j \in 1..Len(order) /\ (j # m => j + 1 \in 1..Len(order))
          BY <2>2
        <5>4. /\ th[a].new = order[m] /\ th[a].p = order[j] /\ th[a].cur \in {NULL, order[k]}
              /\ th[a].tail = IF j = m THEN NULL ELSE order[j + 1]
          BY <4>2, <4>3, <5>2 DEF HolderAt, Reversing
        <5> QED BY <2>2, <4>1, <5>3, <5>4
      <4>4. CASE th[a].pc = "setup"
        <5>1. PICK i \in 2..k : SettingUp(th[a], k, i)
          BY <4>2, <4>4 DEF HolderAt
        <5>2. i \in 1..Len(order)
          BY <2>2
        <5> QED BY <2>2, <4>1, <5>1, <5>2 DEF SettingUp
      <4>5. CASE th[a].pc \notin {"reverse", "setup"}
        <5>1. th[a].new = NULL /\ th[a].tail = NULL /\ th[a].p = NULL
          BY <3>1, <3>5, <4>5 DEF Locals, Holders
        <5>2. th[a].cur \in {NULL, order[k]}
          BY <4>2, <4>5 DEF HolderAt
        <5> QED BY <2>2, <4>1, <5>1, <5>2
      <4> QED BY <4>3, <4>4, <4>5
    <3> QED BY <3>2, <3>3, <3>4, <3>5 DEF Holders
  <2>5. ASSUME NEW a \in Holders, th[a].pc # "connect"
        PROVE  \E l \in SeqOf(busy, NReq) : IsList(l, th[a].req)
    <3>1. a \in Agents
      BY DEF Holders
    <3>2. PICK k \in 1..Len(order) : HolderAt(th[a], k)
      BY <3>1, HolderFacts
    <3>3. InHand(k) /\ th[a].req = order[1]
      BY <2>5, <3>1, <3>2, HolderFacts DEF HolderAt
    <3> QED BY <3>3, ListInHand DEF SocketInv
  <2>6. ASSUME NEW a \in Agents, NEW b \in Agents, a # b, th[a].req = th[b].req
        PROVE  th[a].req = NULL
    <3>1. \A c \in Agents : th[c].pc = "idle" => th[c].req = NULL
      BY DEF SocketInv, LocalsInv, Locals, Idle
    <3>2. \A c \in Holders : th[c].req = order[1] /\ 1 \in 1..Len(order)
      BY <2>2 DEF SocketInv, OwnerInv
    <3>3. \A c \in Agents : th[c].pc = "link" => \E i \in 2..Len(order) : th[c].req = order[i]
      BY DEF SocketInv, LinkInv, At
    <3>4. \A c \in Agents : th[c].pc = "return" => th[c].req \notin Range(order)
      BY DEF SocketInv, QueueInv, At
    <3>5. CASE th[a].pc = "return" \/ th[b].pc = "return"
      <4>1. CASE th[a].pc = "return" /\ th[b].pc = "return"
        BY <2>6, <4>1 DEF SocketInv, QueueInv, At
      <4>2. \A c \in Agents : th[c].pc \notin {"idle", "return"} => th[c].req \in Range(order)
        <5>1. ASSUME NEW c \in Agents, th[c].pc = "link" PROVE th[c].req \in Range(order)
          <6>1. PICK i \in 2..Len(order) : th[c].req = order[i]
            BY <3>3, <5>1
          <6>2. i \in 1..Len(order)
            BY <2>2
          <6> QED BY <2>2, <6>1, <6>2
        <5> QED BY <2>2, <3>2, <5>1 DEF Holders
      <4> QED BY <2>6, <3>1, <3>4, <3>5, <4>1, <4>2
    <3>6. CASE th[a].pc = "link" \/ th[b].pc = "link"
      <4>1. CASE th[a].pc = "link" /\ th[b].pc = "link"
        BY <2>6, <4>1 DEF SocketInv, LinkInv, At
      <4>2. ASSUME NEW c \in Agents, NEW d \in Holders, th[c].pc = "link"
            PROVE  th[c].req # th[d].req
        <5>1. PICK i \in 2..Len(order) : th[c].req = order[i]
          BY <3>3, <4>2
        <5>2. i \in 1..Len(order) /\ i # 1
          BY <2>2
        <5> QED BY <2>2, <3>2, <5>1, <5>2
      <4> QED BY <2>6, <3>1, <3>5, <3>6, <4>1, <4>2 DEF Holders
    <3>7. CASE th[a].pc \notin {"link", "return"} /\ th[b].pc \notin {"link", "return"}
      <4>1. a \in Holders /\ b \in Holders => FALSE
        BY <2>6 DEF SocketInv, OwnerInv
      <4> QED BY <2>6, <3>1, <3>7, <4>1 DEF Holders
    <3> QED BY <3>5, <3>6, <3>7
  <2> QED BY <2>3, <2>4, <2>5, <2>6 DEF NoUseAfterRelease
<1> QED BY <1>1, SocketInvariant, PTL

(***************************************************************************)
(* The CHECKs of IsWriteComplete and KeepWrite hold.                       *)
(***************************************************************************)
THEOREM ChecksPass == Spec => []ChecksHold
<1>1. SocketInv => ChecksHold
  <2> SUFFICES ASSUME SocketInv, NEW a \in Agents
               PROVE  /\ At(a, "cas") => /\ next[OldHead(a)] = NULL
                                         /\ Last(List(th[a].req)) = OldHead(a)
                      /\ At(a, "reverse") => /\ th[a].new # OldHead(a)
                                             /\ next[OldHead(a)] = NULL
                                             /\ next[th[a].p] # NULL
    BY DEF ChecksHold
  <2>2. CASE th[a].pc \in {"cas", "reverse"}
    <3>1. a \in Holders
      BY <2>2 DEF Holders
    <3>2. PICK k \in 1..Len(order) : HolderAt(th[a], k)
      BY <3>1, HolderFacts
    <3>3. OldHead(a) = order[k] /\ InHand(k) /\ th[a].req = order[1]
      BY <2>2, <3>1, <3>2, OldHeadFacts, HolderFacts
    <3>4. next[OldHead(a)] = NULL /\ Last(List(th[a].req)) = OldHead(a)
      BY <3>3, ListInHand DEF SocketInv, InHand
    <3>5. ASSUME th[a].pc = "reverse"
          PROVE  th[a].new # OldHead(a) /\ next[th[a].p] # NULL
      <4>1. PICK m \in (k + 1)..Len(order) : \E j \in (k + 1)..m : Reversing(th[a], k, j, m)
        BY <3>2, <3>5 DEF HolderAt
      <4>2. PICK j \in (k + 1)..m : Reversing(th[a], k, j, m)
        BY <4>1
      <4>3. /\ Len(order) \in Nat /\ m \in 1..Len(order) /\ j - 1 \in 1..Len(order) /\ m # k
            /\ j \in (k + 1)..j
        BY QueueFacts DEF SocketInv
      <4>4. th[a].new = order[m] /\ th[a].p = order[j] /\ AsAdded(j)
        BY <4>2, <4>3 DEF Reversing
      <4>5. order[m] # order[k]
        BY <4>3 DEF SocketInv, QueueInv
      <4>6. next[order[j]] # NULL
        <5>1. order[j - 1] \in Requests
          BY <4>3, QueueFacts DEF SocketInv
        <5> QED BY <4>4, <5>1, SocketAssumption DEF AsAdded
      <4> QED BY <3>3, <4>4, <4>5, <4>6
    <3> QED BY <3>4, <3>5 DEF At
  <2> QED BY <2>2 DEF At
<1> QED BY <1>1, SocketInvariant, PTL

-----------------------------------------------------------------------------
(* While the connection is good.                                           *)

\* Whether the connection failed depends on the holder alone.
LEMMA HolderFails ==
    ASSUME SocketInv, NEW a \in Agents, a \in Holders, NEW r, Go(a, r),
           r.pc \notin {"idle", "link", "return"}
    PROVE  /\ th'[a] = r /\ Holders' = {a} /\ Holders = {a}
           /\ \A b \in Agents : b # a => th'[b] = th[b]
           /\ Failing <=> th[a].pc = "drop" \/ th[a].from = "fail"
           /\ Failing' <=> r.pc = "drop" \/ r.from = "fail"
<1>1. Holders = {a}
  BY HolderFacts
<1>2. th'[a] = r /\ \A b \in Agents : b # a => th'[b] = th[b]
  BY DEF Go, SocketInv, TypeOK
<1>3. Holders' = {a}
  BY <1>1, <1>2 DEF Holders
<1>4. Failing <=> th[a].pc = "drop" \/ th[a].from = "fail"
  BY <1>1 DEF Failing, At
<1>5. Failing' <=> r.pc = "drop" \/ r.from = "fail"
  BY <1>2, <1>3 DEF Failing, At
<1> QED BY <1>1, <1>2, <1>3, <1>4, <1>5

\* Other threads do not change it.
LEMMA OthersDoNotFail ==
    ASSUME SocketInv, NEW a \in Agents, a \notin Holders, NEW r, Go(a, r),
           r.pc \in {"idle", "link", "return"}
    PROVE  /\ th'[a] = r /\ Holders' = Holders
           /\ \A b \in Agents : b # a => th'[b] = th[b]
           /\ \A b \in Holders : th'[b] = th[b]
           /\ Failing' <=> Failing
<1>1. th'[a] = r /\ \A b \in Agents : b # a => th'[b] = th[b]
  BY DEF Go, SocketInv, TypeOK
<1>2. Holders' = Holders
  BY <1>1 DEF Holders
<1>3. \A b \in Holders : th'[b] = th[b]
  BY <1>1 DEF Holders
<1>4. Failing' <=> Failing
  BY <1>2, <1>3 DEF Failing, At
<1> QED BY <1>1, <1>2, <1>3, <1>4

\* Without a holder nothing fails.
LEMMA NobodyFails ==
    ASSUME SocketInv, Holders = {}
    PROVE  ~Failing
  BY DEF Failing

\* The first request in hand is set up, unless the connection is still to come.
LEMMA InHandIsReady ==
    ASSUME SocketInv, ReadyInv, ~Failing, NEW a \in Holders,
           th[a].pc \notin {"connect", "setup"}, NEW k \in 1..Len(order), HolderAt(th[a], k)
    PROVE  ReadyUpTo(k) /\ InHand(k)
  BY DEF ReadyInv, ReadyFor, HolderAt

\* Steps of the holder that neither set up a request nor change the queue.
LEMMA ReadyKept ==
    ASSUME SocketInv, ReadyInv, ~Failing, NEW a \in Agents, a \in Holders,
           th[a].pc \notin {"connect", "setup"},
           UNCHANGED <<next, ready, order>>, connecting' = NULL,
           \A i \in 1..Len(order) : order[i] \notin ready => data'[order[i]] = data[order[i]],
           \A b \in Agents : b \in Holders' => th'[b].pc \notin {"connect", "setup"}
    PROVE  ReadyInv'
<1>1. /\ \A i \in 1..Len(order) : order[i] \notin ready => data[order[i]] = Size
      /\ \A k \in 1..Len(order) : InHand(k) => ReadyUpTo(k)
  BY DEF ReadyInv, ReadyFor
<1>2. /\ \A k : InHand(k)' <=> InHand(k)
      /\ \A k : ReadyUpTo(k)' <=> ReadyUpTo(k)
  BY DEF InHand, ReadyUpTo
<1>3. ASSUME NEW b \in Agents, b \in Holders' PROVE ReadyFor(th[b])'
  BY <1>1, <1>2, <1>3 DEF ReadyFor
<1> QED BY <1>1, <1>3 DEF ReadyInv, Holders

\* StartWrite writes once before it leaves the rest to KeepWrite.
LEMMA WriteOnceReady ==
    ASSUME SocketInv, ReadyInv, NEW a \in Agents, WriteOnce(a), ~Failing'
    PROVE  ReadyInv'
<1>1. a \in Holders /\ th[a].pc = "once"
  BY DEF WriteOnce, Holders, At
<1>2. /\ th[a] \in ThreadStates /\ Locals(th[a]) /\ th[a].req = order[1] /\ connecting = NULL
      /\ th[a].req \in Requests
  BY <1>1, HolderFacts
<1>3. ~Go(a, To(a, "drop"))
  <2>1. PICK r : r = To(a, "drop")
    OBVIOUS
  <2>2. r.pc = "drop"
    BY <1>2, <2>1 DEF To, ThreadStates
  <2> QED BY <1>1, <2>1, <2>2, HolderFails
<1>4. PICK n \in 0..data[th[a].req] :
         data' = [data EXCEPT ![th[a].req] = @ - n] /\ Go(a, To(a, "cas"))
  BY <1>3 DEF WriteOnce
<1>5. PICK r : r = To(a, "cas")
  OBVIOUS
<1>6. r.pc = "cas"
  BY <1>2, <1>5 DEF To, ThreadStates
<1>7. ~Failing /\ th'[a] = r /\ Holders' = {a}
  <2>1. th[a].from = "once"
    BY <1>1, <1>2 DEF Locals
  <2> QED BY <1>1, <1>4, <1>5, <1>6, <2>1, HolderFails
<1>8. order[1] \in ready
  <2>1. PICK k \in 1..Len(order) : HolderAt(th[a], k)
    BY <1>1, HolderFacts
  <2>2. ReadyUpTo(k)
    BY <1>1, <1>7, <2>1, InHandIsReady
  <2>3. 1 \in 1..Len(order) /\ 1 <= k
    BY QueueFacts DEF SocketInv
  <2> QED BY <2>2, <2>3 DEF ReadyUpTo
<1>9. \A i \in 1..Len(order) : order[i] \notin ready => data'[order[i]] = data[order[i]]
  <2>1. \A x \in Requests : x # order[1] => data'[x] = data[x]
    BY <1>2, <1>4 DEF SocketInv, TypeOK
  <2> QED BY <1>8, <2>1, QueueFacts DEF SocketInv
<1>10. UNCHANGED <<next, ready, order, connecting>>
  BY DEF WriteOnce
<1> QED BY <1>1, <1>2, <1>6, <1>7, <1>9, <1>10, ReadyKept

\* StartWrite starts a KeepWrite bthread for what is left.
LEMMA StartKeepWriteReady ==
    ASSUME SocketInv, ReadyInv, NEW a \in Agents, StartKeepWrite(a)
    PROVE  ReadyInv'
<1>1. a \in Holders /\ th[a].pc = "background"
  BY DEF StartKeepWrite, Holders, At
<1>2. /\ th[a] \in ThreadStates /\ Locals(th[a]) /\ connecting = NULL /\ Holders = {a}
  BY <1>1, HolderFacts
<1>3. ~Failing
  BY <1>1, <1>2 DEF Failing, Locals, At
<1>4. PICK r : r = [Idle EXCEPT !.pc = "keep", !.req = th[a].req, !.from = "keep"]
  OBVIOUS
<1>5. r.pc = "keep" /\ Idle.pc = "idle"
  BY <1>4 DEF Idle
<1>6. \A b \in Agents : b \in Holders' => th'[b].pc \notin {"connect", "setup"}
  <2>1. CASE Go(a, r)
    BY <1>2, <1>5, <2>1 DEF Go, Holders, SocketInv, TypeOK
  <2>2. ASSUME NEW k \in Keepers, th' = [th EXCEPT ![k] = r, ![a] = Idle]
        PROVE  \A b \in Agents : b \in Holders' => th'[b].pc \notin {"connect", "setup"}
    BY <1>2, <1>5, <2>2 DEF Holders, SocketInv, TypeOK
  <2> QED BY <1>4, <2>1, <2>2 DEF StartKeepWrite
<1>7. UNCHANGED <<next, data, ready, order, connecting>>
  BY DEF StartKeepWrite
<1> QED BY <1>1, <1>2, <1>3, <1>6, <1>7, ReadyKept

\* What is written is in hand.
LEMMA WrittenIsInHand ==
    ASSUME SocketInv, NEW a \in Agents, NEW i \in 1..NReq, NEW b \in 0..Size, DoWrite(a, i, b),
           NEW k \in 1..Len(order), HolderAt(th[a], k)
    PROVE  /\ i \in 1..k /\ b <= data[order[i]]
           /\ \A j \in 1..Len(order) :
                 data'[order[j]] = IF j < i THEN 0 ELSE IF j = i THEN data[order[i]] - b
                                   ELSE data[order[j]]
<1>1. a \in Holders /\ th[a].pc \in {"write", "keep"}
  BY DEF DoWrite, Holders, At
<1>2. th[a].req = order[1] /\ InHand(k)
  BY <1>1, HolderFacts DEF HolderAt
<1>3. PICK l : l = List(th[a].req) /\ Len(l) = k /\ \A j \in 1..k : l[j] = order[j]
  BY <1>2, ListInHand DEF SocketInv
<1>4. data' = Cut(l, i, b) /\ i <= Len(l) /\ b <= data[l[i]]
  BY <1>3 DEF DoWrite
<1>5. /\ Len(order) \in Nat /\ \A j \in 1..Len(order) : order[j] \in Requests
      /\ \A j, m \in 1..Len(order) : order[j] = order[m] => j = m
  BY QueueFacts DEF SocketInv, QueueInv
<1>6. i \in 1..k /\ l[i] = order[i]
  BY <1>3, <1>4
<1>7. ASSUME NEW j \in 1..Len(order)
      PROVE  data'[order[j]] = IF j < i THEN 0 ELSE IF j = i THEN data[order[i]] - b
                               ELSE data[order[j]]
  <2>1. order[j] \in Requests
    BY <1>5
  <2>2. data'[order[j]] = IF \E m \in 1..(i - 1) : l[m] = order[j] THEN 0
                          ELSE IF l[i] = order[j] THEN data[order[j]] - b ELSE data[order[j]]
    BY <1>4, <2>1 DEF Cut
  <2>3. \A m \in 1..(i - 1) : m \in 1..k /\ m \in 1..Len(order) /\ m < i
    BY <1>5, <1>6
  <2>4. (\E m \in 1..(i - 1) : l[m] = order[j]) <=> j < i
    <3>1. ASSUME NEW m \in 1..(i - 1), l[m] = order[j] PROVE j < i
      <4>1. order[m] = order[j] /\ m \in 1..Len(order) /\ m < i
        BY <1>3, <2>3, <3>1
      <4> QED BY <1>5, <4>1
    <3>2. ASSUME j < i PROVE \E m \in 1..(i - 1) : l[m] = order[j]
      <4>1. j \in 1..(i - 1)
        BY <3>2
      <4> QED BY <1>3, <2>3, <4>1
    <3> QED BY <3>1, <3>2
  <2>5. l[i] = order[j] <=> j = i
    <3>1. i \in 1..Len(order)
      BY <1>5, <1>6
    <3> QED BY <1>5, <1>6, <3>1
  <2> QED BY <2>2, <2>4, <2>5
<1> QED BY <1>4, <1>6, <1>7

\* DoWrite sends some bytes of the batch.
LEMMA DoWriteReady ==
    ASSUME SocketInv, ReadyInv, NEW a \in Agents, NEW i \in 1..NReq, NEW b \in 0..Size,
           DoWrite(a, i, b)
    PROVE  ReadyInv'
<1>1. a \in Holders /\ th[a].pc \in {"write", "keep"}
  BY DEF DoWrite, Holders, At
<1>2. th[a] \in ThreadStates /\ Locals(th[a]) /\ connecting = NULL
  BY <1>1, HolderFacts
<1>3. PICK k \in 1..Len(order) : HolderAt(th[a], k)
  BY <1>1, HolderFacts
<1>4. PICK r : r = [th[a] EXCEPT !.pc = "skim", !.nw = data' # data]
  OBVIOUS
<1>5. r.pc = "skim"
  BY <1>2, <1>4 DEF ThreadStates
<1>6. ~Failing /\ th'[a] = r /\ Holders' = {a}
  <2>1. th[a].from = "keep" /\ Go(a, r)
    BY <1>1, <1>2, <1>4 DEF Locals, DoWrite
  <2> QED BY <1>1, <1>5, <2>1, HolderFails
<1>7. ReadyUpTo(k)
  BY <1>1, <1>3, <1>6, InHandIsReady
<1>8. \A j \in 1..Len(order) : order[j] \notin ready => data'[order[j]] = data[order[j]]
  <2>1. \A j \in 1..Len(order) : order[j] \notin ready => j > k
    BY <1>7, QueueFacts DEF SocketInv, ReadyUpTo
  <2> QED BY <1>3, <2>1, WrittenIsInHand
<1>9. UNCHANGED <<next, ready, order, connecting>>
  BY DEF DoWrite
<1> QED BY <1>1, <1>2, <1>5, <1>6, <1>8, <1>9, ReadyKept

\* The steps of KeepWrite and IsWriteComplete that change nothing but the thread.
LEMMA StaysReady ==
    ASSUME SocketInv, ReadyInv, NEW a \in Agents, th[a].pc \in {"skim", "poll", "cas"}, NEW r, Go(a, r),
           r.pc \notin {"idle", "link", "return", "connect", "setup"},
           r.from = th[a].from,
           UNCHANGED <<next, data, ready, order, connecting>>, ~Failing'
    PROVE  ReadyInv'
<1>1. a \in Holders
  BY DEF Holders
<1>2. connecting = NULL
  BY <1>1, HolderFacts
<1>3. ~Failing /\ th'[a] = r /\ Holders' = {a}
  BY <1>1, HolderFails
<1> QED BY <1>1, <1>2, <1>3, ReadyKept

\* StartWrite puts its request at _write_head.
LEMMA ExchangeReady ==
    ASSUME SocketInv, ReadyInv, NEW a \in Agents, Exchange(a), ~Failing'
    PROVE  ReadyInv'
<1>1. PICK x \in Requests \ busy :
         /\ data' = [data EXCEPT ![x] = Size]
         /\ \A i \in 1..Len(order) : order[i] # x
         /\ Len(order') = Len(order) + 1
         /\ \A i \in 1..Len(order) : order'[i] = order[i]
         /\ order'[Len(order) + 1] = x
         /\ Go(a, [Idle EXCEPT !.pc = IF head = NULL THEN "connect" ELSE "link",
                               !.req = x, !.p = head])
  BY ExchangeFacts
<1>2. th[a].pc = "idle" /\ UNCHANGED <<next, connecting, ready>> /\ a \notin Holders
  BY DEF Exchange, At, Holders
<1>3. /\ Len(order) \in Nat /\ x \notin ready /\ next[x] = UNCONNECTED /\ UNCONNECTED # NULL
      /\ \A i \in 1..Len(order) : order[i] \in Requests
      /\ head = NULL <=> order = <<>>
      /\ order = <<>> <=> Len(order) = 0
  <2>1. /\ Len(order) \in Nat /\ \A i \in 1..Len(order) : order[i] \in Requests
        /\ order = <<>> <=> Len(order) = 0
        /\ order # <<>> => Len(order) \in 1..Len(order)
    BY QueueFacts DEF SocketInv
  <2>2. x \notin ready /\ next[x] = UNCONNECTED
    BY DEF SocketInv, TypeOK, FreeInv
  <2> QED BY <2>1, <2>2, SocketAssumption DEF SocketInv, QueueInv
<1>4. PICK r : r = [Idle EXCEPT !.pc = IF head = NULL THEN "connect" ELSE "link",
                                !.req = x, !.p = head]
  OBVIOUS
<1>5. /\ r.pc = IF head = NULL THEN "connect" ELSE "link"
      /\ r.from = "once" /\ th'[a] = r /\ \A b \in Agents : b # a => th'[b] = th[b]
  BY <1>1, <1>4 DEF Idle, Go, SocketInv, TypeOK
<1>6. PICK m \in Nat : m = Len(order) + 1
  BY <1>3
<1>7. \A i \in 1..Len(order') : i = m \/ i \in 1..Len(order)
  BY <1>1, <1>3, <1>6
<1>8. ASSUME NEW n \in Nat, n <= Len(order), ReadyUpTo(n) PROVE ReadyUpTo(n)'
  <2>1. ASSUME NEW i \in 1..Len(order') PROVE order'[i] \in ready <=> i <= n
    <3>1. CASE i = m
      BY <1>1, <1>3, <1>6, <1>8, <3>1
    <3>2. CASE i \in 1..Len(order)
      BY <1>1, <1>8, <3>2 DEF ReadyUpTo
    <3> QED BY <1>7, <3>1, <3>2
  <2> QED BY <1>2, <2>1 DEF ReadyUpTo
<1>9. CASE head = NULL
  <2>1. Holders = {} /\ connecting = NULL /\ Len(order) = 0
    BY <1>3, <1>9 DEF SocketInv, OwnerInv
  <2>2. ReadyUpTo(0)
    BY <2>1 DEF ReadyUpTo
  <2>3. ReadyUpTo(0)'
    BY <1>8, <2>1, <2>2
  <2>4. Holders' = {a}
    BY <1>5, <1>9, <2>1 DEF Holders
  <2>5. ReadyFor(th[a])'
    BY <1>5, <1>9, <2>3 DEF ReadyFor
  <2>6. \A i \in 1..Len(order') : data'[order'[i]] = Size
    BY <1>1, <1>6, <1>7, <2>1 DEF SocketInv, TypeOK
  <2> QED BY <1>2, <2>1, <2>4, <2>5, <2>6 DEF ReadyInv
<1>10. CASE head # NULL
  <2>1. r.pc = "link" /\ Go(a, r)
    BY <1>1, <1>4, <1>5, <1>10
  <2>2. Holders' = Holders /\ (\A b \in Holders : th'[b] = th[b]) /\ ~Failing
    BY <1>2, <2>1, OthersDoNotFail
  <2>3. ASSUME NEW i \in 1..Len(order'), order'[i] \notin ready PROVE data'[order'[i]] = Size
    <3>1. CASE i = m
      BY <1>1, <1>6, <3>1 DEF SocketInv, TypeOK
    <3>2. CASE i \in 1..Len(order)
      <4>1. data[order[i]] = Size
        BY <1>1, <2>2, <2>3, <3>2 DEF ReadyInv
      <4> QED BY <1>1, <1>3, <3>2, <4>1 DEF SocketInv, TypeOK
    <3> QED BY <1>7, <3>1, <3>2
  <2>4. connecting # NULL => ReadyUpTo(0)'
    BY <1>3, <1>8, <2>2 DEF ReadyInv
  <2>5. ASSUME NEW b \in Holders PROVE ReadyFor(th[b])'
    <3>1. PICK s : s = th[b] /\ s = th'[b] /\ ReadyFor(s)
      BY <2>2 DEF ReadyInv
    <3>2. s.pc = "connect" => ReadyUpTo(0)'
      BY <1>3, <1>8, <3>1 DEF ReadyFor
    <3>3. ASSUME s.pc = "setup", NEW j \in 1..Len(order'), s.p = order'[j] PROVE ReadyUpTo(j - 1)'
      <4>1. j # m
        <5>1. b \in Agents
          BY DEF Holders
        <5>2. PICK k \in 1..Len(order) : HolderAt(th[b], k)
          BY <5>1, HolderFacts
        <5>3. PICK i \in 2..k : s.p = order[i]
          BY <3>1, <3>3, <5>2 DEF HolderAt, SettingUp
        <5>4. i \in 1..Len(order)
          BY <1>3
        <5> QED BY <1>1, <1>6, <3>3, <5>3, <5>4
      <4>2. j \in 1..Len(order)
        BY <1>7, <4>1
      <4>3. ReadyUpTo(j - 1)
        BY <1>1, <3>1, <3>3, <4>2 DEF ReadyFor
      <4>4. PICK n \in Nat : n = j - 1 /\ n <= Len(order)
        BY <1>3, <4>2
      <4>5. ReadyUpTo(n)'
        BY <1>8, <4>3, <4>4
      <4> QED BY <4>4, <4>5
    <3>4. ASSUME s.pc \notin {"connect", "setup"}, NEW k \in 1..Len(order'), InHand(k)'
          PROVE  ReadyUpTo(k)'
      <4>1. k # m
        BY <1>1, <1>2, <1>3, <1>6, <3>4 DEF InHand
      <4>2. k \in 1..Len(order) /\ k \in Nat /\ k <= Len(order)
        BY <1>3, <1>7, <4>1
      <4>3. InHand(k)
        <5>1. \A j \in 1..(k - 1) : j \in 1..Len(order) /\ j + 1 \in 1..Len(order)
          BY <1>3, <4>2
        <5> QED BY <1>1, <1>2, <3>4, <4>2, <5>1 DEF InHand
      <4>4. ReadyUpTo(k)
        BY <3>1, <3>4, <4>2, <4>3 DEF ReadyFor
      <4> QED BY <1>8, <4>2, <4>4
    <3>5. ReadyFor(s)'
      BY <3>2, <3>3, <3>4 DEF ReadyFor
    <3> QED BY <3>1, <3>5
  <2> QED BY <1>2, <2>2, <2>3, <2>4, <2>5 DEF ReadyInv
<1> QED BY <1>9, <1>10

\* Threads without the right that leave the requests of the queue as they are.
LEMMA OthersReady ==
    ASSUME SocketInv, ReadyInv, ~Failing', NEW a \in Agents, a \notin Holders, Go(a, Idle),
           UNCHANGED <<order, connecting>>,
           \A i \in 1..Len(order) : /\ order[i] \in ready' <=> order[i] \in ready
                                    /\ data'[order[i]] = data[order[i]],
           \A k \in 1..Len(order) : InHand(k)' => InHand(k)
    PROVE  ReadyInv'
<1>1. Idle.pc = "idle"
  BY DEF Idle
<1>2. Holders' = Holders /\ (\A b \in Holders : th'[b] = th[b]) /\ ~Failing
  BY <1>1, OthersDoNotFail
<1>3. \A n : ReadyUpTo(n) => ReadyUpTo(n)'
  BY DEF ReadyUpTo
<1>4. ASSUME NEW b \in Holders PROVE ReadyFor(th[b])'
  <2>1. PICK s : s = th[b] /\ s = th'[b] /\ ReadyFor(s)
    BY <1>2 DEF ReadyInv
  <2>2. ASSUME NEW j \in 1..Len(order), ReadyUpTo(j - 1) PROVE ReadyUpTo(j - 1)'
    BY <1>3, <2>2
  <2>3. ReadyFor(s)'
    BY <1>3, <2>1, <2>2 DEF ReadyFor
  <2> QED BY <2>1, <2>3
<1>5. connecting # NULL => ReadyUpTo(0)'
  BY <1>2, <1>3 DEF ReadyInv
<1>6. \A i \in 1..Len(order') : order'[i] \notin ready' => data'[order'[i]] = Size
  BY <1>2 DEF ReadyInv
<1> QED BY <1>2, <1>4, <1>5, <1>6 DEF ReadyInv

\* StartWrite links its request to the earlier one.
LEMMA LinkReady ==
    ASSUME SocketInv, ReadyInv, NEW a \in Agents, Link(a), ~Failing'
    PROVE  ReadyInv'
<1>1. /\ a \notin Holders /\ Go(a, Idle)
      /\ next' = [next EXCEPT ![th[a].req] = th[a].p]
      /\ UNCHANGED <<head, data, busy, connecting, ready, order>>
  BY DEF Link, At, Holders
<1>2. PICK i \in 2..Len(order) : /\ th[a].req = order[i] /\ th[a].p = order[i - 1]
                                 /\ next[order[i]] = UNCONNECTED
  BY DEF SocketInv, LinkInv, Link
<1>3. /\ Len(order) \in Nat
      /\ \A j \in 1..Len(order) : order[j] \in Requests
      /\ \A j, m \in 1..Len(order) : order[j] = order[m] => j = m
      /\ NULL \notin Requests
  BY QueueFacts, SocketAssumption DEF SocketInv, QueueInv
<1>4. i \in 1..Len(order) /\ i - 1 \in 1..Len(order)
  BY <1>2, <1>3
<1>5. /\ next'[order[i]] = order[i - 1]
      /\ \A j \in 1..Len(order) : j # i => next'[order[j]] = next[order[j]]
  BY <1>1, <1>2, <1>3, <1>4 DEF SocketInv, TypeOK
<1>6. ASSUME NEW k \in 1..Len(order), InHand(k)' PROVE InHand(k)
  <2>1. ~(i < k)
    <3>1. SUFFICES ASSUME i < k PROVE FALSE
      OBVIOUS
    <3>2. i \in 1..(k - 1) /\ i + 1 \in 1..Len(order) /\ i - 1 # i + 1
      BY <1>3, <1>4, <3>1
    <3>3. next'[order[i]] = order[i + 1]
      BY <1>1, <1>6, <3>2 DEF InHand
    <3> QED BY <1>3, <1>4, <1>5, <3>2, <3>3
  <2>2. i # k
    BY <1>1, <1>3, <1>4, <1>5, <1>6 DEF InHand
  <2>3. \A j \in 1..k : j \in 1..Len(order) /\ j # i
    BY <1>3, <2>1, <2>2
  <2>4. \A j \in 1..(k - 1) : j \in 1..k
    BY <1>3
  <2>5. k \in 1..k
    BY <1>3
  <2> QED BY <1>1, <1>5, <1>6, <2>3, <2>4, <2>5 DEF InHand
<1> QED BY <1>1, <1>6, OthersReady

\* A request that was sent goes back to its pool.
LEMMA ReturnReady ==
    ASSUME SocketInv, ReadyInv, NEW a \in Agents, ReturnWriteRequest(a), ~Failing'
    PROVE  ReadyInv'
<1>1. th[a].pc = "return" /\ Go(a, Idle) /\ UNCHANGED <<head, connecting>> /\ a \notin Holders
  BY DEF ReturnWriteRequest, At, Holders
<1>2. PICK x \in busy : x = th[a].req /\ x \notin Range(order) /\ x \in Requests
  BY <1>1 DEF SocketInv, QueueInv, TypeOK, At
<1>3. /\ order \in Seq(busy) /\ Len(order) \in Nat
      /\ \A i \in 1..Len(order) : order[i] \in busy /\ order[i] \in Requests /\ order[i] # x
      /\ \A i, j \in 1..Len(order) : order[i] = order[j] => i = j
  BY <1>2, QueueFacts DEF SocketInv, QueueInv
<1>4. order' = order
  BY <1>2, <1>3, FirstRemoved DEF ReturnWriteRequest, Release
<1>5. /\ ready' = ready \ {x}
      /\ next' = [next EXCEPT ![x] = UNCONNECTED] /\ data' = [data EXCEPT ![x] = 0]
  BY <1>2 DEF ReturnWriteRequest, Release
<1>6. \A i \in 1..Len(order) : /\ next'[order[i]] = next[order[i]]
                               /\ data'[order[i]] = data[order[i]]
                               /\ order[i] \in ready' <=> order[i] \in ready
  BY <1>3, <1>5 DEF SocketInv, TypeOK
<1>7. ASSUME NEW k \in 1..Len(order), InHand(k)' PROVE InHand(k)
  <2>1. \A j \in 1..(k - 1) : j \in 1..Len(order)
    BY <1>3
  <2> QED BY <1>4, <1>6, <1>7, <2>1 DEF InHand
<1> QED BY <1>1, <1>4, <1>6, <1>7, OthersReady

\* One more request is set up.
LEMMA NextIsReady ==
    ASSUME SocketInv, NEW n \in 1..Len(order), ReadyUpTo(n - 1), ready' = ready \cup {order[n]},
           order' = order
    PROVE  ReadyUpTo(n)'
<1>1. /\ Len(order) \in Nat /\ \A i, j \in 1..Len(order) : order[i] = order[j] => i = j
  BY QueueFacts DEF SocketInv, QueueInv
<1>2. ASSUME NEW i \in 1..Len(order) PROVE order[i] \in ready' <=> i <= n
  <2>1. order[i] \in ready <=> i <= n - 1
    BY DEF ReadyUpTo
  <2>2. order[i] = order[n] <=> i = n
    BY <1>1
  <2> QED BY <1>1, <2>1, <2>2
<1> QED BY <1>2 DEF ReadyUpTo

\* ConnectIfNot starts a connection or finds one.
LEMMA ConnectIfNotReady ==
    ASSUME SocketInv, ReadyInv, NEW a \in Agents, ConnectIfNot(a), ~Failing'
    PROVE  ReadyInv'
<1>1. a \in Holders /\ th[a].pc = "connect"
  BY DEF ConnectIfNot, Holders, At
<1>2. /\ th[a] \in ThreadStates /\ Locals(th[a]) /\ th[a].req = order[1] /\ order # <<>>
      /\ th[a].req \in Requests /\ Holders = {a} /\ connecting = NULL
  BY <1>1, HolderFacts
<1>3. ~Failing
  BY <1>1, <1>2 DEF Failing, Locals, At
<1>4. /\ ReadyUpTo(0)
      /\ \A i \in 1..Len(order) : order[i] \notin ready => data[order[i]] = Size
  BY <1>1, <1>3 DEF ReadyInv, ReadyFor
<1>5. /\ Len(order) \in Nat /\ 1 \in 1..Len(order)
      /\ \A i \in 1..Len(order) : order[i] \in Requests
      /\ NULL \notin Requests
  BY <1>2, QueueFacts, SocketAssumption DEF SocketInv
<1>6. next'[order[1]] = NULL /\ UNCHANGED <<data, order>>
  BY <1>2 DEF ConnectIfNot, SocketInv, TypeOK
<1>7. CASE connecting' = th[a].req /\ Go(a, Idle) /\ UNCHANGED ready
  <2>1. Holders' = {}
    BY <1>2, <1>7 DEF Holders, Go, Idle, SocketInv, TypeOK
  <2>2. ReadyUpTo(0)'
    BY <1>4, <1>6, <1>7 DEF ReadyUpTo
  <2> QED BY <1>4, <1>6, <1>7, <2>1, <2>2 DEF ReadyInv
<1>8. ASSUME NEW q \in {"once", "background"}, Go(a, To(a, q)),
             ready' = ready \cup {th[a].req}, UNCHANGED connecting
      PROVE  ReadyInv'
  <2>1. PICK r : r = To(a, q) /\ r.pc = q
    <3>1. PICK r : r = To(a, q)
      OBVIOUS
    <3>2. th[a] \in ThreadStates
      BY <1>2
    <3>3. r.pc = q
      BY <3>1, <3>2 DEF To, ThreadStates
    <3> QED BY <3>1, <3>3
  <2>2. th'[a] = r /\ Holders' = {a}
    BY <1>1, <1>8, <2>1, HolderFails
  <2>3. ReadyUpTo(1)'
    BY <1>2, <1>4, <1>5, <1>6, <1>8, NextIsReady
  <2>4. ASSUME NEW k \in 1..Len(order), InHand(k)' PROVE k = 1
    <3>1. SUFFICES ASSUME k # 1 PROVE FALSE
      OBVIOUS
    <3>2. 1 \in 1..(k - 1) /\ 2 \in 1..Len(order)
      BY <1>5, <3>1
    <3> QED BY <1>5, <1>6, <2>4, <3>2 DEF InHand
  <2>5. ReadyFor(r)'
    BY <1>6, <2>1, <2>3, <2>4 DEF ReadyFor
  <2>6. \A i \in 1..Len(order) : order[i] \notin ready' => data[order[i]] = Size
    BY <1>4, <1>8
  <2> QED BY <1>2, <1>6, <1>8, <2>2, <2>5, <2>6 DEF ReadyInv
<1>9. ASSUME Go(a, To(a, "drop")) PROVE FALSE
  <2>1. PICK r : r = To(a, "drop")
    OBVIOUS
  <2>2. r.pc = "drop"
    BY <1>2, <2>1 DEF To, ThreadStates
  <2> QED BY <1>1, <1>9, <2>1, <2>2, HolderFails
<1> QED BY <1>7, <1>8, <1>9 DEF ConnectIfNot

\* KeepWriteIfConnected runs when the connection is made.
LEMMA KeepWriteIfConnectedReady ==
    ASSUME SocketInv, ReadyInv, NEW a \in Agents, KeepWriteIfConnected(a), ~Failing'
    PROVE  ReadyInv'
<1>1. /\ th[a].pc = "idle" /\ connecting # NULL /\ connecting' = NULL
      /\ UNCHANGED <<head, next, data, busy, order>>
  BY DEF KeepWriteIfConnected, At
<1>2. /\ order # <<>> /\ connecting = order[1] /\ Holders = {} /\ ~Failing
  BY <1>1, NobodyFails DEF SocketInv, OwnerInv
<1>3. 1 \in 1..Len(order) /\ InHand(1)
  BY <1>1, <1>2, QueueFacts DEF SocketInv, ListInv, ListAt
<1>4. /\ ReadyUpTo(0)
      /\ \A i \in 1..Len(order) : order[i] \notin ready => data[order[i]] = Size
  BY <1>1, <1>2 DEF ReadyInv
<1>5. ASSUME NEW r, Go(a, r), r.pc \in {"keep", "drop"}
      PROVE  th'[a] = r /\ Holders' = {a}
  BY <1>2, <1>5 DEF Go, Holders, SocketInv, TypeOK
<1>6. CASE /\ Go(a, [Idle EXCEPT !.pc = "keep", !.req = connecting, !.from = "keep"])
           /\ ready' = ready \cup {connecting}
  <2>1. PICK r : r = [Idle EXCEPT !.pc = "keep", !.req = connecting, !.from = "keep"]
    OBVIOUS
  <2>2. th'[a] = r /\ Holders' = {a} /\ r.pc = "keep"
    <3>1. r.pc = "keep"
      BY <2>1 DEF Idle
    <3> QED BY <1>5, <1>6, <2>1, <3>1
  <2>3. ReadyUpTo(1)'
    BY <1>1, <1>2, <1>3, <1>4, <1>6, NextIsReady
  <2>4. ASSUME NEW k \in 1..Len(order), InHand(k)' PROVE k = 1
    <3>1. InHand(k)
      BY <1>1, <2>4 DEF InHand
    <3> QED BY <1>3, <3>1, OneListInHand DEF SocketInv
  <2>5. ReadyFor(r)'
    BY <1>1, <2>2, <2>3, <2>4 DEF ReadyFor
  <2>6. \A i \in 1..Len(order) : order[i] \notin ready' => data[order[i]] = Size
    BY <1>4, <1>6
  <2> QED BY <1>1, <2>2, <2>5, <2>6 DEF ReadyInv
<1>7. ASSUME Go(a, [Idle EXCEPT !.pc = "drop", !.req = connecting]) PROVE FALSE
  <2>1. PICK r : r = [Idle EXCEPT !.pc = "drop", !.req = connecting]
    OBVIOUS
  <2>2. r.pc = "drop"
    BY <2>1 DEF Idle
  <2>3. th'[a] = r /\ Holders' = {a}
    BY <1>5, <1>7, <2>1, <2>2
  <2> QED BY <2>2, <2>3 DEF Failing, At
<1> QED BY <1>6, <1>7 DEF KeepWriteIfConnected

\* KeepWrite goes to the next request.
LEMMA SkipReady ==
    ASSUME SocketInv, ReadyInv, NEW a \in Agents, Skip(a), ~Failing'
    PROVE  ReadyInv'
<1>1. a \in Holders /\ th[a].pc \in {"keep", "skim"} /\ next[th[a].req] # NULL
  BY DEF Skip, Written, Holders, At
<1>2. /\ th[a] \in ThreadStates /\ Locals(th[a]) /\ th[a].req = order[1] /\ order # <<>>
      /\ th[a].req \in Requests /\ connecting = NULL
  BY <1>1, HolderFacts
<1>3. next[order[1]] = order[2]
  BY <1>1, <1>2, SecondInHand
<1>4. PICK q \in {"write", "skim"} : q = IF At(a, "keep") THEN "write" ELSE "skim"
  OBVIOUS
<1>50. PICK r : r = [th[a] EXCEPT !.req = next[th[a].req], !.pc = q]
  OBVIOUS
<1>5. r.pc = q /\ r.from = th[a].from
  BY <1>2, <1>50 DEF ThreadStates
<1>6. ~Failing /\ th'[a] = r /\ Holders' = {a}
  <2>1. Go(a, r)
    BY <1>4, <1>50 DEF Skip
  <2>2. th[a].from = "keep"
    BY <1>1, <1>2 DEF Locals
  <2> QED BY <1>1, <1>5, <2>1, <2>2, HolderFails
<1>7. /\ Len(order') = Len(order) - 1 /\ Len(order) \in Nat
      /\ \A i \in 1..(Len(order) - 1) : order'[i] = order[i + 1]
      /\ \A i \in 1..Len(order') : order'[i] # order[1]
  <2>1. PICK l : l = RemoveFirst(order, order[1]) /\ l = order'
    BY <1>2 DEF Skip, Release
  <2>2. /\ Len(l) = Len(order) - 1 /\ l \in Seq(busy \ {order[1]})
        /\ \A i \in 1..(Len(order) - 1) : l[i] = order[i + 1]
    BY <1>2, <2>1, QueueWithoutFirst
  <2>3. Len(order) \in Nat
    BY QueueFacts DEF SocketInv
  <2>4. \A i \in 1..Len(l) : l[i] # order[1]
    BY <2>2
  <2> QED BY <2>1, <2>2, <2>3, <2>4
<1>8. /\ ready' = ready \ {order[1]} /\ data' = [data EXCEPT ![order[1]] = 0]
      /\ next' = [next EXCEPT ![order[1]] = UNCONNECTED] /\ connecting' = connecting
  BY <1>2 DEF Skip, Release
<1>9. \A i \in 1..Len(order') : /\ i + 1 \in 1..Len(order) /\ order'[i] = order[i + 1]
                                /\ next'[order'[i]] = next[order[i + 1]]
                                /\ data'[order'[i]] = data[order[i + 1]]
                                /\ order'[i] \in ready' <=> order[i + 1] \in ready
  <2>1. \A i \in 1..Len(order') : i \in 1..(Len(order) - 1) /\ i + 1 \in 1..Len(order)
    BY <1>7
  <2>2. \A i \in 1..Len(order) : order[i] \in Requests
    BY QueueFacts DEF SocketInv
  <2> QED BY <1>7, <1>8, <2>1, <2>2 DEF SocketInv, TypeOK
<1>10. ASSUME NEW k \in 1..Len(order'), InHand(k)' PROVE ReadyUpTo(k)'
  <2>1. PICK m \in 1..Len(order) : m = k + 1 /\ m - 1 = k
    BY <1>9
  <2>2. InHand(m)
    <3>1. ASSUME NEW i \in 1..(m - 1) PROVE next[order[i]] = order[i + 1]
      <4>1. CASE i = 1
        BY <1>3, <4>1
      <4>2. CASE i # 1
        <5>1. PICK j \in 1..(k - 1) : i = j + 1
          <6>1. i - 1 \in 1..(k - 1) /\ i = (i - 1) + 1
            BY <2>1, <4>2
          <6> QED BY <6>1
        <5>2. j \in 1..Len(order') /\ j + 1 \in 1..Len(order')
          BY <1>7, <5>1
        <5>3. next'[order'[j]] = order'[j + 1]
          BY <1>10, <5>1 DEF InHand
        <5> QED BY <1>9, <5>1, <5>2, <5>3
      <4> QED BY <4>1, <4>2
    <3>2. next[order[m]] = NULL
      BY <1>9, <1>10, <2>1 DEF InHand
    <3> QED BY <3>1, <3>2 DEF InHand
  <2>3. ReadyUpTo(m)
    BY <1>1, <1>6, <2>2 DEF ReadyInv, ReadyFor
  <2>4. ASSUME NEW i \in 1..Len(order') PROVE order'[i] \in ready' <=> i <= k
    <3>1. order[i + 1] \in ready <=> i + 1 <= m
      BY <1>9, <2>3 DEF ReadyUpTo
    <3> QED BY <1>7, <1>9, <2>1, <3>1
  <2> QED BY <2>4 DEF ReadyUpTo
<1>11. ReadyFor(r)'
  BY <1>5, <1>10 DEF ReadyFor
<1>12. \A i \in 1..Len(order') : order'[i] \notin ready' => data'[order'[i]] = Size
  BY <1>6, <1>9 DEF ReadyInv
<1> QED BY <1>2, <1>6, <1>8, <1>11, <1>12 DEF ReadyInv

\* IsWriteComplete turns round one link of the newer requests.
LEMMA ReverseListReady ==
    ASSUME SocketInv, ReadyInv, NEW a \in Agents, ReverseList(a), ~Failing'
    PROVE  ReadyInv'
<1>1. a \in Holders /\ th[a].pc = "reverse" /\ next[th[a].p] # UNCONNECTED
  BY DEF ReverseList, Holders, At
<1>2. /\ th[a] \in ThreadStates /\ connecting = NULL /\ order # <<>>
  BY <1>1, HolderFacts
<1>3. PICK k \in 1..Len(order) : HolderAt(th[a], k)
  BY <1>1, HolderFacts
<1>4. OldHead(a) = order[k] /\ InHand(k)
  BY <1>1, <1>3, OldHeadFacts
<1>5. PICK m \in (k + 1)..Len(order) : \E j \in (k + 1)..m : Reversing(th[a], k, j, m)
  BY <1>1, <1>3 DEF HolderAt
<1>6. PICK j \in (k + 1)..m : Reversing(th[a], k, j, m)
  BY <1>5
<1>7. /\ Len(order) \in Nat /\ j \in 1..Len(order) /\ j - 1 \in 1..Len(order) /\ k < j
      /\ j \in (k + 1)..j
      /\ \A i \in 1..Len(order) : order[i] \in Requests
      /\ \A i1, i2 \in 1..Len(order) : order[i1] = order[i2] => i1 = i2
      /\ NULL \notin Requests
  BY QueueFacts, SocketAssumption DEF SocketInv, QueueInv
<1>8. th[a].p = order[j] /\ next[order[j]] = order[j - 1]
  <2>1. th[a].p = order[j] /\ AsAdded(j)
    BY <1>6, <1>7 DEF Reversing
  <2> QED BY <1>1, <2>1 DEF AsAdded
<1>9. PICK done \in BOOLEAN : done <=> next[th[a].p] = OldHead(a)
  OBVIOUS
<1>10. done => j = k + 1
  <2>1. order[j - 1] = order[k] => j - 1 = k
    BY <1>7
  <2>2. done => order[j - 1] = order[k]
    BY <1>4, <1>8, <1>9
  <2> QED BY <1>7, <2>1, <2>2
<1>110. PICK r : r = [th[a] EXCEPT !.tail = th[a].p, !.p = IF done THEN th[a].p ELSE next[th[a].p],
                                  !.pc = IF done THEN "setup" ELSE "reverse"]
  OBVIOUS
<1>11. /\ r.pc = IF done THEN "setup" ELSE "reverse"
       /\ r.from = th[a].from /\ (done => r.p = order[j])
  BY <1>2, <1>8, <1>110 DEF ThreadStates
<1>12. ~Failing /\ th'[a] = r /\ Holders' = {a}
  <2>1. Go(a, r)
    <3>1. CASE done
      BY <1>9, <1>110, <3>1 DEF ReverseList
    <3>2. CASE ~done
      BY <1>9, <1>110, <3>2 DEF ReverseList
    <3> QED BY <3>1, <3>2
  <2>2. r.pc \notin {"idle", "link", "return"}
    BY <1>11
  <2>3. th'[a] = r /\ Holders' = {a} /\ (Failing <=> th[a].pc = "drop" \/ th[a].from = "fail")
        /\ (Failing' <=> r.pc = "drop" \/ r.from = "fail")
    BY <1>1, <2>1, <2>2, HolderFails
  <2> QED BY <1>1, <1>11, <2>3
<1>13. ReadyUpTo(k)
  BY <1>1, <1>3, <1>12, InHandIsReady
<1>14. UNCHANGED <<data, connecting, ready, order>>
  BY DEF ReverseList
<1>15. ReadyUpTo(k)'
  BY <1>13, <1>14 DEF ReadyUpTo
<1>16. CASE done
  <2>1. ASSUME NEW i \in 1..Len(order), r.p = order[i] PROVE ReadyUpTo(i - 1)'
    <3>1. i = j /\ i - 1 = k
      BY <1>7, <1>10, <1>11, <1>16, <2>1
    <3>2. PICK n : n = i - 1 /\ n = k
      BY <3>1
    <3>3. ReadyUpTo(n)'
      BY <1>15, <3>2
    <3> QED BY <3>2, <3>3
  <2>2. ReadyFor(r)'
    BY <1>11, <1>14, <1>16, <2>1 DEF ReadyFor
  <2> QED BY <1>2, <1>12, <1>14, <2>2 DEF ReadyInv
<1>17. CASE ~done
  <2>1. \A i \in 1..k : next'[order[i]] = next[order[i]]
    <3>1. \A i \in 1..k : i \in 1..Len(order) /\ i # j
      BY <1>7
    <3>2. next' = [next EXCEPT ![order[j]] = th[a].tail]
      BY <1>8, <1>9, <1>17 DEF ReverseList
    <3> QED BY <1>7, <3>1, <3>2 DEF SocketInv, TypeOK
  <2>2. ASSUME NEW n \in 1..Len(order), InHand(n)' PROVE n = k
    <3>1. ASSUME n < k PROVE FALSE
      <4>1. n \in 1..(k - 1) /\ n \in 1..k /\ n + 1 \in 1..Len(order)
        BY <1>7, <3>1
      <4>2. next[order[n]] = order[n + 1]
        BY <1>4, <4>1 DEF InHand
      <4>3. next'[order[n]] = NULL
        BY <1>14, <2>2 DEF InHand
      <4> QED BY <1>7, <2>1, <4>1, <4>2, <4>3
    <3>2. ASSUME k < n PROVE FALSE
      <4>1. k \in 1..(n - 1) /\ k \in 1..k /\ k + 1 \in 1..Len(order)
        BY <1>7, <3>2
      <4>2. next'[order[k]] = order[k + 1]
        BY <1>14, <2>2, <4>1 DEF InHand
      <4>3. next[order[k]] = NULL
        BY <1>4 DEF InHand
      <4> QED BY <1>7, <2>1, <4>1, <4>2, <4>3
    <3> QED BY <1>7, <3>1, <3>2
  <2>3. ReadyFor(r)'
    BY <1>11, <1>14, <1>15, <1>17, <2>2 DEF ReadyFor
  <2> QED BY <1>2, <1>12, <1>14, <2>3 DEF ReadyInv
<1> QED BY <1>16, <1>17

\* Setup packs a request that was newly added.
LEMMA SetupReady ==
    ASSUME SocketInv, ReadyInv, NEW a \in Agents, Setup(a), ~Failing'
    PROVE  ReadyInv'
<1>1. a \in Holders /\ th[a].pc = "setup"
  BY DEF Setup, Holders, At
<1>2. th[a] \in ThreadStates /\ connecting = NULL /\ order # <<>>
  BY <1>1, HolderFacts
<1>3. PICK k \in 1..Len(order) : HolderAt(th[a], k)
  BY <1>1, HolderFacts
<1>4. PICK i \in 2..k : SettingUp(th[a], k, i)
  BY <1>1, <1>3 DEF HolderAt
<1>5. InHand(k) /\ th[a].p = order[i]
  BY <1>1, <1>3, <1>4 DEF HolderAt, SettingUp
<1>6. /\ Len(order) \in Nat /\ i \in 1..Len(order) /\ k \in Nat
      /\ \A j \in 1..Len(order) : order[j] \in Requests
      /\ \A i1, i2 \in 1..Len(order) : order[i1] = order[i2] => i1 = i2
      /\ NULL \notin Requests
  BY QueueFacts, SocketAssumption DEF SocketInv, QueueInv
<1>7. /\ UNCHANGED <<next, data, connecting, order>> /\ ready' = ready \cup {order[i]}
  BY <1>5 DEF Setup
<1>8. PICK r : Go(a, r) /\ r.from = th[a].from
               /\ \/ next[order[i]] = NULL /\ r.pc = Back(a)
                  \/ next[order[i]] # NULL /\ r.pc = "setup" /\ r.p = next[order[i]]
  <2>1. CASE next[order[i]] = NULL
    <3>1. PICK r : r = [th[a] EXCEPT !.pc = Back(a), !.p = NULL, !.new = NULL, !.tail = NULL,
                                    !.cur = IF th[a].from = "keep" THEN th[a].new ELSE @]
      OBVIOUS
    <3>2. r.pc = Back(a) /\ r.from = th[a].from
      BY <1>2, <3>1 DEF ThreadStates
    <3>3. Go(a, r)
      BY <1>5, <2>1, <3>1 DEF Setup
    <3> QED BY <2>1, <3>2, <3>3
  <2>2. CASE next[order[i]] # NULL
    <3>1. PICK r : r = [th[a] EXCEPT !.p = next[order[i]]]
      OBVIOUS
    <3>2. r.pc = "setup" /\ r.p = next[order[i]] /\ r.from = th[a].from
      BY <1>1, <1>2, <3>1 DEF ThreadStates
    <3>3. Go(a, r)
      BY <1>5, <2>2, <3>1 DEF Setup
    <3> QED BY <2>2, <3>2, <3>3
  <2> QED BY <2>1, <2>2
<1>9. r.pc \in {"setup", "background", "keep", "drop"}
  BY <1>2, <1>8 DEF Back, ThreadStates
<1>10. ~Failing /\ th'[a] = r /\ Holders' = {a}
  BY <1>1, <1>8, <1>9, HolderFails
<1>11. ReadyUpTo(i)'
  <2>1. ReadyUpTo(i - 1)
    BY <1>1, <1>5, <1>6, <1>10 DEF ReadyInv, ReadyFor
  <2> QED BY <1>6, <1>7, <2>1, NextIsReady
<1>12. ReadyFor(r)'
  <2>1. CASE next[order[i]] = NULL
    <3>1. i = k
      <4>1. SUFFICES ASSUME i # k PROVE FALSE
        OBVIOUS
      <4>2. i \in 1..(k - 1) /\ i + 1 \in 1..Len(order)
        BY <1>6, <4>1
      <4> QED BY <1>5, <1>6, <2>1, <4>2 DEF InHand
    <3>2. ASSUME NEW n \in 1..Len(order), InHand(n)' PROVE n = k
      <4>1. InHand(n)
        BY <1>7, <3>2 DEF InHand
      <4> QED BY <1>5, <4>1, OneListInHand DEF SocketInv
    <3>3. r.pc \notin {"connect", "setup"}
      BY <1>2, <1>8, <2>1 DEF Back, ThreadStates
    <3> QED BY <1>7, <1>11, <3>1, <3>2, <3>3 DEF ReadyFor
  <2>2. CASE next[order[i]] # NULL
    <3>1. i \in 1..(k - 1) /\ i + 1 \in 1..Len(order) /\ next[order[i]] = order[i + 1]
      <4>1. i # k
        BY <1>5, <2>2 DEF InHand
      <4>2. i \in 1..(k - 1) /\ i + 1 \in 1..Len(order)
        BY <1>6, <4>1
      <4> QED BY <1>5, <4>2 DEF InHand
    <3>2. ASSUME NEW n \in 1..Len(order), r.p = order[n] PROVE ReadyUpTo(n - 1)'
      <4>1. n = i + 1
        BY <1>6, <1>8, <2>2, <3>1, <3>2
      <4>2. PICK m : m = n - 1 /\ m = i
        BY <4>1
      <4>3. ReadyUpTo(m)'
        BY <1>11, <4>2
      <4> QED BY <4>2, <4>3
    <3>3. r.pc = "setup"
      BY <1>8, <2>2
    <3> QED BY <1>7, <3>2, <3>3 DEF ReadyFor
  <2> QED BY <2>1, <2>2
<1>13. \A j \in 1..Len(order) : order[j] \notin ready' => data[order[j]] = Size
  BY <1>7, <1>10 DEF ReadyInv
<1> QED BY <1>2, <1>7, <1>10, <1>12, <1>13 DEF ReadyInv

\* IsWriteComplete tries to set _write_head back to NULL.
LEMMA CompareExchangeReady ==
    ASSUME SocketInv, ReadyInv, NEW a \in Agents, CompareExchange(a), ~Failing'
    PROVE  ReadyInv'
<1>1. a \in Holders /\ th[a].pc = "cas" /\ At(a, "cas")
  BY DEF CompareExchange, Holders, At
<1>2. th[a] \in ThreadStates /\ Holders = {a} /\ connecting = NULL
  BY <1>1, HolderFacts
<1>3. UNCHANGED <<next, data, busy, connecting, ready>>
  BY DEF CompareExchange
<1>4. CASE /\ head = OldHead(a) /\ ReturnWhenNoMore(a) /\ order' = RemoveFirst(order, th[a].req)
           /\ Go(a, To(a, "return"))
  <2>1. PICK q : q = RemoveFirst(order, th[a].req) /\ q = order'
    BY <1>4
  <2>2. q = <<>>
    BY <1>1, <1>4, <2>1, OnlyRequest
  <2>3. Len(order') = 0
    BY <2>1, <2>2
  <2>4. Holders' = {}
    BY <1>2, <1>4 DEF Holders, Go, To, ThreadStates, SocketInv, TypeOK
  <2> QED BY <1>2, <1>3, <2>3, <2>4 DEF ReadyInv
<1>5. CASE Go(a, To(a, Back(a))) /\ UNCHANGED order
  <2>1. PICK r : r = To(a, Back(a))
    OBVIOUS
  <2>2. r.pc = Back(a) /\ r.from = th[a].from
    BY <1>2, <2>1 DEF To, ThreadStates
  <2>3. r.pc \in {"background", "keep", "drop"}
    BY <1>2, <2>2 DEF Back, ThreadStates
  <2> QED BY <1>1, <1>3, <1>5, <2>1, <2>2, <2>3, StaysReady
<1>6. CASE /\ Go(a, [th[a] EXCEPT !.pc = "reverse", !.new = head, !.p = head, !.tail = NULL])
           /\ UNCHANGED order
  <2>1. PICK r : r = [th[a] EXCEPT !.pc = "reverse", !.new = head, !.p = head, !.tail = NULL]
    OBVIOUS
  <2>2. r.pc = "reverse" /\ r.from = th[a].from
    BY <1>2, <2>1 DEF ThreadStates
  <2> QED BY <1>1, <1>3, <1>6, <2>1, <2>2, StaysReady
<1> QED BY <1>4, <1>5, <1>6 DEF CompareExchange

\* Steps after which the thread is dropping what it holds.
LEMMA DropFails ==
    ASSUME SocketInv, NEW a \in Agents, a \in Holders, NEW r, Go(a, r),
           r.pc \notin {"idle", "link", "return"}, r.pc = "drop" \/ r.from = "fail"
    PROVE  Failing'
  BY HolderFails

\* Every step and a stutter keep the invariant of the requests that are packed.
LEMMA SocketReadyStep ==
    ASSUME SocketInv, ReadyInv, [Next]_vars
    PROVE  ReadyInv'
<1> SUFFICES ASSUME ~Failing' PROVE ReadyInv'
  BY DEF ReadyInv
<1>1. CASE UNCHANGED vars
  <2>1. UNCHANGED <<head, next, data, busy, connecting, th, ready, order>>
    BY <1>1 DEF vars
  <2>2. ~Failing
    BY <2>1 DEF Failing, Holders, At
  <2> QED BY <2>1, <2>2 DEF ReadyInv, ReadyFor, ReadyUpTo, InHand, Holders
<1>2. ASSUME NEW a \in Agents, Skimmed(a) PROVE ReadyInv'
  <2>1. th[a].pc = "skim" /\ a \in Holders
    BY <1>2 DEF Skimmed, At, Holders
  <2>2. PICK r : r = [th[a] EXCEPT !.pc = IF th[a].nw THEN "cas" ELSE "poll", !.nw = FALSE,
                         !.cur = IF th[a].nw /\ @ = NULL THEN Last(List(th[a].req)) ELSE @]
    OBVIOUS
  <2>3. r.pc \in {"cas", "poll"} /\ r.from = th[a].from
    BY <2>1, <2>2, HolderFacts DEF ThreadStates
  <2>4. Go(a, r) /\ UNCHANGED <<next, data, ready, order, connecting>>
    BY <1>2, <2>2 DEF Skimmed
  <2> QED BY <1>2, <2>1, <2>3, <2>4, StaysReady
<1>3. ASSUME NEW a \in Agents, WaitEpollOut(a) PROVE ReadyInv'
  <2>1. th[a].pc = "poll" /\ a \in Holders
    BY <1>3 DEF WaitEpollOut, At, Holders
  <2>2. th[a] \in ThreadStates
    BY <2>1, HolderFacts
  <2>3. CASE Go(a, [th[a] EXCEPT !.pc = "cas",
                                 !.cur = IF @ = NULL THEN Last(List(th[a].req)) ELSE @])
    <3>1. PICK r : r = [th[a] EXCEPT !.pc = "cas",
                                     !.cur = IF @ = NULL THEN Last(List(th[a].req)) ELSE @]
      OBVIOUS
    <3>2. r.pc = "cas" /\ r.from = th[a].from
      BY <2>2, <3>1 DEF ThreadStates
    <3>3. Go(a, r) /\ UNCHANGED <<next, data, ready, order, connecting>>
      BY <1>3, <2>3, <3>1 DEF WaitEpollOut
    <3> QED BY <1>3, <2>1, <3>2, <3>3, StaysReady
  <2>4. CASE Go(a, To(a, "drop"))
    <3>1. PICK r : r = To(a, "drop")
      OBVIOUS
    <3>2. r.pc = "drop"
      BY <2>2, <3>1 DEF To, ThreadStates
    <3> QED BY <1>3, <2>1, <2>4, <3>1, <3>2, DropFails
  <2> QED BY <1>3, <2>3, <2>4 DEF WaitEpollOut
<1>4. ASSUME NEW a \in Agents, ReleaseFailed(a) PROVE FALSE
  <2>1. th[a].pc = "drop" /\ a \in Holders
    BY <1>4 DEF ReleaseFailed, At, Holders
  <2>2. PICK r : r = [th[a] EXCEPT !.req = next[th[a].req], !.from = "fail", !.cur = NULL]
    OBVIOUS
  <2>3. r.pc = "drop" /\ Go(a, r)
    BY <1>4, <2>1, <2>2, HolderFacts DEF ReleaseFailed, ThreadStates
  <2> QED BY <1>4, <2>1, <2>3, DropFails
<1>5. ASSUME NEW a \in Agents, ClearLast(a) PROVE FALSE
  <2>1. th[a].pc = "drop" /\ a \in Holders
    BY <1>5 DEF ClearLast, At, Holders
  <2>2. PICK r : r = [th[a] EXCEPT !.pc = "cas", !.from = "fail", !.cur = NULL]
    OBVIOUS
  <2>3. r.pc = "cas" /\ r.from = "fail" /\ Go(a, r)
    BY <1>5, <2>1, <2>2, HolderFacts DEF ClearLast, ThreadStates
  <2> QED BY <1>5, <2>1, <2>3, DropFails
<1>6. ASSUME NEW a \in Agents, FailToWrite(a) PROVE FALSE
  <2>1. a \in Holders
    BY <1>6 DEF FailToWrite, At, Holders
  <2>2. PICK r : r = To(a, "drop")
    OBVIOUS
  <2>3. r.pc = "drop" /\ Go(a, r)
    BY <1>6, <2>1, <2>2, HolderFacts DEF FailToWrite, To, ThreadStates
  <2> QED BY <1>6, <2>1, <2>3, DropFails
<1>7. ASSUME NEW a \in Agents, Step(a) PROVE ReadyInv'
  BY <1>2, <1>3, <1>4, <1>5, <1>7, LinkReady, ConnectIfNotReady, WriteOnceReady,
     StartKeepWriteReady, SkipReady, CompareExchangeReady, ReverseListReady, SetupReady,
     ReturnReady DEF Step
<1>8. ASSUME NEW a \in Agents, Write(a) PROVE ReadyInv'
  <2>1. PICK i \in 1..NReq, b \in 0..Size : DoWrite(a, i, b)
    BY <1>8 DEF Write
  <2> QED BY <2>1, DoWriteReady
<1> QED BY <1>1, <1>6, <1>7, <1>8, ExchangeReady, KeepWriteIfConnectedReady DEF Next

(***************************************************************************)
(* Setup() is called in the order in which the requests are written, and   *)
(* before the first byte of a request is written.                          *)
(***************************************************************************)
THEOREM SetupComesInOrder == Spec => []SetupInOrder
<1>1. Init => ReadyInv
  <2>1. SUFFICES ASSUME Init PROVE ReadyInv
    OBVIOUS
  <2>2. Holders = {} /\ Len(order) = 0 /\ connecting = NULL
    BY <2>1 DEF Init, Holders, Idle
  <2> QED BY <2>2 DEF ReadyInv
<1>2. SocketInv /\ ReadyInv /\ [Next]_vars => ReadyInv'
  BY SocketReadyStep
<1>3. SocketInv /\ ReadyInv => SetupInOrder
  <2> SUFFICES ASSUME SocketInv, ReadyInv, ~Failing, NEW i \in 1..Len(order)
               PROVE  /\ order[i] \in ready => \A j \in 1..i : order[j] \in ready
                      /\ data[order[i]] < Size => order[i] \in ready
    BY DEF SetupInOrder
  <2>1. \E n : ReadyUpTo(n) /\ n \in Nat
    <3>1. order # <<>> /\ Len(order) \in Nat
      BY QueueFacts DEF SocketInv
    <3>2. CASE connecting # NULL
      BY <3>2 DEF ReadyInv
    <3>3. CASE connecting = NULL
      <4>1. PICK a \in Holders : TRUE
        BY <3>1, <3>3 DEF SocketInv, OwnerInv
      <4>2. a \in Agents /\ ReadyFor(th[a])
        BY <4>1 DEF ReadyInv, Holders
      <4>3. PICK k \in 1..Len(order) : HolderAt(th[a], k)
        BY <4>1, <4>2, HolderFacts
      <4>4. CASE th[a].pc = "connect"
        BY <4>2, <4>4 DEF ReadyFor
      <4>5. CASE th[a].pc = "setup"
        <5>1. PICK j \in 2..k : th[a].p = order[j]
          BY <4>3, <4>5 DEF HolderAt, SettingUp
        <5>2. j \in 1..Len(order) /\ j - 1 \in Nat
          BY <3>1
        <5> QED BY <4>2, <4>5, <5>1, <5>2 DEF ReadyFor
      <4>6. CASE th[a].pc \notin {"connect", "setup"}
        BY <4>2, <4>3, <4>6 DEF ReadyFor, HolderAt
      <4> QED BY <4>4, <4>5, <4>6
    <3> QED BY <3>2, <3>3
  <2>2. PICK n \in Nat : ReadyUpTo(n)
    BY <2>1
  <2>3. Len(order) \in Nat
    BY QueueFacts DEF SocketInv
  <2>4. order[i] \in ready => \A j \in 1..i : order[j] \in ready
    BY <2>2, <2>3 DEF ReadyUpTo
  <2>5. order[i] \notin ready => data[order[i]] = Size
    BY DEF ReadyInv
  <2> QED BY <2>4, <2>5, SocketAssumption
<1> QED BY <1>1, <1>2, <1>3, SocketInvariant, PTL DEF Spec

-----------------------------------------------------------------------------
(* The refinement of WriteQueue: what each of its operations looks like    *)
(* here.                                                                   *)

\* The queue that the requests of the list o with the bytes d are.
Entries(o, d) == [i \in 1..Len(o) |-> [req |-> o[i], left |-> d[o[i]]]]

\* What the queue of entries holds at each place.
LEMMA EntriesFacts ==
    ASSUME NEW o \in Seq(Requests), NEW d \in [Requests -> 0..Size], NEW q, q = Entries(o, d)
    PROVE  /\ q \in Seq(Queue!Entry) /\ Len(q) = Len(o)
           /\ \A i \in 1..Len(o) : q[i].req = o[i] /\ q[i].left = d[o[i]]
           /\ \A i \in 1..Len(o) : q[i] = [req |-> o[i], left |-> d[o[i]]]
           /\ o # <<>> => q # <<>> /\ Head(q).left = d[o[1]]
           /\ q = <<>> <=> Len(o) = 0
<1>1. Len(o) \in Nat /\ \A i \in 1..Len(o) : o[i] \in Requests
  OBVIOUS
<1>2. \A i \in 1..Len(o) : [req |-> o[i], left |-> d[o[i]]] \in Queue!Entry
  BY <1>1 DEF Queue!Entry
<1>3. q \in Seq(Queue!Entry) /\ Len(q) = Len(o)
  BY <1>1, <1>2 DEF Entries
<1>4. \A i \in 1..Len(o) : q[i] = [req |-> o[i], left |-> d[o[i]]]
  BY DEF Entries
<1>5. ASSUME NEW i \in 1..Len(o) PROVE q[i].req = o[i] /\ q[i].left = d[o[i]]
  <2>1. q[i] = [req |-> o[i], left |-> d[o[i]]]
    BY <1>4
  <2> QED BY <2>1
<1>6. ASSUME o # <<>> PROVE q # <<>> /\ Head(q) = q[1] /\ 1 \in 1..Len(o)
  BY <1>1, <1>3, <1>6
<1>7. q = <<>> <=> Len(o) = 0
  BY <1>3
<1> QED BY <1>3, <1>4, <1>5, <1>6, <1>7

\* Both states are queues.
LEMMA BothAreQueues ==
    ASSUME SocketInv, SocketInv'
    PROVE  /\ order \in Seq(Requests) /\ order' \in Seq(Requests)
           /\ data \in [Requests -> 0..Size] /\ data' \in [Requests -> 0..Size]
           /\ Len(order) \in Nat /\ \A i \in 1..Len(order) : order[i] \in Requests
           /\ \A i, j \in 1..Len(order) : order[i] = order[j] => i = j
           /\ order # <<>> => 1 \in 1..Len(order)
<1>1. \A i \in 1..Len(order) : order[i] \in Requests
  BY QueueFacts DEF SocketInv
<1>2. order \in Seq(busy) /\ busy \subseteq Requests /\ order' \in Seq(busy') /\ busy' \subseteq Requests
  BY DEF SocketInv, TypeOK
<1>3. order \in Seq(Requests) /\ order' \in Seq(Requests)
  <2>1. \A i \in 1..Len(order') : order'[i] \in Requests
    BY <1>2
  <2> QED BY <1>1, <1>2, <2>1, ElementsOf
<1>4. data \in [Requests -> 0..Size] /\ data' \in [Requests -> 0..Size]
  BY DEF SocketInv, TypeOK
<1>5. \A i, j \in 1..Len(order) : order[i] = order[j] => i = j
  BY DEF SocketInv, QueueInv
<1>6. Len(order) \in Nat /\ (order # <<>> => 1 \in 1..Len(order))
  BY <1>3
<1> QED BY <1>1, <1>3, <1>4, <1>5, <1>6

\* A request added last to the order is submitted.
LEMMA IsSubmit ==
    ASSUME SocketInv, SocketInv', NEW x \in Requests, order' = Append(order, x),
           data' = [data EXCEPT ![x] = Size], \A i \in 1..Len(order) : order[i] # x,
           Failing' <=> Failing
    PROVE  Queue!Submit(x)
<1>1. PICK q : q = Entries(order, data)
  OBVIOUS
<1>2. PICK t : t = Entries(order', data')
  OBVIOUS
<1>3. /\ q \in Seq(Queue!Entry) /\ Len(q) = Len(order)
      /\ \A i \in 1..Len(order) : q[i].req = order[i] /\ q[i].left = data[order[i]]
      /\ \A i \in 1..Len(order) : q[i] = [req |-> order[i], left |-> data[order[i]]]
  BY <1>1, BothAreQueues, EntriesFacts
<1>4. /\ t \in Seq(Queue!Entry) /\ Len(t) = Len(order')
      /\ \A i \in 1..Len(order') : t[i] = [req |-> order'[i], left |-> data'[order'[i]]]
  <2>1. PICK o : o = order'
    OBVIOUS
  <2>2. PICK d : d = data'
    OBVIOUS
  <2>3. o \in Seq(Requests) /\ d \in [Requests -> 0..Size] /\ t = Entries(o, d)
    BY <1>2, <2>1, <2>2, BothAreQueues
  <2>4. /\ t \in Seq(Queue!Entry) /\ Len(t) = Len(o)
        /\ \A i \in 1..Len(o) : t[i] = [req |-> o[i], left |-> d[o[i]]]
    BY <2>3, EntriesFacts
  <2> QED BY <2>1, <2>2, <2>4
<1>5. PICK e : e = [req |-> x, left |-> Size]
  OBVIOUS
<1>6. e \in Queue!Entry /\ Size \in 0..Size
  BY <1>5, SocketAssumption DEF Queue!Entry
<1>7. /\ Len(order') = Len(order) + 1 /\ order'[Len(order) + 1] = x
      /\ \A i \in 1..Len(order) : order'[i] = order[i]
      /\ data'[x] = Size /\ \A i \in 1..Len(order) : data'[order[i]] = data[order[i]]
  BY BothAreQueues, AppendElements
<1>8. /\ Append(q, e) \in Seq(Queue!Entry) /\ Len(Append(q, e)) = Len(q) + 1
      /\ \A i \in 1..Len(q) : Append(q, e)[i] = q[i]
      /\ Append(q, e)[Len(q) + 1] = e
  BY <1>3, <1>6, AppendElements
<1>9. ASSUME NEW i \in 1..Len(t) PROVE t[i] = Append(q, e)[i]
  <2>1. i \in 1..Len(order') /\ Len(order) \in Nat
    BY <1>4, BothAreQueues
  <2>2. CASE i = Len(order) + 1
    BY <1>3, <1>4, <1>5, <1>7, <1>8, <2>1, <2>2
  <2>3. CASE i # Len(order) + 1
    <3>1. i \in 1..Len(order)
      BY <1>7, <2>1, <2>3
    <3> QED BY <1>3, <1>4, <1>7, <1>8, <2>1, <3>1
  <2> QED BY <2>2, <2>3
<1>10. t = Append(q, e)
  <2>1. Len(t) = Len(Append(q, e))
    BY <1>3, <1>4, <1>7, <1>8
  <2> QED BY <1>4, <1>8, <1>9, <2>1, SeqEqual
<1>11. \A i \in 1..Len(q) : q[i].req # x
  BY <1>3
<1>12. Failing' = Failing
  BY DEF Failing
<1> QED BY <1>1, <1>2, <1>5, <1>10, <1>11, <1>12 DEF Queue!Submit, Entries

\* Fewer bytes left, none of them sent out of turn, is a send.
LEMMA IsSend ==
    ASSUME SocketInv, SocketInv', UNCHANGED order, ~Failing, ~Failing',
           \A i \in 1..Len(order) :
              /\ data'[order[i]] <= data[order[i]]
              /\ data'[order[i]] < data[order[i]] => \A j \in 1..(i - 1) : data'[order[j]] = 0
    PROVE  Queue!Send
<1>1. PICK q : q = Entries(order, data)
  OBVIOUS
<1>2. PICK t : t = Entries(order', data')
  OBVIOUS
<1>3. /\ Len(q) = Len(order)
      /\ \A i \in 1..Len(order) : q[i].req = order[i] /\ q[i].left = data[order[i]]
  BY <1>1, BothAreQueues, EntriesFacts
<1>4. /\ t \in Seq(Queue!Entry) /\ Len(t) = Len(order)
      /\ \A i \in 1..Len(order) : t[i].req = order[i] /\ t[i].left = data'[order[i]]
  BY <1>2, BothAreQueues, EntriesFacts
<1>5. ASSUME NEW i \in 1..Len(q)
      PROVE  /\ t[i].req = q[i].req /\ t[i].left <= q[i].left
             /\ t[i].left < q[i].left => \A j \in 1..(i - 1) : t[j].left = 0
  <2>1. i \in 1..Len(order) /\ \A j \in 1..(i - 1) : j \in 1..Len(order)
    BY <1>3, BothAreQueues
  <2> QED BY <1>3, <1>4, <2>1
<1>6. t \in Seq(Queue!Entry) /\ Len(t) = Len(q)
  BY <1>3, <1>4
<1>7. Failing' = Failing
  BY DEF Failing
<1> QED BY <1>1, <1>2, <1>5, <1>6, <1>7 DEF Queue!Send, Entries


\* The bytes of queued requests and the connection are as before.
LEMMA IsStutter ==
    ASSUME SocketInv, SocketInv', UNCHANGED order, Failing' <=> Failing,
           \A i \in 1..Len(order) : data'[order[i]] = data[order[i]]
    PROVE  UNCHANGED Queue!vars
<1>1. Entries(order', data') = Entries(order, data)
  BY DEF Entries
<1>2. Failing' = Failing
  BY DEF Failing
<1> QED BY <1>1, <1>2 DEF Queue!vars, Entries

\* The socket that becomes failed with requests queued fails the queue.
LEMMA IsFail ==
    ASSUME SocketInv, SocketInv', UNCHANGED order, order # <<>>, ~Failing, Failing',
           \A i \in 1..Len(order) : data'[order[i]] = data[order[i]]
    PROVE  Queue!Fail
<1>1. Entries(order', data') = Entries(order, data)
  BY DEF Entries
<1>2. Entries(order, data) # <<>>
  BY BothAreQueues, EntriesFacts
<1>3. Failing' = TRUE
  BY DEF Failing
<1> QED BY <1>1, <1>2, <1>3 DEF Queue!Fail, Entries

\* The first request is emptied after a failure.
LEMMA IsClear ==
    ASSUME SocketInv, SocketInv', UNCHANGED order, order # <<>>, Failing, Failing',
           data' = [data EXCEPT ![order[1]] = 0]
    PROVE  Queue!Clear
<1>1. PICK q : q = Entries(order, data)
  OBVIOUS
<1>2. PICK t : t = Entries(order', data')
  OBVIOUS
<1>3. /\ q \in Seq(Queue!Entry) /\ Len(q) = Len(order) /\ q # <<>>
      /\ \A i \in 1..Len(order) : q[i] = [req |-> order[i], left |-> data[order[i]]]
  BY <1>1, BothAreQueues, EntriesFacts
<1>4. /\ Len(order) \in Nat /\ 1 \in 1..Len(order)
      /\ data'[order[1]] = 0
      /\ \A i \in 1..Len(order) : i # 1 => data'[order[i]] = data[order[i]]
  BY BothAreQueues
<1>5. DOMAIN q = 1..Len(order) /\ DOMAIN t = 1..Len(order)
  BY <1>2, <1>3 DEF Entries
<1>6. ASSUME NEW i \in 1..Len(order) PROVE t[i] = [q EXCEPT ![1].left = 0][i]
  <2>1. t[i] = [req |-> order[i], left |-> data'[order[i]]]
    BY <1>2 DEF Entries
  <2>2. q[i] = [req |-> order[i], left |-> data[order[i]]]
    BY <1>3
  <2>3. CASE i = 1
    <3>1. [q EXCEPT ![1].left = 0][1] = [q[1] EXCEPT !.left = 0]
      BY <1>4, <1>5
    <3>2. [q[1] EXCEPT !.left = 0] = [req |-> order[1], left |-> 0]
      BY <2>2, <2>3
    <3> QED BY <1>4, <2>1, <2>3, <3>1, <3>2
  <2>4. CASE i # 1
    <3>1. [q EXCEPT ![1].left = 0][i] = q[i]
      BY <1>5, <2>4
    <3> QED BY <1>4, <2>1, <2>2, <2>4, <3>1
  <2> QED BY <2>3, <2>4
<1>7. t = [q EXCEPT ![1].left = 0]
  <2>1. PICK u : u = [q EXCEPT ![1].left = 0]
    OBVIOUS
  <2>2. DOMAIN u = 1..Len(order) /\ \A i \in 1..Len(order) : u[i] = t[i]
    BY <1>5, <1>6, <2>1
  <2>3. t = [i \in 1..Len(order) |-> t[i]] /\ u = [i \in 1..Len(order) |-> u[i]]
    <3>1. t = [i \in 1..Len(order) |-> t[i]]
      BY <1>2 DEF Entries
    <3>2. u = [i \in 1..Len(order) |-> u[i]]
      BY <1>5, <2>1
    <3> QED BY <3>1, <3>2
  <2> QED BY <2>1, <2>2, <2>3
<1>8. Failing' = Failing
  BY DEF Failing
<1> QED BY <1>1, <1>2, <1>3, <1>7, <1>8 DEF Queue!Clear, Entries

\* The queue without its first request.
LEMMA EntriesTail ==
    ASSUME SocketInv, SocketInv', order # <<>>, order' = RemoveFirst(order, order[1]),
           \A i \in 2..Len(order) : data'[order[i]] = data[order[i]]
    PROVE  /\ Entries(order', data') = Tail(Entries(order, data))
           /\ Entries(order, data) # <<>> /\ Head(Entries(order, data)).left = data[order[1]]
           /\ (Tail(Entries(order, data)) # <<>>) <=> Len(order) # 1
<1>1. PICK q : q = Entries(order, data)
  OBVIOUS
<1>2. PICK t : t = Entries(order', data')
  OBVIOUS
<1>3. /\ q \in Seq(Queue!Entry) /\ Len(q) = Len(order) /\ q # <<>>
      /\ \A i \in 1..Len(order) : q[i] = [req |-> order[i], left |-> data[order[i]]]
      /\ Head(q).left = data[order[1]]
  BY <1>1, BothAreQueues, EntriesFacts
<1>4. Len(order) \in Nat /\ 1 \in 1..Len(order)
  BY BothAreQueues
<1>5. /\ Len(order') = Len(order) - 1
      /\ \A i \in 1..(Len(order) - 1) : order'[i] = order[i + 1]
  <2>1. PICK p : p = order'
    OBVIOUS
  <2>2. p = RemoveFirst(order, order[1])
    BY <2>1
  <2> QED BY <2>1, <2>2, QueueWithoutFirst
<1>6. /\ Tail(q) \in Seq(Queue!Entry) /\ Len(Tail(q)) = Len(order) - 1
      /\ \A i \in 1..(Len(order) - 1) : Tail(q)[i] = q[i + 1]
  BY <1>3
<1>7. ASSUME NEW i \in 1..(Len(order) - 1)
      PROVE  /\ Tail(q)[i] = [req |-> order[i + 1], left |-> data[order[i + 1]]]
             /\ order'[i] = order[i + 1] /\ data'[order'[i]] = data[order[i + 1]]
  <2>1. i + 1 \in 1..Len(order) /\ i + 1 \in 2..Len(order)
    BY <1>4
  <2> QED BY <1>3, <1>5, <1>6, <2>1
<1>8. t = [i \in 1..(Len(order) - 1) |-> [req |-> order'[i], left |-> data'[order'[i]]]]
  BY <1>2, <1>5 DEF Entries
<1>9. PICK u : u = Tail(q)
  OBVIOUS
<1>10. u \in Seq(Queue!Entry) /\ Len(u) = Len(order) - 1
  BY <1>6, <1>9
<1>11. t = Tail(q)
  <2>1. u = [i \in 1..(Len(order) - 1) |-> u[i]]
    BY <1>10
  <2> QED BY <1>7, <1>8, <1>9, <2>1
<1>12. (Tail(q) # <<>>) <=> Len(order) # 1
  <2>1. (u # <<>>) <=> Len(order) # 1
    BY <1>4, <1>10
  <2> QED BY <1>9, <2>1
<1> QED BY <1>1, <1>2, <1>3, <1>11, <1>12

\* The first request, of which nothing is left, is given back.
LEMMA IsReturn ==
    ASSUME SocketInv, SocketInv', order # <<>>, order' = RemoveFirst(order, order[1]),
           \A i \in 2..Len(order) : data'[order[i]] = data[order[i]],
           ~Failing, ~Failing', data[order[1]] = 0
    PROVE  Queue!Return
<1>1. /\ Entries(order', data') = Tail(Entries(order, data))
      /\ Entries(order, data) # <<>> /\ Head(Entries(order, data)).left = 0
  BY EntriesTail
<1>2. Failing' = Failing
  BY DEF Failing
<1> QED BY <1>1, <1>2 DEF Queue!Return, Entries

\* The first request is given back after a failure.
LEMMA IsDrop ==
    ASSUME SocketInv, SocketInv', order # <<>>, order' = RemoveFirst(order, order[1]),
           \A i \in 2..Len(order) : data'[order[i]] = data[order[i]],
           Failing, Failing' <=> Len(order) # 1
    PROVE  Queue!Drop
<1>1. /\ Entries(order', data') = Tail(Entries(order, data))
      /\ Entries(order, data) # <<>>
      /\ (Tail(Entries(order, data)) # <<>>) <=> Len(order) # 1
  BY EntriesTail
<1>2. Failing' = (Tail(Entries(order, data)) # <<>>)
  BY <1>1 DEF Failing
<1> QED BY <1>1, <1>2 DEF Queue!Drop, Entries


-----------------------------------------------------------------------------
(* The actions are operations of the queue, or leave it as it is.          *)

\* The holder goes on: the queue is as before, or the connection failed.
LEMMA HolderGoesOn ==
    ASSUME SocketInv, SocketInv', NEW a \in Agents, a \in Holders, NEW r, Go(a, r),
           r.pc \notin {"idle", "link", "return"}, UNCHANGED <<order, data>>,
           (th[a].pc = "drop" \/ th[a].from = "fail") => (r.pc = "drop" \/ r.from = "fail")
    PROVE  UNCHANGED Queue!vars \/ Queue!Fail
<1>1. /\ Failing <=> th[a].pc = "drop" \/ th[a].from = "fail"
      /\ Failing' <=> r.pc = "drop" \/ r.from = "fail"
  BY HolderFails
<1>2. order # <<>>
  BY HolderFacts
<1>3. \A i \in 1..Len(order) : data'[order[i]] = data[order[i]]
  OBVIOUS
<1>4. CASE Failing' <=> Failing
  BY <1>3, <1>4, IsStutter
<1>5. CASE ~Failing /\ Failing'
  BY <1>2, <1>3, <1>5, IsFail
<1> QED BY <1>1, <1>4, <1>5

\* The exchange of _write_head is where a request is submitted.
LEMMA ExchangeSubmits ==
    ASSUME SocketInv, SocketInv', NEW a \in Agents, Exchange(a)
    PROVE  \E x \in Requests : Queue!Submit(x)
<1>1. PICK x \in Requests \ busy :
         /\ order' = Append(order, x) /\ data' = [data EXCEPT ![x] = Size]
         /\ \A i \in 1..Len(order) : order[i] # x
         /\ Go(a, [Idle EXCEPT !.pc = IF head = NULL THEN "connect" ELSE "link",
                               !.req = x, !.p = head])
  BY ExchangeFacts
<1>2. PICK r : r = [Idle EXCEPT !.pc = IF head = NULL THEN "connect" ELSE "link",
                                !.req = x, !.p = head]
  OBVIOUS
<1>3. r.pc = (IF head = NULL THEN "connect" ELSE "link") /\ r.from = "once"
  BY <1>2 DEF Idle
<1>4. a \notin Holders
  BY DEF Exchange, Holders, At
<1>5. Failing' <=> Failing
  <2>1. CASE head = NULL
    <3>1. order = <<>>
      <4>1. ASSUME order # <<>> PROVE FALSE
        <5>1. Len(order) \in 1..Len(order)
          BY <4>1, QueueFacts DEF SocketInv
        <5> QED BY <2>1, <4>1, <5>1, QueueFacts, SocketAssumption DEF SocketInv, QueueInv
      <4> QED BY <4>1
    <3>2. Holders = {}
      BY <3>1 DEF SocketInv, OwnerInv, Holders
    <3>3. th'[a] = r /\ \A b \in Agents : b # a => th'[b] = th[b]
      BY <1>1, <1>2 DEF Go, SocketInv, TypeOK
    <3>4. Holders' = {a} /\ r.pc = "connect"
      BY <1>3, <2>1, <3>2, <3>3 DEF Holders
    <3> QED BY <1>3, <3>2, <3>3, <3>4 DEF Failing, At
  <2>2. CASE head # NULL
    <3>1. r.pc = "link"
      BY <1>3, <2>2
    <3> QED BY <1>1, <1>2, <1>4, <3>1, OthersDoNotFail
  <2> QED BY <2>1, <2>2
<1> QED BY <1>1, <1>5, IsSubmit

\* A thread that has not got the right.
LEMMA LinkStutters ==
    ASSUME SocketInv, SocketInv', NEW a \in Agents, Link(a)
    PROVE  UNCHANGED Queue!vars
<1>1. a \notin Holders /\ Go(a, Idle) /\ Idle.pc = "idle"
  BY DEF Link, Holders, At, Idle
<1>2. Failing' <=> Failing
  BY <1>1, OthersDoNotFail
<1> QED BY <1>2, IsStutter DEF Link

\* The pool of the requests is no part of the queue.
LEMMA ReturnStutters ==
    ASSUME SocketInv, SocketInv', NEW a \in Agents, ReturnWriteRequest(a)
    PROVE  UNCHANGED Queue!vars
<1>1. a \notin Holders /\ Go(a, Idle) /\ Idle.pc = "idle" /\ th[a].pc = "return"
  BY DEF ReturnWriteRequest, Holders, At, Idle
<1>2. Failing' <=> Failing
  BY <1>1, OthersDoNotFail
<1>3. PICK x : x = th[a].req /\ x \notin Range(order)
  BY <1>1 DEF SocketInv, QueueInv, At
<1>4. order' = order
  <2>1. order' = RemoveFirst(order, x)
    BY <1>3 DEF ReturnWriteRequest, Release
  <2> QED BY <1>3, <2>1, BothAreQueues, FirstRemoved
<1>5. \A i \in 1..Len(order) : data'[order[i]] = data[order[i]]
  <2>1. \A y \in Requests : y # x => data'[y] = data[y]
    BY <1>3, BothAreQueues DEF ReturnWriteRequest, Release
  <2>2. \A i \in 1..Len(order) : order[i] # x
    BY <1>3, QueueFacts DEF SocketInv
  <2> QED BY <2>1, <2>2, BothAreQueues
<1> QED BY <1>2, <1>4, <1>5, IsStutter

\* Where nothing fails.
LEMMA NobodyFailing ==
    ASSUME SocketInv, SocketInv', UNCHANGED <<order, data>>, ~Failing, ~Failing'
    PROVE  UNCHANGED Queue!vars
  BY IsStutter

\* ConnectIfNot fails the socket or changes nothing of the queue.
LEMMA ConnectIfNotMaps ==
    ASSUME SocketInv, SocketInv', NEW a \in Agents, ConnectIfNot(a)
    PROVE  UNCHANGED Queue!vars \/ Queue!Fail
<1>1. a \in Holders /\ th[a].pc = "connect" /\ UNCHANGED <<order, data>>
  BY DEF ConnectIfNot, Holders, At
<1>2. th[a] \in ThreadStates /\ th[a].from = "once" /\ Holders = {a}
  BY <1>1, HolderFacts DEF Locals
<1>3. ASSUME NEW pc \in {"drop", "once", "background"}, Go(a, To(a, pc))
      PROVE  UNCHANGED Queue!vars \/ Queue!Fail
  <2>1. PICK r : r = To(a, pc)
    OBVIOUS
  <2>2. r.pc = pc
    BY <1>2, <2>1 DEF To, ThreadStates
  <2> QED BY <1>1, <1>2, <1>3, <2>1, <2>2, HolderGoesOn
<1>4. ASSUME Go(a, Idle) PROVE UNCHANGED Queue!vars
  <2>1. Holders' = {}
    BY <1>2, <1>4 DEF Go, Holders, Idle, SocketInv, TypeOK
  <2>2. ~Failing /\ ~Failing'
    BY <1>1, <1>2, <2>1 DEF Failing, At
  <2> QED BY <1>1, <2>2, NobodyFailing
<1> QED BY <1>3, <1>4 DEF ConnectIfNot

\* Handing the write to a bthread is no step of the queue.
LEMMA StartKeepWriteStutters ==
    ASSUME SocketInv, SocketInv', NEW a \in Agents, StartKeepWrite(a)
    PROVE  UNCHANGED Queue!vars
<1>1. a \in Holders /\ th[a].pc = "background" /\ UNCHANGED <<order, data>>
  BY DEF StartKeepWrite, Holders, At
<1>2. th[a].from = "once" /\ Holders = {a}
  BY <1>1, HolderFacts DEF Locals
<1>3. ~Failing
  BY <1>1, <1>2 DEF Failing, At
<1>4. PICK r : r = [Idle EXCEPT !.pc = "keep", !.req = th[a].req, !.from = "keep"]
  OBVIOUS
<1>5. r.pc = "keep" /\ r.from = "keep" /\ Idle.pc = "idle"
  BY <1>4 DEF Idle
<1>6. \A b \in Agents : b \in Holders' => th'[b].pc # "drop" /\ th'[b].from # "fail"
  <2>1. CASE Go(a, r)
    BY <1>2, <1>5, <2>1 DEF Go, Holders, SocketInv, TypeOK
  <2>2. ASSUME NEW k \in Keepers, th' = [th EXCEPT ![k] = r, ![a] = Idle]
        PROVE  \A b \in Agents : b \in Holders' => th'[b].pc # "drop" /\ th'[b].from # "fail"
    BY <1>2, <1>5, <2>2 DEF Holders, SocketInv, TypeOK
  <2> QED BY <1>4, <2>1, <2>2 DEF StartKeepWrite
<1>7. ~Failing'
  BY <1>6 DEF Failing, Holders, At
<1> QED BY <1>1, <1>3, <1>7, NobodyFailing

\* A connection made is no step of the queue; one that fails is a failure.
LEMMA KeepWriteIfConnectedMaps ==
    ASSUME SocketInv, SocketInv', NEW a \in Agents, KeepWriteIfConnected(a)
    PROVE  UNCHANGED Queue!vars \/ Queue!Fail
<1>1. connecting # NULL /\ UNCHANGED <<order, data>>
  BY DEF KeepWriteIfConnected
<1>2. Holders = {} /\ order # <<>>
  BY <1>1 DEF SocketInv, OwnerInv, Holders
<1>3. ~Failing
  BY <1>2 DEF Failing
<1>4. Failing' \/ ~Failing'
  OBVIOUS
<1>5. \A i \in 1..Len(order) : data'[order[i]] = data[order[i]]
  BY <1>1
<1> QED BY <1>1, <1>2, <1>3, <1>4, <1>5, IsFail, NobodyFailing

\* The first write sends bytes or fails the socket.
LEMMA WriteOnceMaps ==
    ASSUME SocketInv, SocketInv', NEW a \in Agents, WriteOnce(a)
    PROVE  Queue!Send \/ Queue!Fail \/ UNCHANGED Queue!vars
<1>1. a \in Holders /\ th[a].pc = "once" /\ UNCHANGED order
  BY DEF WriteOnce, Holders, At
<1>2. /\ th[a] \in ThreadStates /\ th[a].from = "once" /\ th[a].req = order[1]
      /\ th[a].req \in Requests /\ order # <<>>
  BY <1>1, HolderFacts DEF Locals
<1>3. CASE Go(a, To(a, "drop")) /\ UNCHANGED data
  <2>1. PICK r : r = To(a, "drop")
    OBVIOUS
  <2>2. r.pc = "drop"
    BY <1>2, <2>1 DEF To, ThreadStates
  <2> QED BY <1>1, <1>2, <1>3, <2>1, <2>2, HolderGoesOn
<1>4. ASSUME NEW n \in 0..data[th[a].req],
             data' = [data EXCEPT ![th[a].req] = @ - n], Go(a, To(a, "cas"))
      PROVE  Queue!Send
  <2>1. PICK r : r = To(a, "cas")
    OBVIOUS
  <2>2. r.pc = "cas" /\ r.from = "once"
    BY <1>2, <2>1 DEF To, ThreadStates
  <2>3. ~Failing /\ ~Failing'
    BY <1>1, <1>2, <1>4, <2>1, <2>2, HolderFails
  <2>4. /\ data'[order[1]] = data[order[1]] - n /\ data[order[1]] \in 0..Size
        /\ \A y \in Requests : y # order[1] => data'[y] = data[y]
        /\ \A y \in Requests : data[y] \in 0..Size
    BY <1>2, <1>4, BothAreQueues
  <2>5. data'[order[1]] <= data[order[1]]
    BY <1>2, <1>4, <2>4, SocketAssumption
  <2>6. ASSUME NEW i \in 1..Len(order)
        PROVE  /\ data'[order[i]] <= data[order[i]]
               /\ data'[order[i]] < data[order[i]] => \A j \in 1..(i - 1) : data'[order[j]] = 0
    <3>1. order[i] \in Requests /\ (order[i] = order[1] => i = 1)
      BY <1>2, BothAreQueues
    <3>2. CASE i = 1
      BY <2>5, <3>2
    <3>3. CASE i # 1
      <4>1. data'[order[i]] = data[order[i]] /\ data[order[i]] \in 0..Size
        BY <2>4, <3>1, <3>3
      <4> QED BY <4>1, SocketAssumption
    <3> QED BY <3>2, <3>3
  <2> QED BY <1>1, <2>3, <2>6, IsSend
<1> QED BY <1>3, <1>4 DEF WriteOnce


\* DoWrite sends bytes in the order of the queue.
LEMMA DoWriteSends ==
    ASSUME SocketInv, SocketInv', NEW a \in Agents, NEW i \in 1..NReq, NEW b \in 0..Size,
           DoWrite(a, i, b)
    PROVE  Queue!Send
<1>1. a \in Holders /\ th[a].pc \in {"write", "keep"} /\ UNCHANGED order
  BY DEF DoWrite, Holders, At
<1>2. th[a] \in ThreadStates /\ th[a].from = "keep"
  BY <1>1, HolderFacts DEF Locals
<1>3. PICK k \in 1..Len(order) : HolderAt(th[a], k)
  BY <1>1, HolderFacts
<1>4. /\ i \in 1..k /\ b <= data[order[i]]
      /\ \A j \in 1..Len(order) :
            data'[order[j]] = IF j < i THEN 0 ELSE IF j = i THEN data[order[i]] - b
                              ELSE data[order[j]]
  BY <1>3, WrittenIsInHand
<1>5. PICK r : r = [th[a] EXCEPT !.pc = "skim", !.nw = data' # data]
  OBVIOUS
<1>6. r.pc = "skim" /\ r.from = "keep" /\ Go(a, r)
  BY <1>2, <1>5 DEF ThreadStates, DoWrite
<1>7. ~Failing /\ ~Failing'
  BY <1>1, <1>2, <1>6, HolderFails
<1>8. \A j \in 1..Len(order) : data[order[j]] \in 0..Size
  BY BothAreQueues
<1>9. ASSUME NEW j \in 1..Len(order)
      PROVE  /\ data'[order[j]] <= data[order[j]]
             /\ data'[order[j]] < data[order[j]] => \A m \in 1..(j - 1) : data'[order[m]] = 0
  <2>1. data[order[j]] \in 0..Size /\ i \in 1..Len(order) /\ Size \in Nat /\ Len(order) \in Nat
    BY <1>4, <1>8, BothAreQueues, SocketAssumption
  <2>2. data'[order[j]] <= data[order[j]]
    <3>1. CASE j < i
      BY <1>4, <2>1, <3>1
    <3>2. CASE j = i
      BY <1>4, <2>1, <3>2
    <3>3. CASE j > i
      BY <1>4, <2>1, <3>3
    <3> QED BY <2>1, <3>1, <3>2, <3>3
  <2>3. j > i => data'[order[j]] = data[order[j]]
    BY <1>4, <2>1
  <2>4. j <= i => \A m \in 1..(j - 1) : m \in 1..Len(order) /\ m < i
    BY <2>1
  <2>5. j <= i => \A m \in 1..(j - 1) : data'[order[m]] = 0
    BY <1>4, <2>4
  <2> QED BY <2>1, <2>2, <2>3, <2>5
<1> QED BY <1>1, <1>7, <1>9, IsSend

\* A write that fails is a failure of the queue.
LEMMA FailToWriteMaps ==
    ASSUME SocketInv, SocketInv', NEW a \in Agents, FailToWrite(a)
    PROVE  Queue!Fail \/ UNCHANGED Queue!vars
<1>1. a \in Holders /\ UNCHANGED <<order, data>>
  BY DEF FailToWrite, Holders, At
<1>2. PICK r : r = To(a, "drop")
  OBVIOUS
<1>3. r.pc = "drop" /\ Go(a, r)
  BY <1>1, <1>2, HolderFacts DEF FailToWrite, To, ThreadStates
<1> QED BY <1>1, <1>3, HolderGoesOn

\* The first request leaves the queue and the thread goes on with the next one.
LEMMA ReleasedData ==
    ASSUME SocketInv, SocketInv', order # <<>>, Release(order[1])
    PROVE  /\ order' = RemoveFirst(order, order[1])
           /\ \A i \in 2..Len(order) : data'[order[i]] = data[order[i]]
<1>1. order' = RemoveFirst(order, order[1])
  BY DEF Release
<1>2. PICK x : x = order[1]
  OBVIOUS
<1>3. \A y \in Requests : y # x => data'[y] = data[y]
  BY <1>2, BothAreQueues DEF Release
<1>4. \A i \in 2..Len(order) : order[i] \in Requests /\ order[i] # x
  BY <1>2, BothAreQueues
<1> QED BY <1>1, <1>3, <1>4

\* KeepWrite returns the first request once it was sent.
LEMMA SkipReturns ==
    ASSUME SocketInv, SocketInv', NEW a \in Agents, Skip(a)
    PROVE  Queue!Return
<1>1. a \in Holders /\ th[a].pc \in {"keep", "skim"} /\ data[th[a].req] = 0
  BY DEF Skip, Written, Holders, At
<1>2. th[a] \in ThreadStates /\ th[a].from = "keep" /\ th[a].req = order[1] /\ order # <<>>
  BY <1>1, HolderFacts DEF Locals
<1>3. PICK r : r = [th[a] EXCEPT !.req = next[th[a].req],
                                 !.pc = IF At(a, "keep") THEN "write" ELSE "skim"]
  OBVIOUS
<1>4. r.pc \in {"write", "skim"} /\ r.from = "keep" /\ Go(a, r)
  BY <1>2, <1>3 DEF Skip, ThreadStates
<1>5. ~Failing /\ ~Failing'
  BY <1>1, <1>2, <1>4, HolderFails
<1>6. PICK x : x = th[a].req /\ x = order[1] /\ Release(x)
  BY <1>2 DEF Skip
<1>7. /\ order' = RemoveFirst(order, order[1])
      /\ \A i \in 2..Len(order) : data'[order[i]] = data[order[i]]
  BY <1>2, <1>6, ReleasedData
<1> QED BY <1>1, <1>2, <1>5, <1>7, IsReturn

\* ReleaseAllFailedWriteRequests drops the first request.
LEMMA ReleaseFailedDrops ==
    ASSUME SocketInv, SocketInv', NEW a \in Agents, ReleaseFailed(a)
    PROVE  Queue!Drop
<1>1. a \in Holders /\ th[a].pc = "drop" /\ next[th[a].req] # NULL
  BY DEF ReleaseFailed, Holders, At
<1>2. th[a] \in ThreadStates /\ th[a].req = order[1] /\ order # <<>>
  BY <1>1, HolderFacts
<1>3. PICK r : r = [th[a] EXCEPT !.req = next[th[a].req], !.from = "fail", !.cur = NULL]
  OBVIOUS
<1>4. r.pc = "drop" /\ Go(a, r)
  BY <1>1, <1>2, <1>3 DEF ReleaseFailed, ThreadStates
<1>5. Failing /\ Failing'
  BY <1>1, <1>4, HolderFails
<1>6. PICK x : x = th[a].req /\ x = order[1] /\ Release(x)
  BY <1>2 DEF ReleaseFailed
<1>7. /\ order' = RemoveFirst(order, order[1])
      /\ \A i \in 2..Len(order) : data'[order[i]] = data[order[i]]
  BY <1>2, <1>6, ReleasedData
<1>8. Len(order) # 1
  BY <1>1, SecondInHand
<1> QED BY <1>2, <1>5, <1>7, <1>8, IsDrop

\* The bytes of the last request are thrown away after a failure.
LEMMA ClearLastClears ==
    ASSUME SocketInv, SocketInv', NEW a \in Agents, ClearLast(a)
    PROVE  Queue!Clear
<1>1. a \in Holders /\ th[a].pc = "drop" /\ UNCHANGED order
  BY DEF ClearLast, Holders, At
<1>2. th[a] \in ThreadStates /\ th[a].req = order[1] /\ order # <<>>
  BY <1>1, HolderFacts
<1>3. PICK r : r = [th[a] EXCEPT !.pc = "cas", !.from = "fail", !.cur = NULL]
  OBVIOUS
<1>4. r.pc = "cas" /\ r.from = "fail" /\ Go(a, r)
  BY <1>2, <1>3 DEF ClearLast, ThreadStates
<1>5. Failing /\ Failing'
  BY <1>1, <1>4, HolderFails
<1>6. data' = [data EXCEPT ![order[1]] = 0]
  BY <1>2 DEF ClearLast
<1> QED BY <1>1, <1>2, <1>5, <1>6, IsClear

\* To look whether something is left is no step of the queue, or its failure.
LEMMA SkimmedStutters ==
    ASSUME SocketInv, SocketInv', NEW a \in Agents, Skimmed(a)
    PROVE  UNCHANGED Queue!vars \/ Queue!Fail
<1>1. a \in Holders /\ th[a].pc = "skim" /\ UNCHANGED <<order, data>>
  BY DEF Skimmed, Holders, At
<1>2. PICK r : r = [th[a] EXCEPT !.pc = IF th[a].nw THEN "cas" ELSE "poll", !.nw = FALSE,
                       !.cur = IF th[a].nw /\ @ = NULL THEN Last(List(th[a].req)) ELSE @]
  OBVIOUS
<1>3. r.pc \in {"cas", "poll"} /\ Go(a, r) /\ th[a].from = "keep"
  BY <1>1, <1>2, HolderFacts DEF Skimmed, ThreadStates, Locals
<1> QED BY <1>1, <1>3, HolderGoesOn

\* Waiting is no step of the queue; a wait that fails is its failure.
LEMMA WaitEpollOutMaps ==
    ASSUME SocketInv, SocketInv', NEW a \in Agents, WaitEpollOut(a)
    PROVE  UNCHANGED Queue!vars \/ Queue!Fail
<1>1. a \in Holders /\ th[a].pc = "poll" /\ UNCHANGED <<order, data>>
  BY DEF WaitEpollOut, Holders, At
<1>2. th[a] \in ThreadStates /\ th[a].from = "keep"
  BY <1>1, HolderFacts DEF Locals
<1>3. PICK r : /\ r \in {[th[a] EXCEPT !.pc = "cas",
                                 !.cur = IF @ = NULL THEN Last(List(th[a].req)) ELSE @],
                         To(a, "drop")}
               /\ Go(a, r)
  BY DEF WaitEpollOut
<1>4. r.pc \in {"cas", "drop"}
  BY <1>2, <1>3 DEF To, ThreadStates
<1> QED BY <1>1, <1>2, <1>3, <1>4, HolderGoesOn

\* _write_head set to NULL returns or drops the last request.
LEMMA CompareExchangeMaps ==
    ASSUME SocketInv, SocketInv', NEW a \in Agents, CompareExchange(a)
    PROVE  Queue!Return \/ Queue!Drop \/ Queue!Fail \/ UNCHANGED Queue!vars
<1>1. a \in Holders /\ th[a].pc = "cas" /\ At(a, "cas") /\ UNCHANGED data
  BY DEF CompareExchange, Holders, At
<1>2. /\ th[a] \in ThreadStates /\ Holders = {a} /\ th[a].req = order[1] /\ order # <<>>
      /\ Failing <=> th[a].from = "fail"
  <2>1. Failing <=> th[a].from = "fail"
    BY <1>1, HolderFacts DEF Failing, At
  <2> QED BY <1>1, <2>1, HolderFacts
<1>3. CASE /\ head = OldHead(a) /\ ReturnWhenNoMore(a) /\ order' = RemoveFirst(order, th[a].req)
           /\ Go(a, To(a, "return"))
  <2>1. PICK q : q = RemoveFirst(order, th[a].req)
    OBVIOUS
  <2>2. Len(order) = 1 /\ data[order[1]] = 0
    BY <1>1, <1>3, <2>1, OnlyRequest
  <2>3. Holders' = {}
    BY <1>2, <1>3 DEF Holders, Go, To, ThreadStates, SocketInv, TypeOK
  <2>4. ~Failing'
    BY <2>3 DEF Failing
  <2>5. order' = RemoveFirst(order, order[1])
    BY <1>2, <1>3
  <2>6. \A i \in 2..Len(order) : data'[order[i]] = data[order[i]]
    BY <2>2
  <2>7. CASE Failing
    BY <1>2, <2>2, <2>4, <2>5, <2>6, <2>7, IsDrop
  <2>8. CASE ~Failing
    BY <1>2, <2>2, <2>4, <2>5, <2>6, <2>8, IsReturn
  <2> QED BY <2>7, <2>8
<1>4. CASE Go(a, To(a, Back(a))) /\ UNCHANGED order
  <2>1. PICK r : r = To(a, Back(a))
    OBVIOUS
  <2>2. r.pc = Back(a) /\ r.from = th[a].from
    BY <1>2, <2>1 DEF To, ThreadStates
  <2>3. r.pc \in {"background", "keep", "drop"}
    BY <1>2, <2>2 DEF Back, ThreadStates
  <2> QED BY <1>1, <1>4, <2>1, <2>2, <2>3, HolderGoesOn
<1>5. CASE /\ Go(a, [th[a] EXCEPT !.pc = "reverse", !.new = head, !.p = head, !.tail = NULL])
           /\ UNCHANGED order
  <2>1. PICK r : r = [th[a] EXCEPT !.pc = "reverse", !.new = head, !.p = head, !.tail = NULL]
    OBVIOUS
  <2>2. r.pc = "reverse" /\ r.from = th[a].from
    BY <1>2, <2>1 DEF ThreadStates
  <2> QED BY <1>1, <1>5, <2>1, <2>2, HolderGoesOn
<1> QED BY <1>3, <1>4, <1>5 DEF CompareExchange

\* Turning round a link is no step of the queue.
LEMMA ReverseListMaps ==
    ASSUME SocketInv, SocketInv', NEW a \in Agents, ReverseList(a)
    PROVE  UNCHANGED Queue!vars \/ Queue!Fail
<1>1. a \in Holders /\ th[a].pc = "reverse" /\ UNCHANGED <<order, data>>
  BY DEF ReverseList, Holders, At
<1>2. th[a] \in ThreadStates
  BY <1>1, HolderFacts
<1>3. PICK done \in BOOLEAN : done = (next[th[a].p] = OldHead(a))
  OBVIOUS
<1>4. PICK r : r = [th[a] EXCEPT !.tail = th[a].p, !.p = IF done THEN th[a].p ELSE next[th[a].p],
                                 !.pc = IF done THEN "setup" ELSE "reverse"]
  OBVIOUS
<1>5. r.pc \in {"setup", "reverse"} /\ r.from = th[a].from
  BY <1>2, <1>4 DEF ThreadStates
<1>6. Go(a, r)
  BY <1>3, <1>4 DEF ReverseList
<1> QED BY <1>1, <1>5, <1>6, HolderGoesOn

\* Packing a request is no step of the queue.
LEMMA SetupMaps ==
    ASSUME SocketInv, SocketInv', NEW a \in Agents, Setup(a)
    PROVE  UNCHANGED Queue!vars \/ Queue!Fail
<1>1. a \in Holders /\ th[a].pc = "setup" /\ UNCHANGED <<order, data>>
  BY DEF Setup, Holders, At
<1>2. th[a] \in ThreadStates
  BY <1>1, HolderFacts
<1>3. PICK r : /\ r \in {[th[a] EXCEPT !.pc = Back(a), !.p = NULL, !.new = NULL, !.tail = NULL,
                             !.cur = IF th[a].from = "keep" THEN th[a].new ELSE @],
                         [th[a] EXCEPT !.p = next[th[a].p]]}
               /\ Go(a, r)
  BY DEF Setup
<1>4. r.pc \in {Back(a), "setup"} /\ r.from = th[a].from
  BY <1>1, <1>2, <1>3 DEF ThreadStates
<1>5. Back(a) \in {"background", "keep", "drop"}
  BY <1>2 DEF Back, ThreadStates
<1> QED BY <1>1, <1>3, <1>4, <1>5, HolderGoesOn

\* Every action is an operation of the queue or leaves the queue as it is.
LEMMA QueueStep ==
    ASSUME SocketInv, SocketInv', [Next]_vars
    PROVE  [Queue!Next]_(Queue!vars)
<1>1. ASSUME UNCHANGED vars PROVE UNCHANGED Queue!vars
  <2>1. UNCHANGED <<order, data, th>>
    BY <1>1 DEF vars
  <2>2. Failing' <=> Failing
    BY <2>1 DEF Failing, Holders, At
  <2> QED BY <2>1, <2>2, IsStutter
<1>2. ASSUME NEW a \in Agents, Step(a) PROVE Queue!Next \/ UNCHANGED Queue!vars
  BY <1>2, LinkStutters, ConnectIfNotMaps, WriteOnceMaps, StartKeepWriteStutters, SkipReturns,
     SkimmedStutters, WaitEpollOutMaps, CompareExchangeMaps, ReverseListMaps, SetupMaps,
     ReturnStutters, ReleaseFailedDrops, ClearLastClears DEF Step, Queue!Next
<1>3. ASSUME NEW a \in Agents, Exchange(a) PROVE Queue!Next
  BY <1>3, ExchangeSubmits DEF Queue!Next
<1>4. ASSUME NEW a \in Agents, KeepWriteIfConnected(a) PROVE Queue!Next \/ UNCHANGED Queue!vars
  BY <1>4, KeepWriteIfConnectedMaps DEF Queue!Next
<1>5. ASSUME NEW a \in Agents, Write(a) PROVE Queue!Next
  <2>1. PICK i \in 1..NReq, b \in 0..Size : DoWrite(a, i, b)
    BY <1>5 DEF Write
  <2> QED BY <2>1, DoWriteSends DEF Queue!Next
<1>6. ASSUME NEW a \in Agents, FailToWrite(a) PROVE Queue!Next \/ UNCHANGED Queue!vars
  BY <1>6, FailToWriteMaps DEF Queue!Next
<1> QED BY <1>1, <1>2, <1>3, <1>4, <1>5, <1>6 DEF Next

(***************************************************************************)
(* The lock-free list implements a queue: requests are sent in the order   *)
(* of their exchange with _write_head, byte after byte, and leave in that  *)
(* order, each once, written or, after a failure, given back unsent.       *)
(***************************************************************************)
THEOREM SocketIsAQueue == Spec => WritesAreQueued
<1>1. Init => Queue!Init
  <2>1. SUFFICES ASSUME Init PROVE Queue!Init
    OBVIOUS
  <2>2. order = <<>> /\ Len(order) = 0 /\ Holders = {}
    BY <2>1 DEF Init, Holders, Idle
  <2>3. Failing = FALSE
    BY <2>2 DEF Failing
  <2>4. [i \in 1..Len(order) |-> [req |-> order[i], left |-> data[order[i]]]] = <<>>
    BY <2>2
  <2> QED BY <2>3, <2>4 DEF Queue!Init
<1>2. SocketInv /\ SocketInv' /\ [Next]_vars => [Queue!Next]_(Queue!vars)
  BY QueueStep
<1> QED BY <1>1, <1>2, SocketInvariant, PTL DEF Spec, WritesAreQueued, Queue!Spec

=============================================================================
