----------------------------- MODULE ListLemmas -----------------------------
(***************************************************************************)
(* Facts about waiter lists: what RemoveFromList, Append and taking a      *)
(* prefix do to the set of members and to the absence of duplicates.       *)
(***************************************************************************)
EXTENDS Integers, Sequences, SequencesExt, SequenceTheorems, TLAPS

\* RemoveAt shifts the elements behind the removed one.
LEMMA RemoveAtElements ==
    ASSUME NEW S, NEW s \in Seq(S), NEW i \in 1..Len(s)
    PROVE  /\ RemoveAt(s, i) \in Seq(S)
           /\ Len(RemoveAt(s, i)) = Len(s) - 1
           /\ \A j \in 1..(Len(s) - 1) :
                 RemoveAt(s, i)[j] = IF j < i THEN s[j] ELSE s[j + 1]
<1> DEFINE f == SubSeq(s, 1, i - 1)
           t == SubSeq(s, i + 1, Len(s))
<1>1. /\ f \in Seq(S) /\ Len(f) = i - 1
      /\ \A j \in 1..(i - 1) : f[j] = s[j]
  BY SubSeqProperties
<1>2. /\ t \in Seq(S) /\ Len(t) = Len(s) - i
      /\ \A j \in 1..(Len(s) - i) : t[j] = s[i + j]
  BY SubSeqProperties
<1> HIDE DEF f, t
<1>3. /\ f \o t \in Seq(S) /\ Len(f \o t) = Len(s) - 1
      /\ \A j \in 1..(Len(s) - 1) :
            (f \o t)[j] = IF j < i THEN f[j] ELSE t[j - (i - 1)]
  <2>1. /\ f \o t \in Seq(S) /\ Len(f \o t) = Len(f) + Len(t)
        /\ \A j \in 1..(Len(f) + Len(t)) :
              (f \o t)[j] = IF j <= Len(f) THEN f[j] ELSE t[j - Len(f)]
    BY <1>1, <1>2, ConcatProperties, Zenon
  <2>2. Len(f) + Len(t) = Len(s) - 1 /\ \A j \in Int : j <= Len(f) <=> j < i
    BY <1>1, <1>2
  <2> QED BY <1>1, <2>1, <2>2
<1>4. ASSUME NEW j \in 1..(Len(s) - 1)
      PROVE  (f \o t)[j] = IF j < i THEN s[j] ELSE s[j + 1]
  <2>1. CASE j < i
    BY <1>1, <1>3, <2>1
  <2>2. CASE ~(j < i)
    <3>1. j - (i - 1) \in 1..(Len(s) - i) /\ i + (j - (i - 1)) = j + 1
      BY <2>2
    <3> QED BY <1>2, <1>3, <2>2, <3>1
  <2> QED BY <2>1, <2>2
<1> QED BY <1>3, <1>4 DEF RemoveAt, f, t

\* A list without duplicates loses exactly the removed element.
LEMMA RemoveAtRange ==
    ASSUME NEW S, NEW s \in Seq(S), NEW i \in 1..Len(s), IsInjective(s)
    PROVE  /\ IsInjective(RemoveAt(s, i))
           /\ Range(RemoveAt(s, i)) = Range(s) \ {s[i]}
<1> DEFINE r == RemoveAt(s, i)
<1>1. /\ r \in Seq(S)
      /\ Len(r) = Len(s) - 1
      /\ \A j \in 1..(Len(s) - 1) : r[j] = IF j < i THEN s[j] ELSE s[j + 1]
  BY RemoveAtElements
<1>2. DOMAIN r = 1..(Len(s) - 1) /\ DOMAIN s = 1..Len(s)
  BY <1>1
<1> HIDE DEF r
<1>3. IsInjective(r)
  <2>1. ASSUME NEW j \in 1..(Len(s) - 1), NEW k \in 1..(Len(s) - 1), r[j] = r[k]
        PROVE  j = k
    <3> DEFINE at(m) == IF m < i THEN m ELSE m + 1
    <3>1. at(j) \in 1..Len(s) /\ at(k) \in 1..Len(s)
      OBVIOUS
    <3>2. r[j] = s[at(j)] /\ r[k] = s[at(k)]
      BY <1>1
    <3>3. at(j) = at(k)
      BY <1>2, <2>1, <3>1, <3>2 DEF IsInjective
    <3> QED BY <3>3
  <2> QED BY <1>2, <2>1 DEF IsInjective
<1>4. ASSUME NEW x \in Range(r) PROVE x \in Range(s) \ {s[i]}
  BY <1>1, <1>2, <1>4 DEF Range, IsInjective
<1>5. ASSUME NEW x \in Range(s) \ {s[i]} PROVE x \in Range(r)
  <2>1. PICK k \in 1..Len(s) : x = s[k]
    BY <1>2, <1>5 DEF Range
  <2>2. CASE k < i
    <3>1. k \in 1..(Len(s) - 1) /\ r[k] = x
      BY <1>1, <2>1, <2>2
    <3> QED BY <3>1, <1>2 DEF Range
  <2>3. CASE k > i
    <3>1. k - 1 \in 1..(Len(s) - 1) /\ r[k - 1] = x
      BY <1>1, <2>1, <2>3
    <3> QED BY <3>1, <1>2 DEF Range
  <2> QED BY <1>5, <2>1, <2>2, <2>3
<1> QED BY <1>3, <1>4, <1>5 DEF r

\* RemoveFromList: a list without duplicates loses the element, if it has it.
LEMMA RemoveFirstRange ==
    ASSUME NEW S, NEW s \in Seq(S), NEW e, IsInjective(s)
    PROVE  /\ RemoveFirst(s, e) \in Seq(S)
           /\ IsInjective(RemoveFirst(s, e))
           /\ Range(RemoveFirst(s, e)) = Range(s) \ {e}
<1>1. CASE \E i \in 1..Len(s) : s[i] = e
  <2>1. PICK k \in 1..Len(s) : s[k] = e
    BY <1>1
  <2>2. {i \in 1..Len(s) : s[i] = e} = {k}
    BY <2>1 DEF IsInjective
  <2>3. Min({k}) = k
    BY DEF Min
  <2>4. SelectInSeq(s, LAMBDA v : v = e) = k
    BY <2>2, <2>3 DEF SelectInSeq
  <2>5. RemoveFirst(s, e) = RemoveAt(s, k)
    BY <1>1, <2>4 DEF RemoveFirst
  <2> QED BY <2>1, <2>5, RemoveAtElements, RemoveAtRange
<1>2. CASE ~\E i \in 1..Len(s) : s[i] = e
  <2>1. RemoveFirst(s, e) = s
    BY <1>2 DEF RemoveFirst
  <2>2. e \notin Range(s)
    BY <1>2 DEF Range
  <2> QED BY <2>1, <2>2
<1> QED BY <1>1, <1>2

\* Appending a new element.
LEMMA AppendRange ==
    ASSUME NEW S, NEW s \in Seq(S), NEW e \in S
    PROVE  /\ Append(s, e) \in Seq(S)
           /\ Range(Append(s, e)) = Range(s) \cup {e}
           /\ IsInjective(s) /\ e \notin Range(s) => IsInjective(Append(s, e))
<1>1. /\ Append(s, e) \in Seq(S)
      /\ DOMAIN Append(s, e) = 1..(Len(s) + 1) /\ DOMAIN s = 1..Len(s)
      /\ \A j \in 1..Len(s) : Append(s, e)[j] = s[j]
      /\ Append(s, e)[Len(s) + 1] = e
  OBVIOUS
<1>2. Range(Append(s, e)) = Range(s) \cup {e}
  <2>1. ASSUME NEW x \in Range(Append(s, e)) PROVE x \in Range(s) \cup {e}
    BY <1>1, <2>1 DEF Range
  <2>2. ASSUME NEW x \in Range(s) PROVE x \in Range(Append(s, e))
    <3>1. PICK k \in 1..Len(s) : x = s[k]
      BY <1>1, <2>2 DEF Range
    <3>2. k \in 1..(Len(s) + 1) /\ Append(s, e)[k] = x
      BY <1>1, <3>1
    <3> QED BY <1>1, <3>2 DEF Range
  <2>3. e \in Range(Append(s, e))
    <3>1. Len(s) + 1 \in 1..(Len(s) + 1)
      OBVIOUS
    <3> QED BY <1>1, <3>1 DEF Range
  <2> QED BY <2>1, <2>2, <2>3
<1>3. ASSUME IsInjective(s), e \notin Range(s) PROVE IsInjective(Append(s, e))
  <2>1. \A j \in 1..Len(s) : s[j] # e
    BY <1>1, <1>3 DEF Range
  <2>2. \A j \in 1..(Len(s) + 1) : j = Len(s) + 1 \/ j \in 1..Len(s)
    OBVIOUS
  <2> QED BY <1>1, <1>3, <2>1, <2>2 DEF IsInjective
<1> QED BY <1>1, <1>2, <1>3

\* The empty list has no member, a list of one element has that one.
LEMMA SmallRange ==
    ASSUME NEW S
    PROVE  /\ Range(<<>>) = {} /\ IsInjective(<<>>) /\ <<>> \in Seq(S)
           /\ \A s \in Seq(S) : s # <<>> => Head(s) \in Range(s)
           /\ \A s \in Seq(S) : Len(s) = 1 => Range(s) = {Head(s)}
  BY DEF Range, IsInjective

\* Taking the last element off a list without duplicates.
LEMMA FrontRange ==
    ASSUME NEW S, NEW s \in Seq(S), s # <<>>, IsInjective(s)
    PROVE  /\ Front(s) \in Seq(S) /\ Len(Front(s)) = Len(s) - 1
           /\ IsInjective(Front(s))
           /\ Last(s) \in Range(s)
           /\ Range(Front(s)) = Range(s) \ {Last(s)}
<1>1. Len(s) \in 1..Len(s)
  OBVIOUS
<1>2. Front(s) = RemoveAt(s, Len(s))
  <2>1. SubSeq(s, Len(s) + 1, Len(s)) = <<>>
    BY SubSeqEmpty
  <2>2. \A i \in 1..(Len(s) - 1) : s[i] \in S
    OBVIOUS
  <2>3. SubSeq(s, 1, Len(s) - 1) \in Seq(S)
    BY <2>2, SubSeqProperties
  <2> QED BY <2>1, <2>3, ConcatEmptySeq DEF Front, RemoveAt
<1>3. Last(s) = s[Len(s)] /\ Last(s) \in Range(s)
  BY <1>1 DEF Last, Range
<1> QED BY <1>1, <1>2, <1>3, RemoveAtElements, RemoveAtRange

\* Taking the first element off a list without duplicates.
LEMMA TailRange ==
    ASSUME NEW S, NEW s \in Seq(S), s # <<>>, IsInjective(s)
    PROVE  /\ Tail(s) \in Seq(S)
           /\ IsInjective(Tail(s))
           /\ Head(s) \in S
           /\ Range(Tail(s)) = Range(s) \ {Head(s)}
<1>1. 1 \in 1..Len(s) /\ Head(s) = s[1] /\ Len(s) \in Nat
  OBVIOUS
<1>2. Tail(s) = RemoveAt(s, 1)
  <2>1. /\ Tail(s) \in Seq(S) /\ Len(Tail(s)) = Len(s) - 1
        /\ \A j \in 1..(Len(s) - 1) : Tail(s)[j] = s[j + 1]
    BY <1>1
  <2>2. /\ RemoveAt(s, 1) \in Seq(S) /\ Len(RemoveAt(s, 1)) = Len(s) - 1
        /\ \A j \in 1..(Len(s) - 1) : RemoveAt(s, 1)[j] = s[j + 1]
    BY <1>1, RemoveAtElements
  <2> QED BY <2>1, <2>2, SeqEqual
<1>3. Head(s) \in S
  BY <1>1
<1>4. /\ RemoveAt(s, 1) \in Seq(S)
      /\ IsInjective(RemoveAt(s, 1))
      /\ Range(RemoveAt(s, 1)) = Range(s) \ {s[1]}
  BY <1>1, RemoveAtElements, RemoveAtRange
<1> QED BY <1>1, <1>2, <1>3, <1>4

=============================================================================
