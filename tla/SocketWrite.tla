---------------------------- MODULE SocketWrite ----------------------------
(***************************************************************************)
(* How many threads write to one connection without a lock: the code of    *)
(* Socket::StartWrite, KeepWrite and IsWriteComplete that                  *)
(* docs/io_write.md explains.  A thread exchanges its request with         *)
(* _write_head.  The one that finds NULL has the right to write and hands  *)
(* it to a KeepWrite bthread when one write is not enough; the others link *)
(* their request to the one before and return.  The holder of the right    *)
(* takes over what was added by reversing the list and gives the right up  *)
(* with a compare-and-swap that puts NULL back.                            *)
(*                                                                         *)
(* A step is one access to shared memory (_write_head, or the `next' of a  *)
(* request that another thread may be linking), one call into the socket,  *)
(* or the release of one request.  Requests are taken again once they were *)
(* released, as from the object pool.  What the doc does not quote is      *)
(* modelled from its use: the connection, the kernel's buffer, epoll,      *)
(* bthread_start_background and the release of requests.                   *)
(***************************************************************************)
EXTENDS Naturals, Sequences, FiniteSets, SequencesExt

CONSTANTS
    Writers,      \* threads that call StartWrite
    Keepers,      \* bthreads that run KeepWrite
    NReq,         \* WriteRequests in the pool
    Size,         \* bytes of a request
    NULL, UNCONNECTED

Requests == 1..NReq

ASSUME SocketAssumption ==
    /\ NReq \in Nat /\ Size \in Nat \ {0}
    /\ NULL \notin Requests /\ UNCONNECTED \notin Requests \cup {NULL}

Agents == Writers \cup Keepers
Pointer == Requests \cup {NULL}

VARIABLES
    head,         \* _write_head
    next,         \* WriteRequest::next
    data,         \* bytes left in WriteRequest::data
    busy,         \* requests that were not given back to the pool
    connecting,   \* the request of a connection under way, or NULL
    th,           \* where each thread is, and its local variables
    ready,        \* auxiliary: requests for which Setup() was called
    order         \* auxiliary: the requests in the order of their exchange,
                  \* until they are written or given up

vars == <<head, next, data, busy, connecting, th, ready, order>>

Idle == [pc |-> "idle", req |-> NULL, cur |-> NULL, new |-> NULL, p |-> NULL,
         tail |-> NULL, from |-> "once", nw |-> FALSE]

Init ==
    /\ head = NULL
    /\ next = [r \in Requests |-> UNCONNECTED]
    /\ data = [r \in Requests |-> 0]
    /\ busy = {} /\ ready = {} /\ order = <<>>
    /\ connecting = NULL
    /\ th = [a \in Agents |-> Idle]

-----------------------------------------------------------------------------
At(a, pc) == th[a].pc = pc
Go(a, l) == th' = [th EXCEPT ![a] = l]
To(a, pc) == [th[a] EXCEPT !.pc = pc]

\* The list in the hands of the holder of the right: from r on along next.
IsList(l, r) ==
    /\ l # <<>> /\ l[1] = r
    /\ \A i \in 1..(Len(l) - 1) : next[l[i]] = l[i + 1]
    /\ next[l[Len(l)]] \notin Requests

List(r) == CHOOSE l \in SeqOf(Requests, NReq) : IsList(l, r)

\* The request goes back to the pool.
Release(r) ==
    /\ busy' = busy \ {r}
    /\ ready' = ready \ {r}
    /\ order' = RemoveFirst(order, r)
    /\ next' = [next EXCEPT ![r] = UNCONNECTED]
    /\ data' = [data EXCEPT ![r] = 0]

-----------------------------------------------------------------------------
(* StartWrite.                                                             *)

\* A request is taken from the pool, filled and exchanged with _write_head.
Exchange(a) ==
    /\ a \in Writers /\ At(a, "idle")
    /\ Requests \ busy # {}
    /\ LET r == CHOOSE x \in Requests \ busy : \A y \in Requests \ busy : x <= y IN
       /\ busy' = busy \cup {r}
       /\ data' = [data EXCEPT ![r] = Size]
       /\ order' = Append(order, r)
       /\ head' = r
       /\ Go(a, [Idle EXCEPT !.pc = IF head = NULL THEN "connect" ELSE "link",
                             !.req = r, !.p = head])
    /\ UNCHANGED <<next, connecting, ready>>

\* Someone is writing: req->next = prev_head, return 0.
Link(a) ==
    /\ At(a, "link")
    /\ next' = [next EXCEPT ![th[a].req] = th[a].p]
    /\ Go(a, Idle)
    /\ UNCHANGED <<head, data, busy, connecting, ready, order>>

\* req->next = NULL and ConnectIfNot: it fails, goes on in the background,
\* or there is a connection; then Setup(), and on to the write, which is in
\* the background for SSL.
ConnectIfNot(a) ==
    /\ At(a, "connect")
    /\ next' = [next EXCEPT ![th[a].req] = NULL]
    /\ \/ /\ Go(a, To(a, "drop"))
          /\ UNCHANGED <<connecting, ready>>
       \/ /\ connecting' = th[a].req
          /\ Go(a, Idle)
          /\ UNCHANGED ready
       \/ /\ \E pc \in {"once", "background"} : Go(a, To(a, pc))
          /\ ready' = ready \cup {th[a].req}
          /\ UNCHANGED connecting
    /\ UNCHANGED <<head, data, busy, order>>

\* One write of the own request: a part of it (nothing with EAGAIN or
\* EOVERCROWDED), or the connection failed.
WriteOnce(a) ==
    /\ At(a, "once")
    /\ \/ /\ \E n \in 0..data[th[a].req] :
                data' = [data EXCEPT ![th[a].req] = @ - n]
          /\ Go(a, To(a, "cas"))
       \/ Go(a, To(a, "drop")) /\ UNCHANGED data
    /\ UNCHANGED <<head, next, busy, connecting, ready, order>>

\* KEEPWRITE_IN_BACKGROUND: a bthread takes req over, or the thread itself
\* keeps writing when none can be started.
StartKeepWrite(a) ==
    /\ At(a, "background")
    /\ LET keep == [Idle EXCEPT !.pc = "keep", !.req = th[a].req, !.from = "keep"] IN
       \/ \E k \in Keepers : At(k, "idle") /\ th' = [th EXCEPT ![k] = keep, ![a] = Idle]
       \/ Go(a, keep)
    /\ UNCHANGED <<head, next, data, busy, connecting, ready, order>>

\* KeepWriteIfConnected: the connection is there (or not), in a bthread.
KeepWriteIfConnected(k) ==
    /\ k \in Keepers /\ At(k, "idle")
    /\ connecting # NULL
    /\ connecting' = NULL
    /\ \/ /\ Go(k, [Idle EXCEPT !.pc = "keep", !.req = connecting, !.from = "keep"])
          /\ ready' = ready \cup {connecting}
       \/ /\ Go(k, [Idle EXCEPT !.pc = "drop", !.req = connecting])
          /\ UNCHANGED ready
    /\ UNCHANGED <<head, next, data, busy, order>>

-----------------------------------------------------------------------------
(* KeepWrite.                                                              *)

Written_not_all(r) == next[r] # NULL     \* though bytes are left

\* A request that was written and is not the last one.
Written(r) == next[r] # NULL /\ data[r] = 0

\* "req was written, skip it": it is released and the next one is written.
\* The same step, repeated, follows a write ("skim").
Skip(a) ==
    /\ At(a, "keep") \/ At(a, "skim")
    /\ Written(th[a].req)
    /\ Go(a, [th[a] EXCEPT !.req = next[th[a].req],
                           !.pc = IF At(a, "keep") THEN "write" ELSE "skim"])
    /\ Release(th[a].req)
    /\ UNCHANGED <<head, connecting>>

\* Of the list l, the requests before the i-th were written and b bytes of that one.
Cut(l, i, b) ==
    [r \in Requests |-> IF \E j \in 1..(i - 1) : l[j] = r THEN 0
                        ELSE IF l[i] = r THEN data[r] - b ELSE data[r]]

\* DoWrite: a part of the list is written, or nothing (EAGAIN).
DoWrite(a, i, b) ==
    /\ At(a, "write") \/ (At(a, "keep") /\ ~Written(th[a].req))
    /\ LET l == List(th[a].req) IN
       /\ i <= Len(l) /\ b <= data[l[i]]
       /\ data' = Cut(l, i, b)
    /\ Go(a, [th[a] EXCEPT !.pc = "skim", !.nw = data' # data])
    /\ UNCHANGED <<head, next, busy, connecting, ready, order>>

FailToWrite(a) ==
    /\ At(a, "write") \/ (At(a, "keep") /\ ~Written(th[a].req))
    /\ Go(a, To(a, "drop"))
    /\ UNCHANGED <<head, next, data, busy, connecting, ready, order>>

Skimmed_no_tail(a) ==            \* req is taken for the tail
    /\ At(a, "skim")
    /\ ~Written(th[a].req)
    /\ Go(a, [th[a] EXCEPT !.pc = IF th[a].nw THEN "cas" ELSE "poll", !.nw = FALSE,
                           !.cur = IF th[a].nw /\ @ = NULL THEN th[a].req ELSE @])
    /\ UNCHANGED <<head, next, data, busy, connecting, ready, order>>

\* All that was written is released: WaitEpollOut if nothing was written.
Skimmed(a) ==
    /\ At(a, "skim")
    /\ ~Written(th[a].req)
    /\ Go(a, [th[a] EXCEPT !.pc = IF th[a].nw THEN "cas" ELSE "poll", !.nw = FALSE,
                           !.cur = IF th[a].nw /\ @ = NULL THEN Last(List(th[a].req)) ELSE @])
    /\ UNCHANGED <<head, next, data, busy, connecting, ready, order>>

\* WaitEpollOut returns with an event or after its time, or fails.
WaitEpollOut(a) ==
    /\ At(a, "poll")
    /\ \/ Go(a, [th[a] EXCEPT !.pc = "cas",
                              !.cur = IF @ = NULL THEN Last(List(th[a].req)) ELSE @])
       \/ Go(a, To(a, "drop"))
    /\ UNCHANGED <<head, next, data, busy, connecting, ready, order>>

-----------------------------------------------------------------------------
(* IsWriteComplete(old_head, singular_node, new_tail), called by           *)
(* StartWrite ("once"), KeepWrite ("keep") and the release of the failed   *)
(* requests ("fail").                                                      *)

OldHead(a) == IF th[a].from = "keep" THEN th[a].cur ELSE th[a].req

\* Where the caller goes on when IsWriteComplete returned false.
Back(a) == [once |-> "background", keep |-> "keep", fail |-> "drop"][th[a].from]

\* What was added to the list is all written: the right may be given up.
ReturnWhenNoMore(a) == data[OldHead(a)] = 0 /\ OldHead(a) = th[a].req

\* The compare_exchange_strong of _write_head.
CompareExchange(a) ==
    /\ At(a, "cas")
    /\ \/ /\ head = OldHead(a) /\ ReturnWhenNoMore(a)
          /\ head' = NULL
          /\ order' = RemoveFirst(order, th[a].req)
          /\ Go(a, To(a, "return"))
       \/ /\ head = OldHead(a) /\ ~ReturnWhenNoMore(a)
          /\ Go(a, To(a, Back(a)))
          /\ UNCHANGED <<head, order>>
       \/ /\ head # OldHead(a)
          /\ Go(a, [th[a] EXCEPT !.pc = "reverse", !.new = head, !.p = head, !.tail = NULL])
          /\ UNCHANGED <<head, order>>
    /\ UNCHANGED <<next, data, busy, connecting, ready>>

ReverseList_no_spin(a) ==            \* an UNCONNECTED next is taken for the end
    /\ At(a, "reverse")
    /\ th[a].p # NULL
    /\ LET p == th[a].p
           done == next[p] \in {OldHead(a), UNCONNECTED}
           reversed == [next EXCEPT ![p] = th[a].tail] IN
       /\ next' = IF done THEN [reversed EXCEPT ![OldHead(a)] = p] ELSE reversed
       /\ Go(a, [th[a] EXCEPT !.tail = p, !.p = IF done THEN p ELSE next[p],
                              !.pc = IF done THEN "setup" ELSE "reverse"])
    /\ UNCHANGED <<head, data, busy, connecting, ready, order>>

ReverseList_setup(a) ==              \* Setup() in the loop, from newest to oldest
    /\ At(a, "reverse")
    /\ th[a].p # NULL /\ next[th[a].p] # UNCONNECTED
    /\ LET p == th[a].p
           done == next[p] = OldHead(a)
           reversed == [next EXCEPT ![p] = th[a].tail] IN
       /\ next' = IF done THEN [reversed EXCEPT ![OldHead(a)] = p] ELSE reversed
       /\ ready' = ready \cup {p}
       /\ Go(a, [th[a] EXCEPT !.tail = p, !.p = IF done THEN p ELSE next[p],
                              !.pc = IF done THEN "setup" ELSE "reverse"])
    /\ UNCHANGED <<head, data, busy, connecting, order>>

\* One turn of the loop that reverses the list, which waits until p was
\* linked; the last one links the old list with the new one.
ReverseList(a) ==
    /\ At(a, "reverse")
    /\ th[a].p # NULL /\ next[th[a].p] # UNCONNECTED
    /\ LET p == th[a].p
           done == next[p] = OldHead(a)
           reversed == [next EXCEPT ![p] = th[a].tail] IN
       /\ next' = IF done THEN [reversed EXCEPT ![OldHead(a)] = p] ELSE reversed
       /\ Go(a, [th[a] EXCEPT !.tail = p, !.p = IF done THEN p ELSE next[p],
                              !.pc = IF done THEN "setup" ELSE "reverse"])
    /\ UNCHANGED <<head, data, busy, connecting, ready, order>>

\* Setup() of the new requests from the oldest to the newest; then
\* *new_tail = new_head, return false.
Setup(a) ==
    /\ At(a, "setup")
    /\ LET q == th[a].p
           back == [th[a] EXCEPT !.pc = Back(a), !.p = NULL, !.new = NULL, !.tail = NULL,
                                 !.cur = IF th[a].from = "keep" THEN th[a].new ELSE @] IN
       /\ ready' = ready \cup {q}
       /\ Go(a, IF next[q] = NULL THEN back ELSE [th[a] EXCEPT !.p = next[q]])
    /\ UNCHANGED <<head, next, data, busy, connecting, order>>

\* ReturnSuccessfulWriteRequest of the last request, or the failed one.
ReturnWriteRequest(a) ==
    /\ At(a, "return")
    /\ Release(th[a].req)
    /\ Go(a, Idle)
    /\ UNCHANGED <<head, connecting>>

ClearLast_return(a) ==           \* returns at once: _write_head stays non-NULL
    /\ At(a, "drop")
    /\ next[th[a].req] = NULL
    /\ data' = [data EXCEPT ![th[a].req] = 0]
    /\ Go(a, [th[a] EXCEPT !.pc = "return", !.from = "fail", !.cur = NULL])
    /\ UNCHANGED <<head, next, busy, connecting, ready, order>>

ClearLast_no_clear(a) ==         \* the data is not cleared
    /\ At(a, "drop")
    /\ next[th[a].req] = NULL
    /\ Go(a, [th[a] EXCEPT !.pc = "cas", !.from = "fail", !.cur = NULL])
    /\ UNCHANGED <<head, next, data, busy, connecting, ready, order>>

\* ReleaseAllFailedWriteRequests: all but the last one are released; its
\* data is cleared, and IsWriteComplete tells whether more was added.
ReleaseFailed(a) ==
    /\ At(a, "drop")
    /\ next[th[a].req] # NULL
    /\ Go(a, [th[a] EXCEPT !.req = next[th[a].req], !.from = "fail", !.cur = NULL])
    /\ Release(th[a].req)
    /\ UNCHANGED <<head, connecting>>

ClearLast(a) ==
    /\ At(a, "drop")
    /\ next[th[a].req] = NULL
    /\ data' = [data EXCEPT ![th[a].req] = 0]
    /\ Go(a, [th[a] EXCEPT !.pc = "cas", !.from = "fail", !.cur = NULL])
    /\ UNCHANGED <<head, next, busy, connecting, ready, order>>

-----------------------------------------------------------------------------
\* What a thread does by itself once it is in StartWrite or KeepWrite.
Step(a) ==
    \/ Link(a) \/ ConnectIfNot(a) \/ WriteOnce(a) \/ StartKeepWrite(a)
    \/ Skip(a) \/ Skimmed(a) \/ WaitEpollOut(a)
    \/ CompareExchange(a) \/ ReverseList(a) \/ Setup(a) \/ ReturnWriteRequest(a)
    \/ ReleaseFailed(a) \/ ClearLast(a)

\* The connection takes bytes, or fails.
Write(a) == \E i \in 1..NReq, b \in 0..Size : DoWrite(a, i, b)
Progress(a) == FailToWrite(a) \/ (Write(a) /\ data' # data)

Next ==
    \E a \in Agents :
       Exchange(a) \/ Step(a) \/ KeepWriteIfConnected(a) \/ Write(a) \/ FailToWrite(a)

Spec == Init /\ [][Next]_vars

\* Threads run on, a connection attempt ends, and a connection that is
\* tried again and again takes bytes or fails in the end.
FairSpec ==
    /\ Spec
    /\ \A a \in Agents : WF_vars(Step(a))
    /\ SF_vars(\E a \in Agents : Progress(a))
    /\ WF_vars(\E k \in Keepers : KeepWriteIfConnected(k))

-----------------------------------------------------------------------------
(* Properties.                                                             *)

\* The states of a thread; one in StartWrite or KeepWrite has a request in hand.
ThreadStates ==
    [pc : {"idle", "link", "connect", "once", "background", "keep", "write", "skim", "poll",
           "cas", "reverse", "setup", "return", "drop"},
     req : Pointer, cur : Pointer, new : Pointer, p : Pointer, tail : Pointer,
     from : {"once", "keep", "fail"}, nw : BOOLEAN]

\* Types of the state.
TypeOK ==
    /\ head \in Pointer /\ connecting \in Pointer
    /\ next \in [Requests -> Pointer \cup {UNCONNECTED}]
    /\ data \in [Requests -> 0..Size]
    /\ busy \subseteq Requests /\ ready \subseteq busy
    /\ order \in Seq(busy)
    /\ th \in [Agents -> ThreadStates]
    /\ \A a \in Agents : /\ ~At(a, "idle") => th[a].req \in Requests
                         /\ At(a, "reverse") => th[a].p \in Requests

\* The threads that have the right to write.
Holders == {a \in Agents : th[a].pc \notin {"idle", "link", "return"}}

\* The connection failed and what was added is given back unsent.
Failing == \E a \in Holders : At(a, "drop") \/ th[a].from = "fail"

(***************************************************************************)
(* At most one thread has the right to write, or a connection attempt does *)
(* for it, and exactly while _write_head is not NULL: "there cannot be two *)
(* KeepWrite bthreads", and the right is never lost.                       *)
(***************************************************************************)
OneWriter ==
    /\ TypeOK
    /\ Cardinality(Holders) + (IF connecting # NULL THEN 1 ELSE 0) =
          IF head # NULL THEN 1 ELSE 0

(***************************************************************************)
(* No thread uses a request that went back to the pool: not those in its   *)
(* local variables, not those of the list it holds, and not the one before *)
(* its own that a thread is about to link to.  Two threads never hold the  *)
(* same request.                                                           *)
(***************************************************************************)
NoUseAfterRelease ==
    /\ head \in busy \cup {NULL}
    /\ \A a \in Agents :
          {th[a].req, th[a].cur, th[a].new, th[a].p, th[a].tail} \subseteq busy \cup {NULL}
    /\ \A a \in Holders : th[a].pc # "connect" =>
          \E l \in SeqOf(busy, NReq) : IsList(l, th[a].req)
    /\ \A a, b \in Agents : a # b /\ th[a].req = th[b].req => th[a].req = NULL

(***************************************************************************)
(* The CHECKs of IsWriteComplete and KeepWrite: old_head->next is NULL, it *)
(* is the last of the list in hand, a failed comparison found another      *)
(* head, and the reversal meets old_head before the end of the list.       *)
(***************************************************************************)
ChecksHold ==
    \A a \in Agents :
       /\ At(a, "cas") => /\ next[OldHead(a)] = NULL
                          /\ Last(List(th[a].req)) = OldHead(a)
       /\ At(a, "reverse") => /\ th[a].new # OldHead(a)
                              /\ next[OldHead(a)] = NULL
                              /\ next[th[a].p] # NULL

(***************************************************************************)
(* Setup() is called in the order in which the requests will be written,   *)
(* and no byte of a request is written before it was set up: protocols     *)
(* that count what they pipeline rely on it.                               *)
(***************************************************************************)
SetupInOrder ==
    \A i \in 1..Len(order) :
       /\ order[i] \in ready => Failing \/ \A j \in 1..i : order[j] \in ready
       /\ data[order[i]] < Size => Failing \/ order[i] \in ready

(***************************************************************************)
(* The lock-free list is a queue: bytes go out in the order of the         *)
(* exchanges, each once, and requests leave in that order (WriteQueue).    *)
(***************************************************************************)
Queue == INSTANCE WriteQueue WITH
    queue <- [i \in 1..Len(order) |-> [req |-> order[i], left |-> data[order[i]]]],
    broken <- Failing

WritesAreQueued == Queue!Spec

(***************************************************************************)
(* Every request is given back in the end, written or failed, however many *)
(* follow it: the spin on UNCONNECTED ends, the right is handed on, and    *)
(* nothing that was added is overlooked when the right is given up.        *)
(***************************************************************************)
EveryRequestEnds == \A r \in Requests : r \in busy ~> r \notin busy

=============================================================================
