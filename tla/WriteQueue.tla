----------------------------- MODULE WriteQueue -----------------------------
(***************************************************************************)
(* What the write path of a Socket promises to the threads that share it:  *)
(* a queue.  Requests are sent in the order in which they were submitted,  *)
(* byte after byte, and leave the queue in that order, each once.  When    *)
(* the connection fails, all that is queued is given back unsent, up to    *)
(* the moment at which the queue is empty.                                 *)
(***************************************************************************)
EXTENDS Naturals, Sequences

CONSTANTS
    Requests,
    Size       \* bytes of a request

VARIABLES
    queue,     \* the submitted requests and the bytes that are left of each
    broken     \* the requests in the queue are being given back unsent

vars == <<queue, broken>>

Entry == [req : Requests, left : 0..Size]

Init == queue = <<>> /\ broken = FALSE

\* A thread submits a request.
Submit(r) ==
    /\ \A i \in 1..Len(queue) : queue[i].req # r
    /\ queue' = Append(queue, [req |-> r, left |-> Size])
    /\ UNCHANGED broken

\* Bytes are sent: of a request only if nothing is left of those before it.
Send ==
    /\ ~broken
    /\ queue' \in Seq(Entry) /\ Len(queue') = Len(queue)
    /\ \A i \in 1..Len(queue) :
          /\ queue'[i].req = queue[i].req
          /\ queue'[i].left <= queue[i].left
          /\ queue'[i].left < queue[i].left => \A j \in 1..(i - 1) : queue'[j].left = 0
    /\ UNCHANGED broken

\* The first request was sent and leaves.
Return ==
    /\ ~broken /\ queue # <<>> /\ Head(queue).left = 0
    /\ queue' = Tail(queue)
    /\ UNCHANGED broken

\* The connection fails.
Fail ==
    /\ ~broken /\ queue # <<>>
    /\ broken' = TRUE
    /\ UNCHANGED queue

\* The bytes of the first request are thrown away.
Clear ==
    /\ broken /\ queue # <<>>
    /\ queue' = [queue EXCEPT ![1].left = 0]
    /\ UNCHANGED broken

\* The first request leaves with an error.
Drop ==
    /\ broken /\ queue # <<>>
    /\ queue' = Tail(queue)
    /\ broken' = (Tail(queue) # <<>>)

Next ==
    \/ \E r \in Requests : Submit(r)
    \/ Send \/ Return \/ Fail \/ Clear \/ Drop

Spec == Init /\ [][Next]_vars

=============================================================================
