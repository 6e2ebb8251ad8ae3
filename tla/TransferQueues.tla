--------------------------- MODULE TransferQueues ---------------------------
(***************************************************************************)
(* What the driver of a host controller promises the coroutines that use   *)
(* it: each queue is first in, first out, a request is executed once, and  *)
(* a client is resumed once, after its own request has been executed.  It  *)
(* does not promise that a client is resumed at all.                       *)
(***************************************************************************)
EXTENDS Sequences

CONSTANTS Clients, Queues

VARIABLES
  queue,     \* queue -> the clients whose requests wait to be executed
  executed   \* clients whose request was executed and who were not resumed

vars == <<queue, executed>>

Queued(c) == \E q \in Queues : \E i \in DOMAIN queue[q] : queue[q][i] = c

Submit(q, c) ==
  /\ ~Queued(c) /\ c \notin executed
  /\ queue' = [queue EXCEPT ![q] = Append(@, c)]
  /\ UNCHANGED executed

Execute(q) ==
  /\ queue[q] # <<>>
  /\ queue' = [queue EXCEPT ![q] = Tail(@)]
  /\ executed' = executed \cup {Head(queue[q])}

Resume(c) ==
  /\ c \in executed
  /\ executed' = executed \ {c}
  /\ UNCHANGED queue

Init == queue = [q \in Queues |-> <<>>] /\ executed = {}

Next ==
  \/ \E q \in Queues, c \in Clients : Submit(q, c)
  \/ \E q \in Queues : Execute(q)
  \/ \E c \in Clients : Resume(c)

Spec == Init /\ [][Next]_vars
=============================================================================
