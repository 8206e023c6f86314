----------------------------- MODULE QueuedPool -----------------------------
(***************************************************************************)
(* QueuedConnectionPool of database/pool-optimizer.ts: requests wait in a  *)
(* queue sorted by priority, each with a timer of its own.                 *)
(***************************************************************************)
EXTENDS Integers, SequencesExt

CONSTANTS
  Requests,
  Priorities

VARIABLES
  queue,       \* requests that wait
  request      \* request |-> [state, priority, turn]; turn: how many asked before it

vars == <<queue, request>>

\* pool.idleCount: pg opens a connection in connect(), and the class calls
\* connect() only where idleCount > 0, so that none is ever opened.
IdleCount == 0

Init ==
  /\ queue = <<>>
  /\ request = [r \in Requests |-> [state |-> "off", priority |-> 0, turn |-> 0]]

Asked == Cardinality({r \in Requests : request[r].state # "off"})

\* The first place before a lower priority, or the end.
Place(p) ==
  LET lower == {i \in 1..Len(queue) : p > request[queue[i]].priority} IN
  IF lower = {} THEN Len(queue) + 1 ELSE Min(lower)

GetConnection(r, p) ==
  /\ request[r].state = "off"
  /\ LET asking == [state |-> IF IdleCount > 0 THEN "served" ELSE "waiting",
                    priority |-> p, turn |-> Asked] IN
     request' = [request EXCEPT ![r] = asking]
  /\ queue' = IF IdleCount > 0 THEN queue ELSE InsertAt(queue, Place(p), r)

TimeOut(r) ==
  /\ request[r].state = "waiting"
  /\ \E i \in DOMAIN queue : queue[i] = r /\ queue' = RemoveAt(queue, i)
  /\ request' = [request EXCEPT ![r].state = "rejected"]

Close ==
  /\ queue # <<>>
  /\ queue' = <<>>
  /\ request' = [r \in Requests |-> IF r \in Range(queue)
                                    THEN [request[r] EXCEPT !.state = "rejected"]
                                    ELSE request[r]]

Next == \/ \E r \in Requests : TimeOut(r) \/ \E p \in Priorities : GetConnection(r, p)
        \/ Close

Spec == Init /\ [][Next]_vars

\* setTimeout fires.
Fairness == \A r \in Requests : WF_vars(TimeOut(r))
FairSpec == Spec /\ Fairness

-----------------------------------------------------------------------------
\* Every variable has its type.
TypeOK ==
  /\ queue \in Seq(Requests)
  /\ request \in [Requests -> [state : {"off", "waiting", "served", "rejected"},
                               priority : Priorities \cup {0}, turn : Nat]]

\* The queue holds the waiting requests once each, by priority and, among
\* equals, in the order in which they asked (pool-optimizer.ts:303).
QueueIsFair ==
  /\ IsInjective(queue)
  /\ Range(queue) = {r \in Requests : request[r].state = "waiting"}
  /\ \A i, j \in 1..Len(queue) : i < j =>
       \/ request[queue[i]].priority > request[queue[j]].priority
       \/ /\ request[queue[i]].priority = request[queue[j]].priority
          /\ request[queue[i]].turn < request[queue[j]].turn

\* No request waits for ever, though none is ever served: the queue is looked
\* at only when a request is added (pool-optimizer.ts:318).
WaitsEnd == \A r \in Requests : request[r].state = "waiting" ~> request[r].state = "rejected"

=============================================================================
