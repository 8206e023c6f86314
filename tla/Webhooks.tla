------------------------------ MODULE Webhooks ------------------------------
(***************************************************************************)
(* Webhooks: POST /api/webhooks/:provider (webhook/routes.ts), the queue   *)
(* webhook-events (webhook/queue.ts) and its worker in the same process    *)
(* (webhook/worker.ts), which starts, shuts down and crashes (index.ts).   *)
(* A provider sends a delivery again until it is acknowledged.             *)
(*                                                                         *)
(* The n-th POST of the run has number n, which stands for its job id, a   *)
(* new UUID.                                                               *)
(***************************************************************************)
EXTENDS Integers, Sequences

CONSTANTS
  Deliveries,
  MaxSends,      \* bound: POSTs of the providers
  MaxCrashes,    \* bound: crashes of the process
  Attempts       \* attempts of defaultJobOptions

VARIABLES
  secret,        \* the provider's secret is configured
  process,       \* where startServer and shutdown are
  posts,         \* POSTs of the providers
  jobs,          \* POST |-> its job in Redis
  acked,         \* deliveries that got a 200
  ran,           \* delivery |-> number of times process() ended well
  crashes,
  ended          \* history: how this process, or the last one, let go of its worker

vars == <<secret, process, posts, jobs, acked, ran, crashes, ended>>

Sends == 1..Len(posts)
NoJob == [state |-> "none", attempts |-> 0, stalls |-> 0]
\* maxStalledCount of BullMQ.
MaxStalled == 1
\* A POST that is not good has no valid signature.
Kinds == {"good", "unsigned"}

Init ==
  /\ secret \in BOOLEAN
  /\ process = "up" /\ posts = <<>> /\ jobs = [n \in 1..MaxSends |-> NoJob]
  /\ acked = {} /\ ran = [d \in Deliveries |-> 0] /\ crashes = 0
  /\ ended = "clean"

InFlight == {n \in Sends : posts[n].pc \in {"verify", "enqueue", "answer"}}
Active == {n \in Sends : jobs[n].state = "active"}

-----------------------------------------------------------------------------
\* The route.

Send(d, kind) ==
  /\ process = "up" /\ d \notin acked /\ Len(posts) < MaxSends
  /\ posts' = Append(posts, [delivery |-> d, kind |-> kind, pc |-> "verify", open |-> TRUE])
  /\ UNCHANGED <<secret, process, jobs, acked, ran, crashes, ended>>

\* A signature is asked for only where a secret is configured.
Verify(n) ==
  /\ posts[n].pc = "verify"
  /\ posts' = [posts EXCEPT ![n].pc = IF secret /\ posts[n].kind = "unsigned" THEN "refused"
                                      ELSE "enqueue"]
  /\ UNCHANGED <<secret, process, jobs, acked, ran, crashes, ended>>

Enqueue(n) ==
  /\ posts[n].pc = "enqueue"
  /\ jobs' = [jobs EXCEPT ![n].state = "waiting"]
  /\ posts' = [posts EXCEPT ![n].pc = "answer"]
  /\ UNCHANGED <<secret, process, acked, ran, crashes, ended>>

\* add() fails, before or after Redis has the job: next(err).
EnqueueFails(n) ==
  /\ posts[n].pc = "enqueue"
  /\ \E added \in BOOLEAN :
       jobs' = IF added THEN [jobs EXCEPT ![n].state = "waiting"] ELSE jobs
  /\ posts' = [posts EXCEPT ![n].pc = "refused"]
  /\ UNCHANGED <<secret, process, acked, ran, crashes, ended>>

\* The 200, if the connection is still there.
Answer(n) ==
  /\ posts[n].pc = "answer"
  /\ posts' = [posts EXCEPT ![n].pc = "answered"]
  /\ \/ posts[n].open /\ acked' = acked \cup {posts[n].delivery}
     \/ UNCHANGED acked
  /\ UNCHANGED <<secret, process, jobs, ran, crashes, ended>>

-----------------------------------------------------------------------------
\* The worker (BullMQ), which runs until closeWebhookWorkerService.

Take(n) ==
  /\ process \in {"up", "server"} /\ jobs[n].state = "waiting"
  /\ jobs' = [jobs EXCEPT ![n].state = "active"]
  /\ UNCHANGED <<secret, process, posts, acked, ran, crashes, ended>>

Running(n) == process # "down" /\ jobs[n].state = "active"

Complete(n) ==
  /\ Running(n)
  /\ jobs' = [jobs EXCEPT ![n].state = "completed"]
  /\ ran' = [ran EXCEPT ![posts[n].delivery] = @ + 1]
  /\ UNCHANGED <<secret, process, posts, acked, crashes, ended>>

\* Mutant of Fail: the attempts are not counted against their limit.
FailForever(n) ==
  /\ Running(n)
  /\ jobs' = [jobs EXCEPT ![n] = [@ EXCEPT !.attempts = jobs[n].attempts + 1, !.state = "waiting"]]
  /\ UNCHANGED <<secret, process, posts, acked, ran, crashes, ended>>

\* process() throws: tried again after the backoff.
Fail(n) ==
  /\ Running(n)
  /\ LET state == IF jobs[n].attempts + 1 < Attempts THEN "waiting" ELSE "failed" IN
     jobs' = [jobs EXCEPT ![n] = [@ EXCEPT !.attempts = jobs[n].attempts + 1, !.state = state]]
  /\ UNCHANGED <<secret, process, posts, acked, ran, crashes, ended>>

\* The process that ran the job is gone and its lock expires; process() may
\* have ended before.  The checker of the next worker finds the job; that it
\* does so before Start changes nothing, for no step in between touches it.
Stall(n) ==
  /\ process = "down" /\ jobs[n].state = "active"
  /\ LET state == IF jobs[n].stalls < MaxStalled THEN "waiting" ELSE "failed" IN
     jobs' = [jobs EXCEPT ![n] = [@ EXCEPT !.stalls = jobs[n].stalls + 1, !.state = state]]
  /\ \E d \in {0, 1} : ran' = [ran EXCEPT ![posts[n].delivery] = @ + d]
  /\ UNCHANGED <<secret, process, posts, acked, crashes, ended>>

-----------------------------------------------------------------------------
\* The process: startServer, shutdown, process.exit.

Start ==
  /\ process = "down" /\ Active = {}
  /\ process' = "up" /\ ended' = "clean"
  /\ UNCHANGED <<secret, posts, jobs, acked, ran, crashes>>

Signal ==
  /\ process = "up"
  /\ process' = "server"
  /\ UNCHANGED <<secret, posts, jobs, acked, ran, crashes, ended>>

\* close() calls back once every connection has ended.
CloseServer ==
  /\ process = "server" /\ InFlight = {}
  /\ process' = "worker"
  /\ UNCHANGED <<secret, posts, jobs, acked, ran, crashes, ended>>

\* SHUTDOWN_TIMEOUT_MS: open sockets are destroyed; the handlers go on.
DestroySockets ==
  /\ process = "server" /\ InFlight # {}
  /\ process' = "worker"
  /\ posts' = [n \in Sends |-> [posts[n] EXCEPT !.open = FALSE]]
  /\ UNCHANGED <<secret, jobs, acked, ran, crashes, ended>>

\* Mutant of CloseWorker: it closes without waiting for what runs.
CloseWorkerNow ==
  /\ process = "worker"
  /\ process' = "pool"
  /\ UNCHANGED <<secret, posts, jobs, acked, ran, crashes, ended>>

\* Worker.close() waits for the jobs that run.
CloseWorker ==
  /\ process = "worker" /\ Active = {}
  /\ process' = "pool"
  /\ UNCHANGED <<secret, posts, jobs, acked, ran, crashes, ended>>

\* close() of the worker or of its QueueEvents rejects, with jobs still running
\* or not: shutdown logs it and goes on.
CloseWorkerFails ==
  /\ process = "worker"
  /\ process' = "pool" /\ ended' = "rejected"
  /\ UNCHANGED <<secret, posts, jobs, acked, ran, crashes>>

GiveUp == [n \in Sends |-> IF n \in InFlight THEN [posts[n] EXCEPT !.pc = "lost"] ELSE posts[n]]

\* The pool and the Redis client are closed, and process.exit(0).
Exit ==
  /\ process = "pool"
  /\ process' = "down" /\ posts' = GiveUp
  /\ UNCHANGED <<secret, jobs, acked, ran, crashes, ended>>

\* uncaughtException, unhandledRejection, a kill.
Crash ==
  /\ process # "down" /\ crashes < MaxCrashes
  /\ process' = "down" /\ posts' = GiveUp /\ crashes' = crashes + 1 /\ ended' = "crash"
  /\ UNCHANGED <<secret, jobs, acked, ran>>

Next == \/ \E d \in Deliveries, kind \in Kinds : Send(d, kind)
        \/ \E n \in Sends : \/ Verify(n) \/ Enqueue(n) \/ EnqueueFails(n) \/ Answer(n)
                            \/ Take(n) \/ Complete(n) \/ Fail(n) \/ Stall(n)
        \/ Start \/ Signal \/ CloseServer \/ DestroySockets \/ CloseWorker
        \/ CloseWorkerFails \/ Exit \/ Crash

Spec == Init /\ [][Next]_vars

-----------------------------------------------------------------------------
\* Every variable has its type.
TypeOK ==
  /\ secret \in BOOLEAN
  /\ process \in {"up", "server", "worker", "pool", "down"}
  /\ posts \in Seq([delivery : Deliveries, kind : Kinds, open : BOOLEAN,
                    pc : {"verify", "enqueue", "answer", "answered", "refused", "lost"}])
  /\ jobs \in [1..MaxSends -> [state : {"none", "waiting", "active", "completed", "failed"},
                               attempts : 0..Attempts, stalls : 0..(MaxStalled + 1)]]
  /\ acked \subseteq Deliveries /\ ran \in [Deliveries -> Nat]
  /\ crashes \in 0..MaxCrashes /\ ended \in {"clean", "rejected", "crash"}

SendsOf(d) == {n \in Sends : posts[n].delivery = d}
\* What a job adds to `ran` at most: once, and once per stall.
Runs(n) == jobs[n].stalls + (IF jobs[n].state = "completed" THEN 1 ELSE 0)

\* A delivery that was acknowledged has a job, whatever became of the process;
\* it runs more often than once only because it was sent again (its delivery id
\* is not looked at, webhook/routes.ts:180) or a job stalled; and a process
\* that is gone leaves a job active behind it only if it crashed or the close()
\* of its worker rejected, also when it had to destroy sockets.
WebhooksAreKept ==
  /\ \A d \in acked : \E n \in SendsOf(d) : jobs[n].state # "none"
  /\ \A d \in Deliveries : \A first \in SendsOf(d) :
       SendsOf(d) = {first} => ran[d] <= Runs(first)
  /\ process = "down" /\ ended = "clean" => Active = {}

=============================================================================
