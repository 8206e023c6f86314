---------------------------- MODULE PipelineQueue ---------------------------
(***************************************************************************)
(* The file pipeline (pipeline/queue.ts): POST /upload/async puts a job in *)
(* a BullMQ queue, a worker of some backend process extracts and chunks    *)
(* its file, a failed job becomes a dead letter, which can be queued       *)
(* again.  What a client is shown lives in the memory of the process that  *)
(* took its upload.                                                        *)
(*                                                                         *)
(* queue and deadLetters are in Redis and outlive the processes.  Each     *)
(* queue.add makes a copy with an id of its own, its index in queue.  From *)
(* the end of an extraction to the last updateJobStatus nothing waits for  *)
(* I/O: it is one step, and chunking and processing are never shown.       *)
(***************************************************************************)
EXTENDS Integers, Sequences

CONSTANTS
  Processes, Jobs,
  NoEntry, NoProcess,
  Concurrency,     \* processors that a worker runs at once
  MaxStalled,      \* BullMQ's maxStalledCount
  Attempts,        \* defaultJobOptions.attempts
  MaxAdds,         \* bound: copies ever added to the queue
  MaxCrashes       \* bound

ASSUME NamesAssumption == NoProcess \notin Processes
ASSUME EntryAssumption ==
  NoEntry \notin [status : {"pending", "extracting", "completed", "failed"}, ended : BOOLEAN]
ASSUME NumbersAssumption ==
  Concurrency \in Nat /\ MaxStalled \in Nat /\ MaxAdds \in Nat /\ MaxCrashes \in Nat

VARIABLES
  upload,        \* job |-> its POST, and the process that handles it
  jobs,          \* process |-> job |-> its entry in the jobs map
  queue,         \* the copies ever added
  deadLetters,   \* the dead letters ever added, for the copy that failed
  unburied,      \* copies that did not reach the dead letters; a log line tells
  run,           \* slot of a worker |-> its processor
  retry,         \* process |-> its call of retryDeadLetterJob, one at a time
  crashes

vars == <<upload, jobs, queue, deadLetters, unburied, run, retry, crashes>>

Slots == Processes \X (1..Concurrency)
Entry == [status : {"pending", "extracting", "completed", "failed"}, ended : BOOLEAN]

\* tries counts the times a worker took the copy.  A finished copy is processed
\* or unprocessed, by the result its processor returned; one that stalled too
\* often is stalled.
Copy == [job : Jobs, place : {"waiting", "active", "processed", "unprocessed", "stalled"},
         tries : 0..(MaxStalled + 1)]
Letter == [copy : Nat \ {0}, there : BOOLEAN]
Upload == [pc : {"none", "adding", "added", "answered"}, at : Processes \cup {NoProcess}]

\* locked says that BullMQ still takes the processor for the copy's owner.
Run == [pc : {"idle", "extract", "bury", "report"}, copy : Nat, locked : BOOLEAN,
        ok : BOOLEAN]
Retry == [pc : {"idle", "add", "remove"}, letter : Nat]

NoRun == [pc |-> "idle", copy |-> 0, locked |-> FALSE, ok |-> FALSE]
NoRetry == [pc |-> "idle", letter |-> 0]

Init ==
  /\ upload = [j \in Jobs |-> [pc |-> "none", at |-> NoProcess]]
  /\ jobs = [p \in Processes |-> [j \in Jobs |-> NoEntry]]
  /\ queue = <<>>
  /\ deadLetters = <<>>
  /\ unburied = {}
  /\ run = [s \in Slots |-> NoRun]
  /\ retry = [p \in Processes |-> NoRetry]
  /\ crashes = 0

Copies == 1..Len(queue)
InQueue(c) == queue[c].place \in {"waiting", "active"}

\* queue.add.
Add(j) ==
  /\ Len(queue) < MaxAdds
  /\ queue' = Append(queue, [job |-> j, place |-> "waiting", tries |-> 0])

\* A copy moves to another place, its job stays.
Put(c, place, tries) ==
  queue' = [queue EXCEPT ![c] = [job |-> @.job, place |-> place, tries |-> tries]]

\* updateJobStatus.
Show(p, j, status) ==
  jobs' = [jobs EXCEPT ![p][j] =
             IF @ = NoEntry THEN @
             ELSE [status |-> status, ended |-> @.ended \/ status \in {"completed", "failed"}]]

-----------------------------------------------------------------------------
\* addJob.

Submit(p, j) ==
  /\ upload[j].pc = "none"
  /\ upload' = [upload EXCEPT ![j] = [pc |-> "adding", at |-> p]]
  /\ jobs' = [jobs EXCEPT ![p][j] = [status |-> "pending", ended |-> FALSE]]
  /\ UNCHANGED <<queue, deadLetters, unburied, run, retry, crashes>>

\* The job is in Redis, its answer under way: workers may run it already.
Enqueue(j) ==
  /\ upload[j].pc = "adding"
  /\ Add(j)
  /\ upload' = [upload EXCEPT ![j].pc = "added"]
  /\ UNCHANGED <<jobs, deadLetters, unburied, run, retry, crashes>>

\* Mutant of Answer: the entry is made when the answer is there.
AnswerThenShow(j) ==
  /\ upload[j].pc = "added"
  /\ upload' = [upload EXCEPT ![j].pc = "answered"]
  /\ jobs' = [jobs EXCEPT ![upload[j].at][j] = [status |-> "pending", ended |-> FALSE]]
  /\ UNCHANGED <<queue, deadLetters, unburied, run, retry, crashes>>

\* 202 with the job's id, or an error if the answer of queue.add is lost.
Answer(j) ==
  /\ upload[j].pc = "added"
  /\ upload' = [upload EXCEPT ![j].pc = "answered"]
  /\ UNCHANGED <<jobs, queue, deadLetters, unburied, run, retry, crashes>>

\* queue.add rejects and nothing was added: an error, but the entry stays.
Refuse(j) ==
  /\ upload[j].pc = "adding"
  /\ upload' = [upload EXCEPT ![j].pc = "answered"]
  /\ UNCHANGED <<jobs, queue, deadLetters, unburied, run, retry, crashes>>

-----------------------------------------------------------------------------
\* The worker.

\* A worker fetches a waiting copy; its processor shows it as extracting.  Slots
\* are alike: it uses the first that is free.
Take(s, c) ==
  /\ run[s].pc = "idle" /\ \A i \in 1..(s[2] - 1) : run[<<s[1], i>>].pc # "idle"
  /\ queue[c].place = "waiting"
  /\ Put(c, "active", queue[c].tries + 1)
  /\ run' = [run EXCEPT ![s] = [pc |-> "extract", copy |-> c, locked |-> TRUE, ok |-> FALSE]]
  /\ Show(s[1], queue[c].job, "extracting")
  /\ UNCHANGED <<upload, deadLetters, unburied, retry, crashes>>

\* The text is there, and is chunked.
Complete(s) ==
  /\ run[s].pc = "extract"
  /\ Show(s[1], queue[run[s].copy].job, "completed")
  /\ run' = [run EXCEPT ![s] = [@ EXCEPT !.pc = "report", !.ok = TRUE]]
  /\ UNCHANGED <<upload, queue, deadLetters, unburied, retry, crashes>>

\* The extraction or the chunking throws.
Fail(s) ==
  /\ run[s].pc = "extract"
  /\ Show(s[1], queue[run[s].copy].job, "failed")
  /\ run' = [run EXCEPT ![s].pc = "bury"]
  /\ UNCHANGED <<upload, queue, deadLetters, unburied, retry, crashes>>

\* Mutant of Bury: an add that fails never returns.
BuryHangs(s) ==
  /\ run[s].pc = "bury" /\ run[s].copy \notin unburied
  /\ \/ /\ deadLetters' = Append(deadLetters, [copy |-> run[s].copy, there |-> TRUE])
        /\ run' = [run EXCEPT ![s].pc = "report"]
        /\ UNCHANGED unburied
     \/ /\ unburied' = unburied \cup {run[s].copy}
        /\ UNCHANGED <<deadLetters, run>>
  /\ UNCHANGED <<upload, jobs, queue, retry, crashes>>

\* moveToDeadLetterQueue.  Its add may reject, with or without effect: a line in the
\* log, and the processor goes on.
Bury(s) ==
  /\ run[s].pc = "bury"
  /\ \/ /\ deadLetters' = Append(deadLetters, [copy |-> run[s].copy, there |-> TRUE])
        /\ UNCHANGED unburied
     \/ /\ unburied' = unburied \cup {run[s].copy}
        /\ UNCHANGED deadLetters
  /\ run' = [run EXCEPT ![s].pc = "report"]
  /\ UNCHANGED <<upload, jobs, queue, retry, crashes>>

\* Mutant of Report: a result that does not arrive is caught as a failure.
ReportCaught(s) ==
  LET c == run[s].copy IN
  /\ run[s].pc = "report"
  /\ \/ /\ run[s].locked
        /\ Put(c, IF run[s].ok THEN "processed" ELSE "unprocessed", queue[c].tries)
        /\ UNCHANGED jobs
     \/ Show(s[1], queue[c].job, "failed") /\ UNCHANGED queue
  /\ run' = [run EXCEPT ![s] = NoRun]
  /\ UNCHANGED <<upload, deadLetters, unburied, retry, crashes>>

\* The processor's result.  It is a result even when the job failed, so that the
\* copy is complete and not tried again.  It does not count if the lock is lost,
\* and may not arrive.
Report(s) ==
  LET c == run[s].copy IN
  /\ run[s].pc = "report"
  /\ \/ /\ run[s].locked
        /\ Put(c, IF run[s].ok THEN "processed" ELSE "unprocessed", queue[c].tries)
     \/ UNCHANGED queue
  /\ run' = [run EXCEPT ![s] = NoRun]
  /\ UNCHANGED <<upload, jobs, deadLetters, unburied, retry, crashes>>

Held(c) == \E s \in Slots : run[s].copy = c /\ run[s].locked

\* Mutant of Stall: no limit.
StallForever(c) ==
  /\ queue[c].place = "active"
  /\ Put(c, "waiting", queue[c].tries)
  /\ run' = [s \in Slots |-> IF run[s].copy = c THEN [run[s] EXCEPT !.locked = FALSE] ELSE run[s]]
  /\ UNCHANGED <<upload, jobs, deadLetters, unburied, retry, crashes>>

\* The lock of an active copy ran out: its process died, its result did not
\* arrive, or the process was busy for too long and goes on without the lock.
Stall(c) ==
  /\ queue[c].place = "active"
  /\ Put(c, IF queue[c].tries <= MaxStalled THEN "waiting" ELSE "stalled", queue[c].tries)
  /\ run' = [s \in Slots |-> IF run[s].copy = c THEN [run[s] EXCEPT !.locked = FALSE] ELSE run[s]]
  /\ UNCHANGED <<upload, jobs, deadLetters, unburied, retry, crashes>>

-----------------------------------------------------------------------------
\* retryDeadLetterJob.

\* Mutant of LookUp: the letter is removed before its job is queued.
LookUpAndRemove(p, l) ==
  /\ retry[p].pc = "idle"
  /\ deadLetters[l].there
  /\ deadLetters' = [deadLetters EXCEPT ![l].there = FALSE]
  /\ retry' = [retry EXCEPT ![p] = [pc |-> "add", letter |-> l]]
  /\ UNCHANGED <<upload, jobs, queue, unburied, run, crashes>>

LookUp(p, l) ==
  /\ retry[p].pc = "idle"
  /\ deadLetters[l].there
  /\ retry' = [retry EXCEPT ![p] = [pc |-> "add", letter |-> l]]
  /\ UNCHANGED <<upload, jobs, queue, deadLetters, unburied, run, crashes>>

\* Mutant of AddAgain: an add that rejects does not keep the letter from being
\* removed.
AddAgainUnchecked(p) ==
  LET c == deadLetters[retry[p].letter].copy IN
  /\ retry[p].pc = "add"
  /\ Add(queue[c].job) \/ UNCHANGED queue
  /\ retry' = [retry EXCEPT ![p].pc = "remove"]
  /\ UNCHANGED <<upload, jobs, deadLetters, unburied, run, crashes>>

\* The letter's data goes back to the queue.  If that rejects, with or without
\* effect, the letter stays.
AddAgain(p) ==
  LET c == deadLetters[retry[p].letter].copy IN
  /\ retry[p].pc = "add"
  /\ \/ Add(queue[c].job) /\ retry' = [retry EXCEPT ![p].pc = "remove"]
     \/ (Add(queue[c].job) \/ UNCHANGED queue) /\ retry' = [retry EXCEPT ![p] = NoRetry]
  /\ UNCHANGED <<upload, jobs, deadLetters, unburied, run, crashes>>

Remove(p) ==
  /\ retry[p].pc = "remove"
  /\ \/ deadLetters' = [deadLetters EXCEPT ![retry[p].letter] = [copy |-> @.copy, there |-> FALSE]]
     \/ UNCHANGED deadLetters
  /\ retry' = [retry EXCEPT ![p] = NoRetry]
  /\ UNCHANGED <<upload, jobs, queue, unburied, run, crashes>>

-----------------------------------------------------------------------------
\* cleanOldJobs: entries that ended before some time.
CleanOldJobs(p) ==
  /\ \E old \in SUBSET {j \in Jobs : jobs[p][j] # NoEntry /\ jobs[p][j].ended} :
       /\ old # {}
       /\ jobs' = [jobs EXCEPT ![p] = [j \in Jobs |-> IF j \in old THEN NoEntry ELSE @[j]]]
  /\ UNCHANGED <<upload, queue, deadLetters, unburied, run, retry, crashes>>

\* A process ends and is started again.  shutdown does not close the worker, so
\* that a regular end is no different.
Crash(p) ==
  /\ crashes < MaxCrashes
  /\ crashes' = crashes + 1
  /\ jobs' = [jobs EXCEPT ![p] = [j \in Jobs |-> NoEntry]]
  /\ run' = [s \in Slots |-> IF s[1] = p THEN NoRun ELSE run[s]]
  /\ retry' = [retry EXCEPT ![p] = NoRetry]
  /\ upload' = [j \in Jobs |-> IF upload[j].at = p /\ upload[j].pc \in {"adding", "added"}
                               THEN [upload[j] EXCEPT !.pc = "answered"] ELSE upload[j]]
  /\ UNCHANGED <<queue, deadLetters, unburied>>

-----------------------------------------------------------------------------
ProcessorStep(s) == Complete(s) \/ Fail(s) \/ Bury(s) \/ Report(s)

Next ==
  \/ \E p \in Processes, j \in Jobs : Submit(p, j)
  \/ \E j \in Jobs : Enqueue(j) \/ Answer(j) \/ Refuse(j)
  \/ \E s \in Slots, c \in Copies : Take(s, c)
  \/ \E s \in Slots : ProcessorStep(s)
  \/ \E c \in Copies : Stall(c)
  \/ \E p \in Processes, l \in DOMAIN deadLetters : LookUp(p, l)
  \/ \E p \in Processes : AddAgain(p) \/ Remove(p) \/ CleanOldJobs(p) \/ Crash(p)

BullStep(c) == (\E s \in Slots : Take(s, c)) \/ (~Held(c) /\ Stall(c))

\* The processors of a process go on, some worker that has a free slot fetches some
\* waiting job, the stalled check finds some active job without a lock.  That is
\* weaker than fairness to each job, and enough since no job is run forever.
Fairness ==
  /\ \A p \in Processes : WF_vars(\E i \in 1..Concurrency : ProcessorStep(<<p, i>>))
  /\ WF_vars(\E c \in Copies : BullStep(c))

Spec == Init /\ [][Next]_vars /\ Fairness

-----------------------------------------------------------------------------
\* Properties.

TypeOK ==
  /\ upload \in [Jobs -> Upload]
  /\ jobs \in [Processes -> [Jobs -> Entry \cup {NoEntry}]]
  /\ queue \in Seq(Copy)
  /\ deadLetters \in Seq(Letter)
  /\ unburied \subseteq Nat
  /\ run \in [Slots -> Run]
  /\ retry \in [Processes -> Retry]
  /\ crashes \in 0..MaxCrashes

IsLetter(c) == \E l \in DOMAIN deadLetters : deadLetters[l] = [copy |-> c, there |-> TRUE]
AddedAgain(c) == \E d \in Copies : d > c /\ queue[d].job = queue[c].job

Kept(c) == IsLetter(c) \/ AddedAgain(c) \/ c \in unburied

\* The worker's catch, moveToDeadLetterQueue and retryDeadLetterJob: a copy that
\* ended without a result is a dead letter, or its job was added again after it, or
\* its move to the dead letters failed - whatever crashes, stalls or retries in
\* between.
FailuresAreKept == \A c \in Copies : queue[c].place = "unprocessed" => Kept(c)

\* addJob and updateJobStatus: a job that a process has begun to work on is not
\* shown by that process as pending, however early a worker takes it.
BegunIsNotPending ==
  \A s \in Slots : run[s].pc # "idle" =>
    LET e == jobs[s[1]][queue[run[s].copy].job] IN e # NoEntry => e.status # "pending"

\* The worker of job j was given it more than once.
RunAgain(j) ==
  \E c, d \in Copies : /\ queue[c].job = j /\ queue[d].job = j
                       /\ c # d \/ queue[c].tries > 1

\* updateJobStatus: a job that is shown as completed stays so until its entry goes,
\* unless it was run again after a stall, a lost result or a retry.
CompletedStays ==
  [][\A p \in Processes, j \in Jobs :
       /\ jobs[p][j] # NoEntry /\ jobs[p][j].status = "completed"
       /\ jobs'[p][j] # NoEntry /\ jobs'[p][j].status # "completed"
       => RunAgain(j)']_vars

CopiesOf(j) == {c \in Copies : queue[c].job = j}
Processed(j) == \E c \in CopiesOf(j) : queue[c].place = "processed"
Queued(j) == \E c \in CopiesOf(j) : InQueue(c)
Dead(j) == \E c \in CopiesOf(j) : IsLetter(c)
StatusOf(j) == IF CopiesOf(j) = {} THEN "new" ELSE IF Processed(j) THEN "done"
               ELSE IF Queued(j) THEN "queued" ELSE IF Dead(j) THEN "dead" ELSE "lost"
Troubled == {j \in Jobs : \E c \in CopiesOf(j) : c \in unburied \/ queue[c].place = "stalled"}

\* Across the two queues a job moves as JobLedger says: never lost without trouble,
\* never processed twice from a dead letter alone, never taken back once processed.
Ledger == INSTANCE JobLedger WITH status <- [j \in Jobs |-> StatusOf(j)], troubled <- Troubled
JobsAreNotLost == Ledger!Spec

\* A copy leaves the queue, whatever its processor, its process and Redis do.
CopiesSettle ==
  \A c \in 1..MaxAdds : (c \in Copies /\ InQueue(c)) ~> (c \in Copies /\ ~InQueue(c))

\* Setup-Production.md: the pipeline queue has bounded attempts, 3, with backoff; a
\* dead letter is a job that used them up.
DeadAfterAttempts ==
  \A l \in DOMAIN deadLetters : queue[deadLetters[l].copy].tries >= Attempts

=============================================================================
