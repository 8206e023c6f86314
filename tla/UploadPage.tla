----------------------------- MODULE UploadPage -----------------------------
(***************************************************************************)
(* The upload page (app/upload/page.tsx): the queue of chosen files, the   *)
(* loop that uploads them in one of two modes, and the polling of the jobs *)
(* of the file pipeline, whose answers come back in any order.             *)
(*                                                                         *)
(* Rows of the list are told apart by the id they carry: a temporary one,  *)
(* which the loop replaces, or the job's.                                  *)
(***************************************************************************)
EXTENDS Integers, SequencesExt, FiniteSetsExt

CONSTANTS
  Files,
  NoFile,
  MaxPolls       \* bound: polls in flight

VARIABLES
  open,          \* the page is mounted
  uploadMode,
  queueRef,      \* files the loop has yet to take
  chosen,        \* files that were enqueued
  loop,          \* the closure of the running processUploadQueue: its mode, its file
  temp,          \* file |-> statuses of the rows with its temporary or sync id
  shown,         \* file |-> statuses of the rows with its job id, in order
  dirty,         \* the effect on [jobs] has yet to run
  timers,        \* files whose job has an interval in pollingTimersRef
  polls,         \* answers of polls on their way
  job,           \* file |-> its job at the server
  had,           \* history: file |-> how its job ended so far; "failed", too, for a failed poll
  listing        \* fetchInitialJobs: how far it is, and the jobs of its answer

pageVars == <<open, uploadMode, queueRef, chosen, loop, temp, shown, dirty, timers, polls,
              listing>>
vars == <<pageVars, job, had>>

Modes == {"sync", "background"}
\* "pending" stands for every status of a job that is not finished.
JobStates == {"pending", "completed", "failed"}
Statuses == JobStates \cup {"uploading"}
Terminal == {"completed", "failed"}
Idle == [mode |-> "none", file |-> NoFile]
NoJobs == [f \in Files |-> "none"]

Init ==
  /\ open = TRUE /\ uploadMode = "background" /\ queueRef = <<>> /\ loop = Idle
  /\ chosen = {}
  /\ temp = [f \in Files |-> {}] /\ shown = [f \in Files |-> <<>>]
  /\ dirty = FALSE /\ timers = {} /\ polls = <<>>
  /\ job = NoJobs /\ had = [f \in Files |-> {}]
  /\ listing = [at |-> "due", jobs |-> NoJobs]

-----------------------------------------------------------------------------
\* The loop.

\* setJobs over the rows that are there; a page that is gone has none.
SetAll(rows, s) == {s : row \in rows}
SetJob(f, s) == [shown EXCEPT ![f] = [i \in DOMAIN @ |-> s]]

\* Mutant of Turn: the loop that found no file is not ended.
TurnNeverEnds(mode, queue, rows) ==
  /\ loop' = [mode |-> mode, file |-> IF queue = <<>> THEN NoFile ELSE Head(queue)]
  /\ queueRef' = IF queue = <<>> THEN <<>> ELSE Tail(queue)
  /\ temp' = IF queue # <<>> /\ mode = "background"
             THEN [rows EXCEPT ![Head(queue)] = SetAll(@, "uploading")] ELSE rows

\* `rows` are the temporary rows before the next turn of the loop in `mode`.
Turn(mode, queue, rows) ==
  /\ loop' = IF queue = <<>> THEN Idle ELSE [mode |-> mode, file |-> Head(queue)]
  /\ queueRef' = IF queue = <<>> THEN <<>> ELSE Tail(queue)
  /\ temp' = IF queue # <<>> /\ mode = "background"
             THEN [rows EXCEPT ![Head(queue)] = SetAll(@, "uploading")] ELSE rows

\* enqueueFiles; processUploadQueue returns at once while a loop runs.
Enqueue(f) ==
  /\ open /\ f \notin chosen
  /\ chosen' = chosen \cup {f}
  /\ LET rows == [temp EXCEPT ![f] = IF uploadMode = "background" THEN {"pending"} ELSE @] IN
     IF loop = Idle THEN Turn(uploadMode, Append(queueRef, f), rows)
     ELSE queueRef' = Append(queueRef, f) /\ temp' = rows /\ UNCHANGED loop
  /\ dirty' = TRUE
  /\ UNCHANGED <<open, uploadMode, shown, timers, polls, job, had, listing>>

\* handleUploadModeChange: the buttons are enabled while a loop runs.
ChangeMode ==
  /\ open
  /\ uploadMode' \in Modes \ {uploadMode}
  /\ UNCHANGED <<open, queueRef, chosen, loop, temp, shown, dirty, timers, polls, job, had,
                 listing>>

\* POST /upload/async adds the job before it answers.
Accept ==
  /\ loop.mode = "background" /\ job[loop.file] = "none"
  /\ job' = [job EXCEPT ![loop.file] = "pending"]
  /\ UNCHANGED <<pageVars, had>>

\* The answer of POST /upload/async: the row takes the job's id.
UploadAnswered ==
  /\ loop.mode = "background" /\ job[loop.file] # "none"
  /\ LET f == loop.file IN
     /\ shown' = [shown EXCEPT ![f] = [i \in 1..Cardinality(temp[f]) |-> "pending"] \o @]
     /\ timers' = timers \cup {f}
     /\ Turn(loop.mode, queueRef, [temp EXCEPT ![f] = {}])
  /\ dirty' = open
  /\ UNCHANGED <<open, uploadMode, chosen, polls, job, had, listing>>

\* The answer of POST /upload: a row is added.
SyncAnswered ==
  /\ loop.mode = "sync"
  /\ \E s \in Terminal :
       Turn(loop.mode, queueRef, [temp EXCEPT ![loop.file] = IF open THEN @ \cup {s} ELSE @])
  /\ dirty' = open
  /\ UNCHANGED <<open, uploadMode, chosen, shown, timers, polls, job, had, listing>>

\* The upload fails, or its answer is lost.
UploadFails ==
  /\ loop.mode = "background"
  /\ Turn(loop.mode, queueRef, [temp EXCEPT ![loop.file] = SetAll(@, "failed")])
  /\ dirty' = open
  /\ UNCHANGED <<open, uploadMode, chosen, shown, timers, polls, job, had, listing>>

-----------------------------------------------------------------------------
\* Polling.

\* GET /jobs/:jobId
ReadJob(f) == [file |-> f, status |-> job[f]]

\* startPollingJob: a tick (the first one comes with the interval) polls.
Poll(f) ==
  /\ f \in timers /\ Len(polls) < MaxPolls
  /\ polls' = Append(polls, ReadJob(f))
  /\ UNCHANGED <<open, uploadMode, queueRef, chosen, loop, temp, shown, dirty, timers, job, had,
                 listing>>

\* Answers overtake each other.
PollAnswered ==
  \E i \in DOMAIN polls : LET f == polls[i].file s == polls[i].status IN
    /\ polls' = RemoveAt(polls, i)
    /\ shown' = SetJob(f, s)
    /\ timers' = IF s \in Terminal THEN timers \ {f} ELSE timers
    /\ dirty' = open
    /\ UNCHANGED <<open, uploadMode, queueRef, chosen, loop, temp, job, had, listing>>

\* One failed check marks the job failed and ends its polling.
PollFails ==
  \E i \in DOMAIN polls : LET f == polls[i].file IN
    /\ polls' = RemoveAt(polls, i)
    /\ shown' = SetJob(f, "failed")
    /\ timers' = timers \ {f}
    /\ had' = [had EXCEPT ![f] = @ \cup {"failed"}]
    /\ dirty' = open
    /\ UNCHANGED <<open, uploadMode, queueRef, chosen, loop, temp, job, listing>>

\* With two rows of one job the later one decides.
Finished(f) == shown[f] # <<>> /\ Last(shown[f]) \in Terminal
Unfinished(f) == shown[f] # <<>> /\ Last(shown[f]) \notin Terminal

\* Mutant of Effect: it stops polling and never starts it.
EffectStopsOnly ==
  /\ dirty /\ dirty' = FALSE
  /\ timers' = {f \in timers : ~Finished(f)}
  /\ UNCHANGED <<open, uploadMode, queueRef, chosen, loop, temp, shown, polls, job, had, listing>>

\* The effect on [jobs], which runs after the render.
Effect ==
  /\ dirty /\ dirty' = FALSE
  /\ timers' = {f \in Files : Unfinished(f) \/ (f \in timers /\ ~Finished(f))}
  /\ UNCHANGED <<open, uploadMode, queueRef, chosen, loop, temp, shown, polls, job, had, listing>>

-----------------------------------------------------------------------------

\* GET /jobs
ReadJobs == [at |-> "read", jobs |-> job]

\* mergeJobs replaces by id.
Merge(rows, jobs) == [f \in Files |-> IF jobs[f] = "none" THEN rows[f] ELSE <<jobs[f]>>]

\* fetchInitialJobs, once the user is known.
List ==
  /\ open /\ listing.at = "due"
  /\ listing' = ReadJobs
  /\ UNCHANGED <<open, uploadMode, queueRef, chosen, loop, temp, shown, dirty, timers, polls, job,
                 had>>

Listed ==
  /\ open /\ listing.at = "read"
  /\ listing' = [at |-> "done", jobs |-> NoJobs]
  /\ shown' = Merge(shown, listing.jobs)
  /\ dirty' = TRUE
  /\ UNCHANGED <<open, uploadMode, queueRef, chosen, loop, temp, timers, polls, job, had>>

\* The worker of the pipeline.  A job that ended is run again when it stalled
\* or its dead letter is retried, and two of its copies may run at once.
Work(f) ==
  /\ job[f] # "none"
  /\ \E s \in JobStates \ {job[f]} :
       /\ job' = [job EXCEPT ![f] = s]
       /\ had' = [had EXCEPT ![f] = @ \cup ({s} \cap Terminal)]
  /\ UNCHANGED pageVars

\* The cleanup of the first effect clears the intervals; the loop goes on.
Leave ==
  /\ open /\ open' = FALSE
  /\ timers' = {} /\ dirty' = FALSE
  /\ temp' = [f \in Files |-> {}] /\ shown' = [f \in Files |-> <<>>]
  /\ UNCHANGED <<uploadMode, queueRef, chosen, loop, polls, job, had, listing>>

Next == \/ \E f \in Files : Enqueue(f) \/ Poll(f) \/ Work(f)
        \/ PollAnswered \/ PollFails \/ ChangeMode \/ Accept \/ UploadAnswered \/ SyncAnswered
        \/ UploadFails \/ Effect \/ List \/ Listed \/ Leave

Spec == Init /\ [][Next]_vars

-----------------------------------------------------------------------------
\* Every variable has its type, and the loop that runs holds a file.
TypeOK ==
  /\ open \in BOOLEAN /\ uploadMode \in Modes /\ dirty \in BOOLEAN
  /\ queueRef \in Seq(Files)
  /\ chosen \in SUBSET Files
  /\ loop = Idle \/ loop \in [mode : Modes, file : Files]
  /\ temp \in [Files -> SUBSET Statuses] /\ shown \in [Files -> Seq(JobStates)]
  /\ timers \in SUBSET Files
  /\ polls \in Seq([file : Files, status : JobStates]) /\ Len(polls) <= MaxPolls
  /\ job \in [Files -> JobStates \cup {"none"}] /\ had \in [Files -> SUBSET Terminal]
  /\ listing \in [at : {"due", "read", "done"}, jobs : [Files -> JobStates \cup {"none"}]]

\* The file is in the queue, or the loop is at it.
InHand(f) == (loop # Idle /\ loop.file = f) \/ \E i \in DOMAIN queueRef : queueRef[i] = f

\* Once the effects have run, whatever order the answers of polls came in: a
\* job shown as unfinished is polled; one shown as finished had ended so, or a
\* poll of it failed (its worker may take it up again, which a page that has
\* stopped polling does not see).  Whichever modes the files were chosen in and
\* the loop ran in, a row that still waits for its upload is of a file in hand,
\* or the row of its upload in the other mode stands beside it.
UploadsAreFollowed ==
  open /\ ~dirty => \A f \in Files :
    /\ Unfinished(f) => f \in timers
    /\ Finished(f) => Last(shown[f]) \in had[f]
    /\ temp[f] \ Terminal # {} => InHand(f) \/ temp[f] \cap Terminal # {}

=============================================================================
