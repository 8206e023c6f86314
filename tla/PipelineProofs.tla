---------------------------- MODULE PipelineProofs --------------------------
(***************************************************************************)
(* Proofs about PipelineQueue, for any number of processes, jobs, slots,   *)
(* stalls, copies and crashes: the types, that failures are kept, that     *)
(* entries follow the runs, and that the two queues implement JobLedger.   *)
(***************************************************************************)
EXTENDS PipelineQueue, WellFoundedInduction, TLAPS

\* A processor runs a copy that was taken, as often as there are processors of it;
\* at most one of them has the lock, and only while the copy is active.
RunState ==
  \A s \in Slots :
    /\ run[s].pc = "idle" => run[s] = NoRun
    /\ run[s].pc # "idle" =>
         /\ run[s].copy \in Copies
         /\ queue[run[s].copy].tries >= 1
         /\ run[s].locked => queue[run[s].copy].place = "active"
         /\ \A t \in Slots \ {s} : run[t].copy = run[s].copy =>
              queue[run[s].copy].tries >= 2 /\ ~(run[s].locked /\ run[t].locked)

WaitingState ==
  \A c \in Copies :
    /\ queue[c].place = "waiting" => queue[c].tries <= MaxStalled
    /\ queue[c].place = "active" => queue[c].tries >= 1

\* Letters are of copies; what is removed was added again.
LetterState == \A l \in DOMAIN deadLetters : deadLetters[l].copy \in Copies
RetryState ==
  \A p \in Processes :
    /\ retry[p].pc # "idle" => retry[p].letter \in DOMAIN deadLetters
    /\ retry[p].pc = "remove" => AddedAgain(deadLetters[retry[p].letter].copy)

\* A processor that reports a failure has kept it.
ReportState == \A s \in Slots : run[s].pc = "report" /\ ~run[s].ok => Kept(run[s].copy)

\* Copies, and entries that are not pending, are of jobs that were submitted and taken.
UploadState == \A j \in Jobs : upload[j].pc = "none" => \A c \in Copies : queue[c].job # j
EntryState ==
  \A p \in Processes, j \in Jobs : jobs[p][j] # NoEntry /\ jobs[p][j].status # "pending" =>
    \E c \in Copies : queue[c].job = j /\ queue[c].tries >= 1

\* A job that is shown as completed is being extracted only if it is run again.
CompletedState ==
  \A p \in Processes, s \in Slots : run[s].pc = "extract" =>
    LET j == queue[run[s].copy].job IN
    jobs[p][j] # NoEntry /\ jobs[p][j].status = "completed" => RunAgain(j)

Inv ==
  /\ TypeOK
  /\ RunState
  /\ WaitingState
  /\ LetterState
  /\ RetryState
  /\ ReportState
  /\ UploadState
  /\ EntryState
  /\ CompletedState
  /\ FailuresAreKept
  /\ BegunIsNotPending

-----------------------------------------------------------------------------
\* What a variable's type says of its parts.
LEMMA Parts ==
  ASSUME TypeOK
  PROVE  /\ Len(queue) \in Nat /\ Copies \subseteq Nat \ {0}
         /\ \A c \in Copies : queue[c] \in Copy /\ queue[c].job \in Jobs
                              /\ queue[c].tries \in 0..(MaxStalled + 1)
         /\ \A l \in DOMAIN deadLetters : deadLetters[l] \in Letter
         /\ \A s \in Slots : run[s] \in Run /\ s[1] \in Processes
         /\ \A p \in Processes : retry[p] \in Retry
<1>1. Len(queue) \in Nat /\ Copies \subseteq Nat \ {0} /\ \A c \in Copies : queue[c] \in Copy
  BY DEF TypeOK, Copies
<1>2. \A c \in Copies : queue[c].job \in Jobs /\ queue[c].tries \in 0..(MaxStalled + 1)
  BY <1>1 DEF Copy
<1>3. \A l \in DOMAIN deadLetters : deadLetters[l] \in Letter
  BY DEF TypeOK
<1>4. \A s \in Slots : run[s] \in Run /\ s[1] \in Processes
  BY DEF TypeOK, Slots
<1>5. \A p \in Processes : retry[p] \in Retry
  BY DEF TypeOK
<1>. QED  BY <1>1, <1>2, <1>3, <1>4, <1>5

\* queue.add leaves the copies that are there.
LEMMA AddStep ==
  ASSUME TypeOK, NEW j \in Jobs, Add(j)
  PROVE  /\ queue' \in Seq(Copy) /\ Len(queue') = Len(queue) + 1
         /\ Copies' = Copies \cup {Len(queue) + 1}
         /\ \A c \in Copies : queue'[c] = queue[c]
         /\ queue'[Len(queue) + 1] = [job |-> j, place |-> "waiting", tries |-> 0]
<1>1. [job |-> j, place |-> "waiting", tries |-> 0] \in Copy
  BY NumbersAssumption DEF Copy
<1>2. queue \in Seq(Copy) /\ Len(queue) \in Nat
  BY DEF TypeOK
<1>3. queue' = Append(queue, [job |-> j, place |-> "waiting", tries |-> 0])
  BY DEF Add
<1>4. queue' \in Seq(Copy) /\ Len(queue') = Len(queue) + 1
  BY <1>1, <1>2, <1>3
<1>. QED  BY <1>2, <1>3, <1>4 DEF Copies

\* A copy that moves leaves the others.
LEMMA PutStep ==
  ASSUME TypeOK, NEW c \in Copies,
         NEW w \in {"waiting", "active", "processed", "unprocessed", "stalled"},
         NEW n \in 0..(MaxStalled + 1), Put(c, w, n)
  PROVE  /\ queue' \in Seq(Copy) /\ Copies' = Copies
         /\ queue'[c] = [job |-> queue[c].job, place |-> w, tries |-> n]
         /\ \A d \in Copies \ {c} : queue'[d] = queue[d]
<1> DEFINE r == [job |-> queue[c].job, place |-> w, tries |-> n]
<1>1. queue[c].job \in Jobs
  BY Parts
<1>2. r \in Copy
  BY <1>1 DEF Copy
<1>3. queue' = [queue EXCEPT ![c] = r]
  BY DEF Put
<1>. HIDE DEF r
<1>4. queue' \in Seq(Copy) /\ Copies' = Copies /\ queue'[c] = r
      /\ \A d \in Copies \ {c} : queue'[d] = queue[d]
  BY <1>2, <1>3 DEF TypeOK, Copies
<1>. QED  BY <1>4 DEF r

\* updateJobStatus keeps the type of the jobs map, and changes one entry only.
LEMMA ShowStep ==
  ASSUME TypeOK, NEW p \in Processes, NEW j \in Jobs,
         NEW w \in {"pending", "extracting", "completed", "failed"}, Show(p, j, w)
  PROVE  /\ jobs' \in [Processes -> [Jobs -> Entry \cup {NoEntry}]]
         /\ \A q \in Processes, k \in Jobs :
              q # p \/ k # j \/ jobs[p][j] = NoEntry => jobs'[q][k] = jobs[q][k]
         /\ jobs[p][j] # NoEntry => jobs'[p][j].status = w
         /\ jobs[p][j] # NoEntry => jobs'[p][j] # NoEntry
<1> DEFINE e == jobs[p][j]
           f == IF e = NoEntry THEN e
                ELSE [status |-> w, ended |-> e.ended \/ w \in {"completed", "failed"}]
<1>1. jobs \in [Processes -> [Jobs -> Entry \cup {NoEntry}]] /\ e \in Entry \cup {NoEntry}
  BY DEF TypeOK
<1>2. e # NoEntry => e.ended \in BOOLEAN
  BY <1>1 DEF Entry
<1>3. f \in Entry \cup {NoEntry}
  BY <1>1, <1>2 DEF Entry
<1>4. jobs' = [jobs EXCEPT ![p][j] = f]
  BY DEF Show
<1>5. e # NoEntry => f.status = w /\ f # NoEntry
  <2>1. ASSUME e # NoEntry PROVE f \in Entry /\ f.status = w
    BY <1>2, <2>1 DEF Entry
  <2>2. NoEntry \notin Entry
    BY EntryAssumption DEF Entry
  <2>. HIDE DEF f
  <2>. QED  BY <2>1, <2>2
<1>6. e = NoEntry => f = e
  OBVIOUS
<1>. HIDE DEF f
<1>7. /\ jobs' \in [Processes -> [Jobs -> Entry \cup {NoEntry}]]
      /\ \A q \in Processes, k \in Jobs : q # p \/ k # j => jobs'[q][k] = jobs[q][k]
      /\ jobs'[p][j] = f
  BY <1>1, <1>3, <1>4
<1>. QED  BY <1>5, <1>6, <1>7

-----------------------------------------------------------------------------
\* Types.

\* A step keeps the types.
LEMMA TypeStep == Inv /\ [Next]_vars => TypeOK'
<1>. SUFFICES ASSUME Inv, [Next]_vars PROVE TypeOK'
  OBVIOUS
<1>. USE DEF Inv
<1>1. ASSUME NEW p \in Processes, NEW j \in Jobs, Submit(p, j) PROVE TypeOK'
  BY <1>1 DEF Submit, TypeOK, Upload, Entry
<1>2. ASSUME NEW j \in Jobs, Enqueue(j) PROVE TypeOK'
  <2>1. queue' \in Seq(Copy)
    BY <1>2, AddStep DEF Enqueue
  <2>. QED  BY <1>2, <2>1 DEF Enqueue, TypeOK, Upload
<1>3. ASSUME NEW j \in Jobs, Answer(j) \/ Refuse(j) PROVE TypeOK'
  BY <1>3 DEF Answer, Refuse, TypeOK, Upload
<1>4. ASSUME NEW s \in Slots, NEW c \in Copies, Take(s, c) PROVE TypeOK'
  <2>1. queue[c].tries + 1 \in 0..(MaxStalled + 1) /\ queue[c].job \in Jobs
    BY <1>4, Parts, NumbersAssumption DEF Take, WaitingState
  <2>2. queue' \in Seq(Copy)
    BY <1>4, <2>1, PutStep DEF Take
  <2>3. jobs' \in [Processes -> [Jobs -> Entry \cup {NoEntry}]]
    BY <1>4, <2>1, Parts, ShowStep DEF Take
  <2>4. c \in Nat
    BY Parts
  <2>5. [pc |-> "extract", copy |-> c, locked |-> TRUE, ok |-> FALSE] \in Run
    BY <2>4 DEF Run
  <2>. QED  BY <1>4, <2>2, <2>3, <2>5 DEF Take, TypeOK
<1>5. ASSUME NEW s \in Slots, Complete(s) \/ Fail(s) PROVE TypeOK'
  <2>1. run[s].copy \in Copies /\ queue[run[s].copy].job \in Jobs /\ s[1] \in Processes
    BY <1>5, Parts DEF Complete, Fail, RunState
  <2>2. jobs' \in [Processes -> [Jobs -> Entry \cup {NoEntry}]]
    BY <1>5, <2>1, ShowStep DEF Complete, Fail
  <2>3. run' \in [Slots -> Run]
    <3>1. CASE Fail(s)
      BY <3>1 DEF Fail, TypeOK, Run
    <3>2. CASE Complete(s)
      <4>1. run[s] \in Run /\ run \in [Slots -> Run]
        BY Parts DEF TypeOK
      <4>2. run' = [run EXCEPT ![s] = run'[s]] /\ run'[s] \in Run
        BY <3>2, <4>1 DEF Complete, Run
      <4>. QED  BY <4>1, <4>2
    <3>. QED  BY <1>5, <3>1, <3>2
  <2>. QED  BY <1>5, <2>2, <2>3 DEF Complete, Fail, TypeOK
<1>6. ASSUME NEW s \in Slots, Bury(s) PROVE TypeOK'
  <2>1. run[s].copy \in Copies /\ run[s].copy \in Nat \ {0}
    BY <1>6, Parts DEF Bury, RunState
  <2>2. [copy |-> run[s].copy, there |-> TRUE] \in Letter
    BY <2>1 DEF Letter
  <2>3. deadLetters' \in Seq(Letter) /\ unburied' \subseteq Nat
    <3>1. deadLetters \in Seq(Letter) /\ unburied \subseteq Nat
      BY DEF TypeOK
    <3>2. deadLetters' \in {deadLetters, Append(deadLetters, [copy |-> run[s].copy, there |-> TRUE])}
      BY <1>6 DEF Bury
    <3>3. Append(deadLetters, [copy |-> run[s].copy, there |-> TRUE]) \in Seq(Letter)
      BY <2>2, <3>1
    <3>4. unburied' \in {unburied, unburied \cup {run[s].copy}}
      BY <1>6 DEF Bury
    <3>. QED  BY <2>1, <3>1, <3>2, <3>3, <3>4
  <2>4. run' \in [Slots -> Run]
    BY <1>6 DEF Bury, TypeOK, Run
  <2>. QED  BY <1>6, <2>3, <2>4 DEF Bury, TypeOK
<1>7. ASSUME NEW s \in Slots, Report(s) PROVE TypeOK'
  <2>1. run[s].copy \in Copies /\ queue[run[s].copy].tries \in 0..(MaxStalled + 1)
    BY <1>7, Parts DEF Report, RunState
  <2>2. queue' \in Seq(Copy)
    BY <1>7, <2>1, PutStep DEF Report, TypeOK
  <2>3. NoRun \in Run
    BY DEF NoRun, Run
  <2>. QED  BY <1>7, <2>2, <2>3 DEF Report, TypeOK
<1>8. ASSUME NEW c \in Copies, Stall(c) PROVE TypeOK'
  <2>1. queue[c].tries \in 0..(MaxStalled + 1)
    BY Parts
  <2>2. queue' \in Seq(Copy)
    BY <1>8, <2>1, PutStep DEF Stall
  <2>3. run' \in [Slots -> Run]
    BY <1>8 DEF Stall, TypeOK, Run
  <2>. QED  BY <1>8, <2>2, <2>3 DEF Stall, TypeOK
<1>9. ASSUME NEW p \in Processes, NEW l \in DOMAIN deadLetters, LookUp(p, l) PROVE TypeOK'
  <2>1. l \in Nat
    BY DEF TypeOK
  <2>. QED  BY <1>9, <2>1 DEF LookUp, TypeOK, Retry
<1>10. ASSUME NEW p \in Processes, AddAgain(p) PROVE TypeOK'
  <2>1. queue[deadLetters[retry[p].letter].copy].job \in Jobs
    BY <1>10, Parts DEF AddAgain, RetryState, LetterState
  <2>2. queue' \in Seq(Copy)
    BY <1>10, <2>1, AddStep DEF AddAgain, TypeOK
  <2>3. retry' \in [Processes -> Retry]
    <3>1. retry' = [retry EXCEPT ![p].pc = "remove"] \/ retry' = [retry EXCEPT ![p] = NoRetry]
      BY <1>10 DEF AddAgain
    <3>2. retry \in [Processes -> Retry] /\ NoRetry \in Retry
      BY DEF TypeOK, NoRetry, Retry
    <3>3. [retry EXCEPT ![p].pc = "remove"] \in [Processes -> Retry]
      BY <3>2 DEF Retry
    <3>. QED  BY <3>1, <3>2, <3>3
  <2>. QED  BY <1>10, <2>2, <2>3 DEF AddAgain, TypeOK
<1>11. ASSUME NEW p \in Processes, Remove(p) PROVE TypeOK'
  <2>1. deadLetters' \in Seq(Letter)
    <3> DEFINE l == retry[p].letter
               r == [copy |-> deadLetters[l].copy, there |-> FALSE]
    <3>1. /\ deadLetters \in Seq(Letter) /\ l \in DOMAIN deadLetters
          /\ deadLetters' \in {deadLetters, [deadLetters EXCEPT ![l] = r]}
      BY <1>11 DEF Remove, TypeOK, RetryState
    <3>2. r \in Letter
      <4>1. deadLetters[l] \in Letter
        BY <3>1, Parts
      <4>2. deadLetters[l].copy \in Nat \ {0}
        BY <4>1 DEF Letter
      <4>. QED  BY <4>2 DEF Letter
    <3>. HIDE DEF l, r
    <3>3. [deadLetters EXCEPT ![l] = r] \in Seq(Letter)
      BY <3>1, <3>2
    <3>. QED  BY <3>1, <3>3
  <2>2. NoRetry \in Retry
    BY DEF NoRetry, Retry
  <2>. QED  BY <1>11, <2>1, <2>2 DEF Remove, TypeOK
<1>12. ASSUME NEW p \in Processes, CleanOldJobs(p) PROVE TypeOK'
  BY <1>12 DEF CleanOldJobs, TypeOK
<1>13. ASSUME NEW p \in Processes, Crash(p) PROVE TypeOK'
  <2>1. NoRun \in Run /\ NoRetry \in Retry
    BY DEF NoRun, Run, NoRetry, Retry
  <2>2. upload' \in [Jobs -> Upload]
    BY <1>13 DEF Crash, TypeOK, Upload
  <2>3. crashes' \in 0..MaxCrashes
    BY <1>13, NumbersAssumption DEF Crash, TypeOK
  <2>. QED  BY <1>13, <2>1, <2>2, <2>3 DEF Crash, TypeOK
<1>14. CASE UNCHANGED vars
  BY <1>14 DEF vars, TypeOK
<1>. QED
  BY <1>1, <1>2, <1>3, <1>4, <1>5, <1>6, <1>7, <1>8, <1>9, <1>10, <1>11, <1>12, <1>13, <1>14
  DEF Next, ProcessorStep

-----------------------------------------------------------------------------
\* What a step may do to the queues.

\* The queue stays, gets a copy, or a copy in it moves.
MovesTo(c, w, n) == InQueue(c) /\ n >= queue[c].tries /\ Put(c, w, n)
Places == {"waiting", "active", "processed", "unprocessed", "stalled"}

\* A step leaves the queue alone, adds a copy at its end, or moves one copy on.
LEMMA QueueStep ==
  ASSUME Inv, [Next]_vars
  PROVE  \/ UNCHANGED queue
         \/ \E j \in Jobs : Add(j)
         \/ \E c \in Copies, w \in Places, n \in 0..(MaxStalled + 1) : MovesTo(c, w, n)
<1>. USE DEF Inv
<1>1. ASSUME NEW j \in Jobs, Enqueue(j) PROVE Add(j)
  BY <1>1 DEF Enqueue
<1>2. ASSUME NEW p \in Processes, AddAgain(p) PROVE UNCHANGED queue \/ \E j \in Jobs : Add(j)
  <2>1. queue[deadLetters[retry[p].letter].copy].job \in Jobs
    BY <1>2, Parts DEF AddAgain, RetryState, LetterState
  <2>. QED  BY <1>2, <2>1 DEF AddAgain
<1>3. ASSUME NEW s \in Slots, NEW c \in Copies, Take(s, c)
      PROVE  MovesTo(c, "active", queue[c].tries + 1) /\ queue[c].tries + 1 \in 0..(MaxStalled + 1)
  <2>1. queue[c].tries + 1 \in 0..(MaxStalled + 1) /\ queue[c].tries \in Nat
    BY <1>3, Parts, NumbersAssumption DEF Take, WaitingState
  <2>. QED  BY <1>3, <2>1 DEF Take, MovesTo, InQueue
<1>4. ASSUME NEW s \in Slots, Report(s), queue' # queue
      PROVE  \E c \in Copies, w \in Places, n \in 0..(MaxStalled + 1) : MovesTo(c, w, n)
  <2> DEFINE c == run[s].copy
             w == IF run[s].ok THEN "processed" ELSE "unprocessed"
  <2>1. c \in Copies /\ queue[c].tries \in 0..(MaxStalled + 1) /\ queue[c].place = "active"
    BY <1>4, Parts DEF Report, RunState
  <2>2. w \in Places /\ Put(c, w, queue[c].tries)
    BY <1>4 DEF Report, Places
  <2>3. queue[c].tries >= queue[c].tries
    BY <2>1, NumbersAssumption
  <2>4. MovesTo(c, w, queue[c].tries)
    BY <2>1, <2>2, <2>3 DEF MovesTo, InQueue
  <2>. QED  BY <2>1, <2>2, <2>4
<1>5. ASSUME NEW c \in Copies, Stall(c)
      PROVE  \E w \in Places, n \in 0..(MaxStalled + 1) : MovesTo(c, w, n)
  <2> DEFINE w == IF queue[c].tries <= MaxStalled THEN "waiting" ELSE "stalled"
  <2>1. queue[c].tries \in 0..(MaxStalled + 1) /\ queue[c].tries >= queue[c].tries
    BY Parts, NumbersAssumption
  <2>2. w \in Places /\ MovesTo(c, w, queue[c].tries)
    BY <1>5, <2>1 DEF Stall, MovesTo, InQueue, Places
  <2>. QED  BY <2>1, <2>2
<1>6. ASSUME NEW p \in Processes, NEW j \in Jobs, Submit(p, j) PROVE UNCHANGED queue
  BY <1>6 DEF Submit
<1>7. ASSUME NEW j \in Jobs, Answer(j) \/ Refuse(j) PROVE UNCHANGED queue
  BY <1>7 DEF Answer, Refuse
<1>8. ASSUME NEW s \in Slots, Complete(s) \/ Fail(s) \/ Bury(s) PROVE UNCHANGED queue
  BY <1>8 DEF Complete, Fail, Bury
<1>9. ASSUME NEW p \in Processes, NEW l \in DOMAIN deadLetters, LookUp(p, l) PROVE UNCHANGED queue
  BY <1>9 DEF LookUp
<1>10. ASSUME NEW p \in Processes, Remove(p) \/ CleanOldJobs(p) \/ Crash(p) PROVE UNCHANGED queue
  BY <1>10 DEF Remove, CleanOldJobs, Crash
<1>11. CASE UNCHANGED vars
  BY <1>11 DEF vars
<1>12. ASSUME NEW s \in Slots, Report(s), queue' = queue PROVE UNCHANGED queue
  BY <1>12
<1>13. "active" \in Places
  BY DEF Places
<1>. QED
  BY <1>1, <1>2, <1>3, <1>4, <1>5, <1>6, <1>7, <1>8, <1>9, <1>10, <1>11, <1>12, <1>13
  DEF Next, ProcessorStep

\* Copies stay, with their jobs; tries only grow; what left the queue stays out.
LEMMA CopiesStay ==
  ASSUME Inv, [Next]_vars
  PROVE  /\ Copies \subseteq Copies'
         /\ \A c \in Copies : /\ queue'[c].job = queue[c].job
                              /\ queue'[c].tries >= queue[c].tries
                              /\ ~InQueue(c) => queue'[c] = queue[c]
<1>1. TypeOK /\ \A c \in Copies : queue[c].tries \in Nat
  BY Parts, NumbersAssumption DEF Inv
<1>2. CASE UNCHANGED queue
  BY <1>1, <1>2 DEF Copies
<1>3. ASSUME NEW j \in Jobs, Add(j)
      PROVE  Copies \subseteq Copies' /\ \A c \in Copies : queue'[c] = queue[c]
  BY <1>1, <1>3, AddStep
<1>4. ASSUME NEW c \in Copies, NEW w \in Places, NEW n \in 0..(MaxStalled + 1), MovesTo(c, w, n)
      PROVE  /\ Copies' = Copies /\ \A d \in Copies \ {c} : queue'[d] = queue[d]
             /\ queue'[c].job = queue[c].job /\ queue'[c].tries >= queue[c].tries /\ InQueue(c)
  <2>1. InQueue(c) /\ n >= queue[c].tries /\ Put(c, w, n)
    BY <1>4 DEF MovesTo
  <2>2. /\ Copies' = Copies /\ \A d \in Copies \ {c} : queue'[d] = queue[d]
        /\ queue'[c] = [job |-> queue[c].job, place |-> w, tries |-> n]
    BY <1>1, <2>1, PutStep DEF Places
  <2>. QED  BY <2>1, <2>2
<1>5. \A c \in Copies : queue[c].tries >= queue[c].tries
  BY <1>1
<1>. QED  BY <1>2, <1>3, <1>4, <1>5, QueueStep

\* Letters stay the letters of their copies, and one that goes was added again.
LEMMA LettersStay ==
  ASSUME Inv, [Next]_vars
  PROVE  /\ DOMAIN deadLetters \subseteq DOMAIN deadLetters'
         /\ \A l \in DOMAIN deadLetters : deadLetters'[l].copy = deadLetters[l].copy
         /\ \A c \in Copies : IsLetter(c) => IsLetter(c)' \/ AddedAgain(c)
<1>. USE DEF Inv
<1>1. CASE UNCHANGED deadLetters
  BY <1>1 DEF IsLetter
<1>2. ASSUME NEW s \in Slots, Bury(s), deadLetters' # deadLetters
      PROVE  /\ DOMAIN deadLetters \subseteq DOMAIN deadLetters'
             /\ \A l \in DOMAIN deadLetters : deadLetters'[l] = deadLetters[l]
  <2>1. /\ deadLetters \in Seq(Letter)
        /\ deadLetters' = Append(deadLetters, [copy |-> run[s].copy, there |-> TRUE])
    BY <1>2 DEF Bury, TypeOK
  <2>. QED  BY <2>1
<1>3. ASSUME NEW p \in Processes, Remove(p), deadLetters' # deadLetters
      PROVE  /\ DOMAIN deadLetters' = DOMAIN deadLetters
             /\ \A l \in DOMAIN deadLetters : deadLetters'[l].copy = deadLetters[l].copy
             /\ \A l \in DOMAIN deadLetters \ {retry[p].letter} : deadLetters'[l] = deadLetters[l]
             /\ AddedAgain(deadLetters[retry[p].letter].copy)
  BY <1>3 DEF Remove, TypeOK, RetryState
<1>4. deadLetters' # deadLetters =>
        (\E s \in Slots : Bury(s)) \/ (\E p \in Processes : Remove(p))
  BY DEF Next, ProcessorStep, vars, Submit, Enqueue, Answer, Refuse, Take, Complete, Fail, Report,
     Stall, LookUp, AddAgain, CleanOldJobs, Crash
<1>5. ASSUME NEW s \in Slots, Bury(s), deadLetters' # deadLetters, NEW c \in Copies, IsLetter(c)
      PROVE  IsLetter(c)'
  BY <1>2, <1>5 DEF IsLetter
<1>6. ASSUME NEW p \in Processes, Remove(p), deadLetters' # deadLetters, NEW c \in Copies, IsLetter(c)
      PROVE  IsLetter(c)' \/ AddedAgain(c)
  <2>1. PICK l \in DOMAIN deadLetters : deadLetters[l] = [copy |-> c, there |-> TRUE]
    BY <1>6 DEF IsLetter
  <2>2. CASE l = retry[p].letter
    BY <1>3, <1>6, <2>1, <2>2
  <2>3. CASE l # retry[p].letter
    BY <1>3, <1>6, <2>1, <2>3 DEF IsLetter
  <2>. QED  BY <2>2, <2>3
<1>. QED  BY <1>1, <1>2, <1>3, <1>4, <1>5, <1>6

\* What is kept stays kept.
LEMMA KeptStays ==
  ASSUME Inv, [Next]_vars, NEW c \in Copies
  PROVE  /\ AddedAgain(c) => AddedAgain(c)'
         /\ Kept(c) => Kept(c)'
<1>1. AddedAgain(c) => AddedAgain(c)'
  BY CopiesStay DEF AddedAgain
<1>2. unburied \subseteq unburied'
  BY DEF Next, ProcessorStep, vars, Submit, Enqueue, Answer, Refuse, Take, Complete, Fail, Bury,
     Report, Stall, LookUp, AddAgain, Remove, CleanOldJobs, Crash
<1>. QED  BY <1>1, <1>2, LettersStay DEF Kept

-----------------------------------------------------------------------------
\* The invariant, part by part.

\* A slot that runs a copy, before a step: what RunState says of it.
LEMMA RunningCopy ==
  ASSUME Inv, NEW s \in Slots, run[s].pc # "idle"
  PROVE  /\ run[s].copy \in Copies /\ queue[run[s].copy] \in Copy
         /\ queue[run[s].copy].tries \in Nat /\ queue[run[s].copy].tries >= 1
         /\ run[s] \in Run
  BY Parts, NumbersAssumption DEF Inv, RunState

\* Runs that go on, or end, on copies that stay where they are.
LEMMA RunStateKept ==
  ASSUME Inv, Copies \subseteq Copies', \A c \in Copies : queue'[c] = queue[c],
         \A s \in Slots :
           \/ run'[s] = NoRun
           \/ run'[s] = run[s]
           \/ /\ run[s].pc # "idle" /\ run'[s].pc # "idle"
              /\ run'[s].copy = run[s].copy /\ run'[s].locked = run[s].locked
  PROVE  RunState'
<1>. SUFFICES ASSUME NEW s \in Slots, run'[s].pc # "idle"
              PROVE  /\ run'[s].copy \in Copies'
                     /\ queue'[run'[s].copy].tries >= 1
                     /\ run'[s].locked => queue'[run'[s].copy].place = "active"
                     /\ \A t \in Slots \ {s} : run'[t].copy = run'[s].copy =>
                          queue'[run'[s].copy].tries >= 2 /\ ~(run'[s].locked /\ run'[t].locked)
  BY DEF RunState, NoRun, Inv
<1>1. /\ run[s].pc # "idle" /\ run'[s].copy = run[s].copy /\ run'[s].locked = run[s].locked
      /\ run[s].copy \in Copies
  BY DEF RunState, NoRun, Inv
<1>2. ASSUME NEW t \in Slots \ {s}, run'[t].copy = run'[s].copy
      PROVE  run[t].copy = run[s].copy /\ run'[t].locked = run[t].locked
  <2>1. run[s].copy # 0
    BY <1>1, Parts DEF Inv
  <2>. QED  BY <1>1, <1>2, <2>1 DEF NoRun
<1>. QED  BY <1>1, <1>2 DEF RunState, Inv

\* Every step keeps what is known of the processors and their locks.
LEMMA RunStateStep == ASSUME Inv, [Next]_vars PROVE RunState'
<1>1. TypeOK
  BY DEF Inv
<1>2. CASE UNCHANGED <<run, queue>>
  BY <1>2, RunStateKept DEF Copies
<1>3. ASSUME NEW j \in Jobs, Add(j), UNCHANGED run PROVE RunState'
  BY <1>1, <1>3, AddStep, RunStateKept
<1>4. ASSUME NEW s \in Slots, NEW c \in Copies, Take(s, c) PROVE RunState'
  <2> DEFINE n == queue[c].tries + 1
  <2>1. /\ queue[c].tries \in Nat /\ n \in 0..(MaxStalled + 1) /\ queue[c].place = "waiting"
        /\ Put(c, "active", n)
    BY <1>4, Parts, NumbersAssumption DEF Take, Inv, WaitingState
  <2>2. /\ Copies' = Copies /\ queue'[c].place = "active" /\ queue'[c].tries = n
        /\ \A d \in Copies \ {c} : queue'[d] = queue[d]
    <3>1. /\ Copies' = Copies /\ \A d \in Copies \ {c} : queue'[d] = queue[d]
          /\ queue'[c] = [job |-> queue[c].job, place |-> "active", tries |-> n]
      BY <1>1, <2>1, PutStep
    <3>. QED  BY <3>1
  <2>3. /\ run'[s] = [pc |-> "extract", copy |-> c, locked |-> TRUE, ok |-> FALSE]
        /\ \A t \in Slots \ {s} : run'[t] = run[t]
    BY <1>1, <1>4 DEF Take, TypeOK
  <2>4. ASSUME NEW t \in Slots, run[t].pc # "idle", run[t].copy = c
        PROVE  ~run[t].locked /\ n >= 2
    <3>1. ~run[t].locked
      BY <2>1, <2>4 DEF Inv, RunState
    <3>2. queue[c].tries >= 1
      BY <2>4 DEF Inv, RunState
    <3>. QED  BY <2>1, <3>1, <3>2
  <2>5. \A t \in Slots : run[t].copy = c => run[t].pc # "idle"
    BY <1>1, Parts DEF Inv, RunState, NoRun
  <2>. HIDE DEF n
  <2>6. ASSUME NEW t \in Slots \ {s}, run'[t].pc # "idle"
        PROVE  /\ run'[t].copy \in Copies'
               /\ queue'[run'[t].copy].tries >= 1
               /\ run'[t].locked => queue'[run'[t].copy].place = "active"
               /\ \A u \in Slots \ {t} : run'[u].copy = run'[t].copy =>
                    queue'[run'[t].copy].tries >= 2 /\ ~(run'[t].locked /\ run'[u].locked)
    <3>1. CASE run[t].copy = c
      <4>1. n \in Nat /\ n >= 2 /\ ~run[t].locked
        BY <2>1, <2>3, <2>4, <2>6, <3>1 DEF n
      <4>. QED  BY <2>2, <2>3, <2>6, <3>1, <4>1
    <3>2. CASE run[t].copy # c
      <4>1. \A u \in Slots \ {t} : run'[u].copy = run[t].copy => u # s /\ run'[u] = run[u]
        BY <2>3, <3>2
      <4>. QED  BY <2>2, <2>3, <2>6, <3>2, <4>1 DEF Inv, RunState
    <3>. QED  BY <3>1, <3>2
  <2>7. /\ c \in Copies' /\ queue'[c].tries >= 1
        /\ \A u \in Slots \ {s} : run'[u].copy = c => queue'[c].tries >= 2 /\ ~run'[u].locked
    <3>1. n >= 1
      BY <2>1 DEF n
    <3>. QED  BY <2>2, <2>3, <2>4, <2>5, <3>1
  <2>8. \A t \in Slots : run'[t].pc = "idle" => run'[t] = NoRun
    BY <2>3 DEF Inv, RunState
  <2>. QED  BY <2>2, <2>3, <2>6, <2>7, <2>8 DEF RunState
<1>5. ASSUME NEW s \in Slots, Complete(s) \/ Fail(s) \/ Bury(s) PROVE RunState'
  <2>1. UNCHANGED queue /\ run[s].pc # "idle"
    BY <1>5 DEF Complete, Fail, Bury
  <2>2. /\ run'[s].pc # "idle" /\ run'[s].copy = run[s].copy /\ run'[s].locked = run[s].locked
        /\ \A t \in Slots \ {s} : run'[t] = run[t]
    BY <1>1, <1>5 DEF Complete, Fail, Bury, TypeOK, Run
  <2>. QED  BY <2>1, <2>2, RunStateKept DEF Copies
<1>6. ASSUME NEW s \in Slots, Report(s) PROVE RunState'
  <2>1. run'[s] = NoRun /\ \A t \in Slots \ {s} : run'[t] = run[t]
    BY <1>1, <1>6 DEF Report, TypeOK
  <2>2. CASE UNCHANGED queue
    BY <2>1, <2>2, RunStateKept DEF Copies
  <2>3. CASE queue' # queue
    <3> DEFINE c == run[s].copy
               w == IF run[s].ok THEN "processed" ELSE "unprocessed"
    <3>1. /\ c \in Copies /\ queue[c].tries \in 0..(MaxStalled + 1) /\ w \in Places
          /\ run[s].locked /\ Put(c, w, queue[c].tries)
      BY <1>1, <1>6, <2>3, Parts DEF Report, Inv, RunState, Places
    <3>2. /\ Copies' = Copies /\ queue'[c].tries = queue[c].tries
          /\ \A d \in Copies \ {c} : queue'[d] = queue[d]
      <4>1. /\ Copies' = Copies /\ \A d \in Copies \ {c} : queue'[d] = queue[d]
            /\ queue'[c] = [job |-> queue[c].job, place |-> w, tries |-> queue[c].tries]
        BY <1>1, <3>1, PutStep DEF Places
      <4>. QED  BY <4>1
    <3>3. \A t \in Slots \ {s} : run[t].pc # "idle" /\ run[t].copy = c => ~run[t].locked
      BY <1>6, <3>1 DEF Report, Inv, RunState
    <3>4. c # 0
      BY <1>1, <3>1, Parts
    <3>. HIDE DEF c, w
    <3>5. ASSUME NEW t \in Slots, run'[t].pc # "idle"
          PROVE  /\ run'[t].copy \in Copies'
                 /\ queue'[run'[t].copy].tries >= 1
                 /\ run'[t].locked => queue'[run'[t].copy].place = "active"
                 /\ \A u \in Slots \ {t} : run'[u].copy = run'[t].copy =>
                      queue'[run'[t].copy].tries >= 2 /\ ~(run'[t].locked /\ run'[u].locked)
      <4>1. t # s /\ run'[t] = run[t] /\ run[t].copy \in Copies /\ run[t].copy # 0
        BY <1>1, <2>1, <3>5, Parts DEF NoRun, Inv, RunState
      <4>2. queue'[run[t].copy].tries = queue[run[t].copy].tries
        BY <3>2, <4>1
      <4>3. \A u \in Slots \ {t} : run'[u].copy = run[t].copy => run'[u] = run[u]
        BY <2>1, <4>1 DEF NoRun
      <4>4. run[t].locked => queue'[run[t].copy] = queue[run[t].copy]
        BY <3>2, <3>3, <3>5, <4>1
      <4>. QED  BY <3>2, <3>5, <4>1, <4>2, <4>3, <4>4 DEF Inv, RunState
    <3>6. \A t \in Slots : run'[t].pc = "idle" => run'[t] = NoRun
      BY <2>1 DEF Inv, RunState
    <3>. QED  BY <3>5, <3>6 DEF RunState
  <2>. QED  BY <2>2, <2>3
<1>7. ASSUME NEW c \in Copies, Stall(c) PROVE RunState'
  <2> DEFINE w == IF queue[c].tries <= MaxStalled THEN "waiting" ELSE "stalled"
  <2>1. queue[c].tries \in 0..(MaxStalled + 1) /\ w \in Places /\ Put(c, w, queue[c].tries) /\ c # 0
    BY <1>1, <1>7, Parts DEF Stall, Places
  <2>2. /\ Copies' = Copies /\ queue'[c].tries = queue[c].tries
        /\ \A d \in Copies \ {c} : queue'[d] = queue[d]
    <3>1. /\ Copies' = Copies /\ \A d \in Copies \ {c} : queue'[d] = queue[d]
          /\ queue'[c] = [job |-> queue[c].job, place |-> w, tries |-> queue[c].tries]
      BY <1>1, <2>1, PutStep DEF Places
    <3>. QED  BY <3>1
  <2>3. \A t \in Slots : /\ run[t].copy # c => run'[t] = run[t]
                         /\ run[t].copy = c => ~run'[t].locked
                         /\ run'[t].pc = run[t].pc /\ run'[t].copy = run[t].copy
                         /\ run'[t].locked => run[t].locked
    BY <1>1, <1>7, Parts DEF Stall, TypeOK, Run
  <2>. HIDE DEF w
  <2>4. ASSUME NEW t \in Slots, run'[t].pc # "idle"
        PROVE  /\ run'[t].copy \in Copies'
               /\ queue'[run'[t].copy].tries >= 1
               /\ run'[t].locked => queue'[run'[t].copy].place = "active"
               /\ \A u \in Slots \ {t} : run'[u].copy = run'[t].copy =>
                    queue'[run'[t].copy].tries >= 2 /\ ~(run'[t].locked /\ run'[u].locked)
    <3>1. run[t].pc # "idle" /\ run'[t].copy = run[t].copy /\ run[t].copy \in Copies
      BY <2>3, <2>4, RunningCopy
    <3>2. queue'[run[t].copy].tries = queue[run[t].copy].tries
      BY <2>2, <3>1
    <3>3. run'[t].locked => run[t].locked /\ queue'[run[t].copy] = queue[run[t].copy]
      BY <2>2, <2>3, <3>1
    <3>. QED  BY <2>2, <2>3, <3>1, <3>2, <3>3 DEF Inv, RunState
  <2>5. \A t \in Slots : run'[t].pc = "idle" => run'[t] = NoRun
    BY <2>1, <2>3 DEF Inv, RunState, NoRun
  <2>. QED  BY <2>4, <2>5 DEF RunState
<1>8. ASSUME NEW p \in Processes, Crash(p) PROVE RunState'
  <2>1. UNCHANGED queue /\ \A s \in Slots : run'[s] \in {NoRun, run[s]}
    BY <1>1, <1>8 DEF Crash, TypeOK
  <2>. QED  BY <2>1, RunStateKept DEF Copies
<1>9. ASSUME NEW p \in Processes, AddAgain(p) PROVE RunState'
  <2>1. queue[deadLetters[retry[p].letter].copy].job \in Jobs
    BY <1>1, <1>9, Parts DEF AddAgain, RetryState, LetterState, Inv
  <2>. QED  BY <1>2, <1>3, <1>9, <2>1 DEF AddAgain
<1>10. ASSUME NEW j \in Jobs, Enqueue(j) PROVE RunState'
  BY <1>3, <1>10 DEF Enqueue
<1>11. UNCHANGED <<run, queue>>
       \/ (\E j \in Jobs : Enqueue(j)) \/ (\E s \in Slots, c \in Copies : Take(s, c))
       \/ (\E s \in Slots : ProcessorStep(s)) \/ (\E c \in Copies : Stall(c))
       \/ (\E p \in Processes : AddAgain(p) \/ Crash(p))
  BY DEF Next, vars, Submit, Answer, Refuse, LookUp, Remove, CleanOldJobs
<1>. QED  BY <1>2, <1>4, <1>5, <1>6, <1>7, <1>8, <1>9, <1>10, <1>11 DEF ProcessorStep

\* Every step keeps what is known of the waiting copies.
LEMMA WaitingStep == ASSUME Inv, [Next]_vars PROVE WaitingState'
<1>1. TypeOK /\ WaitingState
  BY DEF Inv
<1>2. CASE UNCHANGED queue
  BY <1>1, <1>2 DEF WaitingState, Copies
<1>3. ASSUME NEW j \in Jobs, Add(j) PROVE WaitingState'
  <2>1. /\ Copies' = Copies \cup {Len(queue) + 1} /\ \A c \in Copies : queue'[c] = queue[c]
        /\ queue'[Len(queue) + 1] = [job |-> j, place |-> "waiting", tries |-> 0]
    BY <1>1, <1>3, AddStep
  <2>. QED  BY <1>1, <2>1, NumbersAssumption DEF WaitingState
<1>4. ASSUME NEW c \in Copies, NEW w \in Places, NEW n \in 0..(MaxStalled + 1), Put(c, w, n),
             w = "waiting" => n <= MaxStalled, w = "active" => n >= 1
      PROVE  WaitingState'
  <2>1. /\ Copies' = Copies /\ \A d \in Copies \ {c} : queue'[d] = queue[d]
        /\ queue'[c] = [job |-> queue[c].job, place |-> w, tries |-> n]
    BY <1>1, <1>4, PutStep DEF Places
  <2>. QED  BY <1>1, <1>4, <2>1 DEF WaitingState
<1>5. ASSUME NEW s \in Slots, NEW c \in Copies, Take(s, c) PROVE WaitingState'
  <2>1. queue[c].tries + 1 \in 0..(MaxStalled + 1) /\ queue[c].tries + 1 >= 1
    BY <1>1, <1>5, Parts, NumbersAssumption DEF Take, WaitingState
  <2>. QED  BY <1>4, <1>5, <2>1 DEF Take, Places
<1>6. ASSUME NEW s \in Slots, Report(s), queue' # queue PROVE WaitingState'
  <2>1. run[s].copy \in Copies /\ queue[run[s].copy].tries \in 0..(MaxStalled + 1)
    BY <1>1, <1>6, RunningCopy, Parts DEF Report
  <2>2. (IF run[s].ok THEN "processed" ELSE "unprocessed") \in Places \ {"waiting", "active"}
    BY DEF Places
  <2>. QED  BY <1>4, <1>6, <2>1, <2>2 DEF Report
<1>7. ASSUME NEW c \in Copies, Stall(c) PROVE WaitingState'
  <2>1. queue[c].tries \in 0..(MaxStalled + 1)
    BY <1>1, Parts
  <2>2. CASE queue[c].tries <= MaxStalled
    BY <1>4, <1>7, <2>1, <2>2 DEF Stall, Places
  <2>3. CASE ~(queue[c].tries <= MaxStalled)
    BY <1>4, <1>7, <2>1, <2>3 DEF Stall, Places
  <2>. QED  BY <2>2, <2>3
<1>8. ASSUME queue' # queue
      PROVE  \/ \E j \in Jobs : Add(j)
             \/ \E s \in Slots, c \in Copies : Take(s, c)
             \/ \E s \in Slots : Report(s)
             \/ \E c \in Copies : Stall(c)
  <2>1. ASSUME NEW p \in Processes, AddAgain(p) PROVE \E j \in Jobs : Add(j)
    <3>1. queue[deadLetters[retry[p].letter].copy].job \in Jobs
      BY <1>1, <2>1, Parts DEF AddAgain, RetryState, LetterState, Inv
    <3>. QED  BY <1>8, <2>1, <3>1 DEF AddAgain
  <2>. QED
    BY <1>8, <2>1 DEF Next, ProcessorStep, vars, Submit, Enqueue, Answer, Refuse, Complete, Fail,
       Bury, LookUp, Remove, CleanOldJobs, Crash
<1>. QED  BY <1>2, <1>3, <1>5, <1>6, <1>7, <1>8

\* Every step keeps what is known of the dead letters.
LEMMA LetterStep == ASSUME Inv, [Next]_vars PROVE LetterState'
<1>1. TypeOK /\ LetterState /\ Copies \subseteq Copies'
  BY CopiesStay DEF Inv
<1>2. ASSUME NEW s \in Slots, Bury(s) PROVE LetterState'
  <2>1. run[s].copy \in Copies
    BY <1>2, RunningCopy DEF Bury
  <2>2. CASE UNCHANGED deadLetters
    BY <1>1, <2>2 DEF LetterState
  <2>3. CASE deadLetters' = Append(deadLetters, [copy |-> run[s].copy, there |-> TRUE])
    <3>1. deadLetters \in Seq(Letter)
      BY <1>1 DEF TypeOK
    <3>2. \A l \in DOMAIN deadLetters' :
            deadLetters'[l].copy = run[s].copy
            \/ (l \in DOMAIN deadLetters /\ deadLetters'[l] = deadLetters[l])
      BY <2>3, <3>1
    <3>. QED  BY <1>1, <2>1, <3>2 DEF LetterState
  <2>. QED  BY <1>2, <2>2, <2>3 DEF Bury
<1>3. ASSUME NEW p \in Processes, Remove(p) PROVE LetterState'
  <2>1. DOMAIN deadLetters' = DOMAIN deadLetters
    BY <1>1, <1>3 DEF Remove, TypeOK
  <2>. QED  BY <1>1, <2>1, LettersStay DEF LetterState
<1>4. UNCHANGED deadLetters \/ (\E s \in Slots : Bury(s)) \/ (\E p \in Processes : Remove(p))
  BY DEF Next, ProcessorStep, vars, Submit, Enqueue, Answer, Refuse, Take, Complete, Fail, Report,
     Stall, LookUp, AddAgain, CleanOldJobs, Crash
<1>. QED  BY <1>1, <1>2, <1>3, <1>4 DEF LetterState

\* Every step keeps what is known of the retries in hand.
LEMMA RetryStep == ASSUME Inv, [Next]_vars PROVE RetryState'
<1>1. TypeOK /\ LetterState /\ RetryState
  BY DEF Inv
<1>2. ASSUME NEW p \in Processes, retry'[p] = retry[p]
      PROVE  /\ retry'[p].pc # "idle" => retry'[p].letter \in DOMAIN deadLetters'
             /\ retry'[p].pc = "remove" => AddedAgain(deadLetters[retry[p].letter].copy)'
             /\ retry'[p].pc = "remove" =>
                  deadLetters'[retry[p].letter].copy = deadLetters[retry[p].letter].copy
  BY <1>1, <1>2, LettersStay, KeptStays DEF RetryState, LetterState
<1>3. \A p \in Processes : retry'[p] = retry[p] =>
        /\ retry'[p].pc # "idle" => retry'[p].letter \in DOMAIN deadLetters'
        /\ retry'[p].pc = "remove" => AddedAgain(deadLetters[retry[p].letter].copy)'
        /\ retry'[p].pc = "remove" =>
             deadLetters'[retry[p].letter].copy = deadLetters[retry[p].letter].copy
  BY <1>2
<1>4. ASSUME NEW p \in Processes, retry'[p] # retry[p], retry'[p].pc # "idle"
      PROVE  /\ retry'[p].letter \in DOMAIN deadLetters'
             /\ retry'[p].pc = "remove" =>
                  \E d \in Copies' : /\ d > deadLetters'[retry'[p].letter].copy
                                     /\ queue'[d].job = queue'[deadLetters'[retry'[p].letter].copy].job
  <2>1. ASSUME NEW q \in Processes, NEW l \in DOMAIN deadLetters, LookUp(q, l)
        PROVE  q = p /\ retry'[p].letter = l /\ retry'[p].pc = "add" /\ UNCHANGED deadLetters
    BY <1>1, <1>4, <2>1 DEF LookUp, TypeOK
  <2>2. ASSUME NEW q \in Processes, AddAgain(q)
        PROVE  /\ retry'[p].letter \in DOMAIN deadLetters'
               /\ \E d \in Copies' : /\ d > deadLetters'[retry'[p].letter].copy
                                     /\ queue'[d].job = queue'[deadLetters'[retry'[p].letter].copy].job
    <3> DEFINE c == deadLetters[retry[p].letter].copy
    <3>1. q = p
      BY <1>1, <1>4, <2>2 DEF AddAgain, TypeOK
    <3>2. /\ retry' = [retry EXCEPT ![p].pc = "remove"] /\ Add(queue[c].job)
          /\ UNCHANGED deadLetters /\ retry[p].pc = "add"
      BY <1>1, <1>4, <2>2, <3>1 DEF AddAgain, TypeOK, NoRetry
    <3>3. /\ retry[p].letter \in DOMAIN deadLetters /\ c \in Copies /\ queue[c].job \in Jobs
          /\ retry'[p].letter = retry[p].letter
      BY <1>1, <3>2, Parts DEF RetryState, LetterState, TypeOK, Retry
    <3> DEFINE k == queue[c].job
               r == [job |-> k, place |-> "waiting", tries |-> 0]
    <3>4. /\ Len(queue) + 1 \in Copies' /\ queue'[Len(queue) + 1].job = k
          /\ queue'[c] = queue[c]
      <4>1. k \in Jobs /\ Add(k) /\ c \in Copies
        BY <3>2, <3>3
      <4>. HIDE DEF c, k
      <4>2. /\ Copies' = Copies \cup {Len(queue) + 1}
            /\ \A d \in Copies : queue'[d] = queue[d]
            /\ queue'[Len(queue) + 1] = r
        BY <1>1, <4>1, AddStep
      <4>3. r.job = k
        OBVIOUS
      <4>. QED  BY <4>1, <4>2, <4>3
    <3>5. Len(queue) + 1 > c
      BY <1>1, <3>3, Parts DEF Copies
    <3>. HIDE DEF c
    <3>6. deadLetters'[retry'[p].letter].copy = c
      BY <3>2, <3>3 DEF c
    <3>. QED  BY <3>2, <3>3, <3>4, <3>5, <3>6
  <2>3. ASSUME NEW q \in Processes, Remove(q) \/ Crash(q) PROVE FALSE
    BY <1>1, <1>4, <2>3 DEF Remove, Crash, TypeOK, NoRetry
  <2>4. \/ \E q \in Processes, l \in DOMAIN deadLetters : LookUp(q, l)
        \/ \E q \in Processes : AddAgain(q) \/ Remove(q) \/ Crash(q)
    BY <1>4 DEF Next, ProcessorStep, vars, Submit, Enqueue, Answer, Refuse, Take, Complete, Fail,
       Bury, Report, Stall, CleanOldJobs
  <2>. QED  BY <2>1, <2>2, <2>3, <2>4
<1>. QED  BY <1>3, <1>4 DEF RetryState, AddedAgain

\* How the processor of a slot came to be what it is after a step.
LEMMA RunChange ==
  ASSUME Inv, [Next]_vars, NEW s \in Slots, run'[s].pc # "idle"
  PROVE  \/ \E c \in Copies : Take(s, c) /\ run'[s].copy = c /\ run'[s].pc = "extract"
         \/ /\ run[s].pc # "idle" /\ run'[s].copy = run[s].copy
            /\ run'[s].pc = "extract" => run[s].pc = "extract"
            /\ run'[s].pc = "report" /\ ~run'[s].ok => Bury(s) \/ (run[s].pc = "report" /\ ~run[s].ok)
<1>1. run \in [Slots -> Run]
  BY DEF Inv, TypeOK
<1>2. CASE run'[s] = run[s]
  BY <1>2
<1>3. ASSUME NEW t \in Slots, NEW c \in Copies, Take(t, c), run'[s] # run[s]
      PROVE  Take(s, c) /\ run'[s].copy = c /\ run'[s].pc = "extract"
  BY <1>1, <1>3 DEF Take
<1>4. ASSUME NEW t \in Slots, Complete(t), run'[s] # run[s]
      PROVE  run[s].pc # "idle" /\ run'[s].copy = run[s].copy /\ run'[s].pc = "report" /\ run'[s].ok
  <2>1. t = s
    BY <1>1, <1>4 DEF Complete
  <2>2. run[s] \in Run
    BY <1>1
  <2>3. run'[s].pc = "report" /\ run'[s].copy = run[s].copy /\ run'[s].ok = TRUE
    BY <1>1, <1>4, <2>1, <2>2 DEF Complete, Run
  <2>4. run[s].pc # "idle"
    BY <1>4, <2>1 DEF Complete
  <2>. QED  BY <2>3, <2>4
<1>5. ASSUME NEW t \in Slots, Fail(t) \/ Bury(t), run'[s] # run[s]
      PROVE  /\ run[s].pc # "idle" /\ run'[s].copy = run[s].copy /\ run'[s].pc \in {"bury", "report"}
             /\ run'[s].pc = "report" => Bury(s)
  <2>1. t = s
    BY <1>1, <1>5 DEF Fail, Bury
  <2>2. run[s].pc \in {"extract", "bury"} /\ run'[s].copy = run[s].copy
    BY <1>1, <1>5, <2>1 DEF Fail, Bury, Run
  <2>3. Fail(s) => run'[s].pc = "bury"
    BY <1>1 DEF Fail
  <2>4. Bury(s) => run'[s].pc = "report"
    BY <1>1 DEF Bury
  <2>. QED  BY <1>5, <2>1, <2>2, <2>3, <2>4
<1>6. ASSUME NEW t \in Slots, Report(t), run'[s] # run[s] PROVE FALSE
  BY <1>1, <1>6 DEF Report, NoRun
<1>7. ASSUME NEW c \in Copies, Stall(c)
      PROVE  run'[s].pc = run[s].pc /\ run'[s].copy = run[s].copy /\ (run'[s].ok <=> run[s].ok)
  BY <1>1, <1>7 DEF Stall, Run
<1>8. ASSUME NEW p \in Processes, Crash(p), run'[s] # run[s] PROVE FALSE
  BY <1>1, <1>8 DEF Crash, NoRun
<1>9. \/ UNCHANGED run
      \/ \E t \in Slots, c \in Copies : Take(t, c)
      \/ \E t \in Slots : ProcessorStep(t)
      \/ \E c \in Copies : Stall(c)
      \/ \E p \in Processes : Crash(p)
  BY DEF Next, vars, Submit, Enqueue, Answer, Refuse, LookUp, AddAgain, Remove, CleanOldJobs
<1>. QED  BY <1>2, <1>3, <1>4, <1>5, <1>6, <1>7, <1>8, <1>9 DEF ProcessorStep

\* How an entry came to be what it is after a step.
LEMMA EntryChange ==
  ASSUME Inv, [Next]_vars, NEW p \in Processes, NEW j \in Jobs, jobs'[p][j] # jobs[p][j],
         jobs'[p][j] # NoEntry
  PROVE  \/ jobs'[p][j].status = "pending" /\ upload[j].pc = "none"
         \/ \E s \in Slots, w \in {"completed", "failed"} :
              /\ (w = "completed" /\ Complete(s)) \/ (w = "failed" /\ Fail(s))
              /\ s[1] = p /\ queue[run[s].copy].job = j /\ jobs'[p][j].status = w
         \/ \E s \in Slots, c \in Copies :
              /\ Take(s, c) /\ s[1] = p /\ queue[c].job = j /\ jobs'[p][j].status = "extracting"
<1>1. TypeOK /\ jobs \in [Processes -> [Jobs -> Entry \cup {NoEntry}]]
  BY DEF Inv, TypeOK
<1>2. ASSUME NEW q \in Processes, NEW k \in Jobs,
             NEW w \in {"extracting", "completed", "failed"}, Show(q, k, w)
      PROVE  q = p /\ k = j /\ jobs'[p][j].status = w
  <2>1. /\ \A r \in Processes, i \in Jobs :
             r # q \/ i # k \/ jobs[q][k] = NoEntry => jobs'[r][i] = jobs[r][i]
        /\ jobs[q][k] # NoEntry => jobs'[q][k].status = w
    BY <1>1, <1>2, ShowStep
  <2>2. q = p /\ k = j /\ jobs[q][k] # NoEntry
    BY <2>1
  <2>. QED  BY <2>1, <2>2
<1>3. ASSUME NEW q \in Processes, NEW k \in Jobs, Submit(q, k)
      PROVE  jobs'[p][j].status = "pending" /\ upload[j].pc = "none"
  BY <1>1, <1>3 DEF Submit
<1>4. ASSUME NEW s \in Slots, NEW c \in Copies, Take(s, c)
      PROVE  s[1] = p /\ queue[c].job = j /\ jobs'[p][j].status = "extracting"
  BY <1>1, <1>2, <1>4, Parts DEF Take
<1>5. ASSUME NEW s \in Slots, Complete(s) \/ Fail(s)
      PROVE  \E w \in {"completed", "failed"} :
               /\ (w = "completed" /\ Complete(s)) \/ (w = "failed" /\ Fail(s))
               /\ s[1] = p /\ queue[run[s].copy].job = j /\ jobs'[p][j].status = w
  <2>1. s[1] \in Processes /\ queue[run[s].copy].job \in Jobs
    BY <1>1, <1>5, Parts, RunningCopy DEF Complete, Fail
  <2>2. PICK w \in {"completed", "failed"} :
          /\ (w = "completed" /\ Complete(s)) \/ (w = "failed" /\ Fail(s))
          /\ Show(s[1], queue[run[s].copy].job, w)
    BY <1>5 DEF Complete, Fail
  <2>3. s[1] = p /\ queue[run[s].copy].job = j /\ jobs'[p][j].status = w
    BY <1>2, <2>1, <2>2
  <2>. QED  BY <2>2, <2>3
<1>6. ASSUME NEW q \in Processes, CleanOldJobs(q) \/ Crash(q) PROVE FALSE
  BY <1>1, <1>6 DEF CleanOldJobs, Crash
<1>7. \/ \E q \in Processes, k \in Jobs : Submit(q, k)
      \/ \E s \in Slots, c \in Copies : Take(s, c)
      \/ \E s \in Slots : Complete(s) \/ Fail(s)
      \/ \E q \in Processes : CleanOldJobs(q) \/ Crash(q)
  BY DEF Next, ProcessorStep, vars, Enqueue, Answer, Refuse, Bury, Report, Stall, LookUp, AddAgain, Remove
<1>. QED  BY <1>3, <1>4, <1>5, <1>6, <1>7

\* Bury is where a failure is kept.
LEMMA ReportStep == ASSUME Inv, [Next]_vars PROVE ReportState'
<1>. SUFFICES ASSUME NEW s \in Slots, run'[s].pc = "report", ~run'[s].ok PROVE Kept(run[s].copy)'
  BY DEF ReportState
<1>1. /\ run[s].pc # "idle" /\ run'[s].copy = run[s].copy /\ run[s].copy \in Copies
      /\ Bury(s) \/ (run[s].pc = "report" /\ ~run[s].ok)
  BY RunChange, RunningCopy
<1>2. CASE Bury(s)
  <2>1. CASE deadLetters' = Append(deadLetters, [copy |-> run[s].copy, there |-> TRUE])
    <3>1. deadLetters \in Seq(Letter)
      BY DEF Inv, TypeOK
    <3>2. IsLetter(run[s].copy)'
      BY <1>1, <2>1, <3>1 DEF IsLetter
    <3>. QED  BY <1>1, <3>2 DEF Kept
  <2>2. CASE unburied' = unburied \cup {run[s].copy}
    BY <1>1, <2>2 DEF Kept
  <2>. QED  BY <1>2, <2>1, <2>2 DEF Bury
<1>3. CASE run[s].pc = "report" /\ ~run[s].ok
  BY <1>1, <1>3, KeptStays DEF Inv, ReportState, Kept, IsLetter, AddedAgain
<1>. QED  BY <1>1, <1>2, <1>3

\* What an action does to the queue.
LEMMA TakeQueue ==
  ASSUME Inv, NEW s \in Slots, NEW c \in Copies, Take(s, c)
  PROVE  /\ Copies' = Copies /\ \A d \in Copies \ {c} : queue'[d] = queue[d]
         /\ queue[c].place = "waiting" /\ queue'[c].place = "active"
         /\ queue'[c].job = queue[c].job /\ queue'[c].tries = queue[c].tries + 1
<1>1. TypeOK /\ queue[c].tries + 1 \in 0..(MaxStalled + 1) /\ Put(c, "active", queue[c].tries + 1)
  BY Parts, NumbersAssumption DEF Take, Inv, WaitingState
<1>2. /\ Copies' = Copies /\ \A d \in Copies \ {c} : queue'[d] = queue[d]
      /\ queue'[c] = [job |-> queue[c].job, place |-> "active", tries |-> queue[c].tries + 1]
  BY <1>1, PutStep
<1>. QED  BY <1>2 DEF Take

\* A result that changes the queue ends the active copy of its processor only.
LEMMA ReportQueue ==
  ASSUME Inv, NEW s \in Slots, Report(s), queue' # queue
  PROVE  /\ run[s].copy \in Copies
         /\ Copies' = Copies /\ \A d \in Copies \ {run[s].copy} : queue'[d] = queue[d]
         /\ queue[run[s].copy].place = "active"
         /\ queue'[run[s].copy].place = IF run[s].ok THEN "processed" ELSE "unprocessed"
         /\ queue'[run[s].copy].job = queue[run[s].copy].job
<1> DEFINE c == run[s].copy
           w == IF run[s].ok THEN "processed" ELSE "unprocessed"
<1>1. /\ TypeOK /\ c \in Copies /\ queue[c].tries \in 0..(MaxStalled + 1) /\ w \in Places
      /\ queue[c].place = "active" /\ Put(c, w, queue[c].tries)
  BY Parts DEF Report, Inv, RunState, Places
<1>. HIDE DEF w, c
<1>2. /\ Copies' = Copies /\ \A d \in Copies \ {c} : queue'[d] = queue[d]
      /\ queue'[c] = [job |-> queue[c].job, place |-> w, tries |-> queue[c].tries]
  BY <1>1, PutStep DEF Places
<1>3. queue'[c].place = w /\ queue'[c].job = queue[c].job
  BY <1>2
<1>. QED  BY <1>1, <1>2, <1>3 DEF w, c

\* A stall moves one active copy only, back to waiting or out of the queue.
LEMMA StallQueue ==
  ASSUME Inv, NEW c \in Copies, Stall(c)
  PROVE  /\ Copies' = Copies /\ \A d \in Copies \ {c} : queue'[d] = queue[d]
         /\ queue[c].place = "active" /\ queue'[c].place \in {"waiting", "stalled"}
         /\ queue'[c].job = queue[c].job
<1> DEFINE w == IF queue[c].tries <= MaxStalled THEN "waiting" ELSE "stalled"
<1>1. /\ TypeOK /\ queue[c].tries \in 0..(MaxStalled + 1) /\ w \in {"waiting", "stalled"}
      /\ queue[c].place = "active" /\ Put(c, w, queue[c].tries)
  BY Parts DEF Stall, Inv
<1>. HIDE DEF w
<1>2. /\ Copies' = Copies /\ \A d \in Copies \ {c} : queue'[d] = queue[d]
      /\ queue'[c] = [job |-> queue[c].job, place |-> w, tries |-> queue[c].tries]
  BY <1>1, PutStep
<1>. QED  BY <1>1, <1>2

\* Adding a job appends one copy and changes no other.
LEMMA AddQueue ==
  ASSUME Inv, NEW j \in Jobs, Add(j)
  PROVE  /\ Copies' = Copies \cup {Len(queue) + 1} /\ Len(queue) + 1 \notin Copies
         /\ Len(queue') = Len(queue) + 1 /\ Len(queue) \in Nat
         /\ \A c \in Copies : queue'[c] = queue[c]
         /\ queue'[Len(queue) + 1].job = j /\ queue'[Len(queue) + 1].place = "waiting"
<1>1. TypeOK /\ Len(queue) \in Nat /\ Len(queue) + 1 \notin Copies
  BY Parts DEF Inv, Copies
<1>2. /\ Copies' = Copies \cup {Len(queue) + 1} /\ Len(queue') = Len(queue) + 1
      /\ \A c \in Copies : queue'[c] = queue[c]
      /\ queue'[Len(queue) + 1] = [job |-> j, place |-> "waiting", tries |-> 0]
  BY <1>1, AddStep
<1>3. queue'[Len(queue) + 1].job = j /\ queue'[Len(queue) + 1].place = "waiting"
  BY <1>2
<1>. QED  BY <1>1, <1>2, <1>3

\* Only an upload and a retry add copies; a retry adds one of a job that has some.
LEMMA QueueActions ==
  ASSUME Inv, [Next]_vars, queue' # queue
  PROVE  \/ \E j \in Jobs : Enqueue(j) /\ Add(j)
         \/ \E p \in Processes, c \in Copies : AddAgain(p) /\ Add(queue[c].job) /\ queue[c].job \in Jobs
         \/ \E s \in Slots, c \in Copies : Take(s, c)
         \/ \E s \in Slots : Report(s)
         \/ \E c \in Copies : Stall(c)
<1>1. ASSUME NEW p \in Processes, AddAgain(p)
      PROVE  \E c \in Copies : Add(queue[c].job) /\ queue[c].job \in Jobs
  <2> DEFINE c == deadLetters[retry[p].letter].copy
  <2>1. c \in Copies /\ queue[c].job \in Jobs
    BY <1>1, Parts DEF AddAgain, RetryState, LetterState, Inv
  <2>2. Add(queue[c].job)
    BY <1>1 DEF AddAgain
  <2>. QED  BY <2>1, <2>2
<1>2. ASSUME NEW j \in Jobs, Enqueue(j) PROVE Add(j)
  BY <1>2 DEF Enqueue
<1>. QED
  BY <1>1, <1>2 DEF Next, ProcessorStep, vars, Submit, Answer, Refuse, Complete, Fail, Bury, LookUp,
     Remove, CleanOldJobs, Crash

\* A job that was never uploaded has no copy after a step either.
LEMMA UploadStep == ASSUME Inv, [Next]_vars PROVE UploadState'
<1>1. TypeOK /\ UploadState
  BY DEF Inv
<1>2. SUFFICES ASSUME NEW j \in Jobs, upload'[j].pc = "none", NEW c \in Copies' PROVE queue'[c].job # j
  BY DEF UploadState
<1>3. upload[j].pc = "none"
  <2>1. upload \in [Jobs -> Upload]
    BY <1>1 DEF TypeOK
  <2>2. ASSUME NEW p \in Processes, NEW k \in Jobs, Submit(p, k) PROVE upload[j].pc = "none"
    BY <1>2, <2>1, <2>2 DEF Submit
  <2>3. ASSUME NEW k \in Jobs, Enqueue(k) \/ Answer(k) \/ Refuse(k) PROVE upload[j].pc = "none"
    BY <1>2, <2>1, <2>3 DEF Enqueue, Answer, Refuse, Upload
  <2>4. ASSUME NEW p \in Processes, Crash(p) PROVE upload[j].pc = "none"
    BY <1>2, <2>1, <2>4 DEF Crash, Upload
  <2>5. \/ UNCHANGED upload
        \/ \E p \in Processes, k \in Jobs : Submit(p, k)
        \/ \E k \in Jobs : Enqueue(k) \/ Answer(k) \/ Refuse(k)
        \/ \E p \in Processes : Crash(p)
    BY DEF Next, ProcessorStep, vars, Take, Complete, Fail, Bury, Report, Stall, LookUp, AddAgain,
       Remove, CleanOldJobs
  <2>. QED  BY <1>2, <2>2, <2>3, <2>4, <2>5
<1>4. CASE c \in Copies
  BY <1>1, <1>3, <1>4, CopiesStay DEF UploadState
<1>5. CASE c \notin Copies
  <2>1. queue' # queue
    BY <1>2, <1>5 DEF Copies
  <2>2. ASSUME NEW k \in Jobs, Add(k), k # j PROVE queue'[c].job # j
    <3>1. c = Len(queue) + 1 /\ queue'[Len(queue) + 1].job = k
      BY <1>2, <1>5, <2>2, AddQueue
    <3>. QED  BY <2>2, <3>1
  <2>3. ASSUME NEW k \in Jobs, Enqueue(k) PROVE k # j
    BY <1>1, <1>2, <2>3 DEF Enqueue, TypeOK
  <2>4. \A d \in Copies : queue[d].job # j
    BY <1>1, <1>3 DEF UploadState
  <2>5. ASSUME NEW s \in Slots, NEW d \in Copies, Take(s, d) PROVE FALSE
    BY <1>2, <1>5, <2>5, TakeQueue
  <2>6. ASSUME NEW s \in Slots, Report(s) PROVE FALSE
    BY <1>2, <1>5, <2>1, <2>6, ReportQueue
  <2>7. ASSUME NEW d \in Copies, Stall(d) PROVE FALSE
    BY <1>2, <1>5, <2>7, StallQueue
  <2>. QED  BY <2>1, <2>2, <2>3, <2>4, <2>5, <2>6, <2>7, QueueActions
<1>. QED  BY <1>4, <1>5

\* Tries are numbers after a step too.
LEMMA Tries == ASSUME Inv, [Next]_vars
               PROVE  \A c \in Copies : queue[c].tries \in Nat /\ queue'[c].tries \in Nat
<1>1. \A c \in Copies : queue[c].tries \in Nat
  BY Parts, NumbersAssumption DEF Inv
<1>2. queue' \in Seq(Copy)
  BY TypeStep DEF TypeOK
<1>3. \A c \in Copies : queue'[c] \in Copy
  BY <1>2, CopiesStay DEF Copies
<1>. QED  BY <1>1, <1>3, NumbersAssumption DEF Copy

\* A copy that was taken stays one.
LEMMA EntryStep == ASSUME Inv, [Next]_vars PROVE EntryState'
<1>1. TypeOK /\ EntryState
  BY DEF Inv
<1>2. SUFFICES ASSUME NEW p \in Processes, NEW j \in Jobs, jobs'[p][j] # NoEntry,
                      jobs'[p][j].status # "pending"
               PROVE  \E c \in Copies : queue[c].job = j /\ queue'[c].tries >= 1
  BY CopiesStay DEF EntryState
<1>3. ASSUME NEW c \in Copies, queue[c].tries >= 1 PROVE queue'[c].tries >= 1
  BY <1>3, CopiesStay, Tries
<1>4. CASE jobs'[p][j] = jobs[p][j]
  BY <1>1, <1>2, <1>3, <1>4 DEF EntryState
<1>5. ASSUME NEW s \in Slots, Complete(s) \/ Fail(s), queue[run[s].copy].job = j
      PROVE  \E c \in Copies : queue[c].job = j /\ queue'[c].tries >= 1
  BY <1>3, <1>5, RunningCopy DEF Complete, Fail
<1>6. ASSUME NEW s \in Slots, NEW c \in Copies, Take(s, c) PROVE queue'[c].tries >= 1
  BY <1>6, TakeQueue, Tries
<1>. QED  BY <1>2, <1>4, <1>5, <1>6, EntryChange

\* What was run again stays a job that was run again.
LEMMA RunAgainStays == ASSUME Inv, [Next]_vars, NEW j \in Jobs, RunAgain(j) PROVE RunAgain(j)'
<1>1. PICK c \in Copies, d \in Copies :
        queue[c].job = j /\ queue[d].job = j /\ (c # d \/ queue[c].tries > 1)
  BY DEF RunAgain
<1>2. queue[c].tries > 1 => queue'[c].tries > 1
  BY CopiesStay, Tries
<1>3. c \in Copies' /\ d \in Copies' /\ queue'[c].job = j /\ queue'[d].job = j
  BY <1>1, CopiesStay
<1>. QED  BY <1>1, <1>2, <1>3 DEF RunAgain

\* Two processors of a job, or a processor after the job was taken before, are a rerun.
LEMMA CompletedStep == ASSUME Inv, [Next]_vars PROVE CompletedState'
<1>1. TypeOK /\ EntryState /\ CompletedState /\ RunState
  BY DEF Inv
<1>2. SUFFICES ASSUME NEW p \in Processes, NEW s \in Slots, run'[s].pc = "extract", NEW j \in Jobs,
                      j = queue'[run'[s].copy].job, jobs'[p][j] # NoEntry,
                      jobs'[p][j].status = "completed"
               PROVE  RunAgain(j)'
  <2>1. ASSUME NEW s \in Slots, run'[s].pc = "extract" PROVE queue'[run'[s].copy].job \in Jobs
    <3>1. run'[s].copy \in Copies
      BY <2>1, RunChange, RunningCopy
    <3>. QED  BY <1>1, <3>1, CopiesStay, Parts
  <2>. QED  BY <2>1 DEF CompletedState
<1>3. ASSUME NEW c \in Copies, Take(s, c), run'[s].copy = c PROVE RunAgain(j)'
  <2>1. queue[c].job = j /\ queue'[c].job = j /\ c \in Copies' /\ queue'[c].tries = queue[c].tries + 1
    BY <1>2, <1>3, TakeQueue
  <2>2. jobs'[p][j] = jobs[p][j]
    <3>1. \A q \in Processes, k \in Jobs : q # s[1] \/ k # j \/ jobs[s[1]][j] = NoEntry
                                              => jobs'[q][k] = jobs[q][k]
      BY <1>1, <1>3, <2>1, ShowStep, Parts DEF Take
    <3>2. jobs[s[1]][j] # NoEntry => jobs'[s[1]][j].status = "extracting"
      BY <1>1, <1>3, <2>1, ShowStep, Parts DEF Take
    <3>. QED  BY <1>2, <3>1, <3>2
  <2>3. PICK d \in Copies : queue[d].job = j /\ queue[d].tries >= 1
    BY <1>1, <1>2, <2>2 DEF EntryState
  <2>4. d \in Copies' /\ queue'[d].job = j /\ (d = c => queue'[c].tries > 1)
    BY <2>1, <2>3, CopiesStay, Tries
  <2>. QED  BY <2>1, <2>4 DEF RunAgain
<1>4. ASSUME run[s].pc = "extract", run'[s].copy = run[s].copy PROVE RunAgain(j)'
  <2>1. run[s].copy \in Copies /\ queue[run[s].copy].job = j
    BY <1>2, <1>4, RunningCopy, CopiesStay
  <2>2. CASE jobs'[p][j] = jobs[p][j]
    BY <1>1, <1>2, <1>4, <2>1, <2>2, RunAgainStays DEF CompletedState
  <2>3. CASE jobs'[p][j] # jobs[p][j]
    <3>1. PICK t \in Slots : Complete(t) /\ queue[run[t].copy].job = j
      BY <1>2, <2>3, EntryChange
    <3>2. t # s
      BY <1>1, <1>2, <3>1 DEF Complete, TypeOK, Run
    <3>3. run[t].copy \in Copies
      BY <3>1, RunningCopy DEF Complete
    <3>4. run[t].copy = run[s].copy => queue[run[s].copy].tries >= 2
      BY <1>1, <1>4, <3>2 DEF RunState
    <3>5. RunAgain(j)
      BY <2>1, <3>1, <3>3, <3>4, Tries DEF RunAgain
    <3>. QED  BY <3>5, RunAgainStays
  <2>. QED  BY <2>2, <2>3
<1>. QED  BY <1>2, <1>3, <1>4, RunChange

\* A processor that reports a failure has kept it; the rest is KeptStays.
LEMMA FailuresStep == ASSUME Inv, [Next]_vars PROVE FailuresAreKept'
<1>1. TypeOK /\ FailuresAreKept /\ ReportState
  BY DEF Inv
<1>2. SUFFICES ASSUME NEW c \in Copies', queue'[c].place = "unprocessed" PROVE Kept(c)'
  BY DEF FailuresAreKept
<1>3. CASE c \in Copies /\ queue[c].place = "unprocessed"
  BY <1>1, <1>3, KeptStays DEF FailuresAreKept
<1>4. CASE ~(c \in Copies /\ queue[c].place = "unprocessed")
  <2>1. queue' # queue
    BY <1>2, <1>4 DEF Copies
  <2>2. ASSUME NEW j \in Jobs, Add(j) PROVE FALSE
    BY <1>2, <1>4, <2>2, AddQueue
  <2>3. ASSUME NEW s \in Slots, NEW d \in Copies, Take(s, d) PROVE FALSE
    BY <1>2, <1>4, <2>3, TakeQueue
  <2>4. ASSUME NEW d \in Copies, Stall(d) PROVE FALSE
    BY <1>2, <1>4, <2>4, StallQueue
  <2>5. ASSUME NEW s \in Slots, Report(s) PROVE Kept(c)'
    <3>1. c = run[s].copy /\ c \in Copies /\ ~run[s].ok /\ run[s].pc = "report"
      BY <1>2, <1>4, <2>1, <2>5, ReportQueue DEF Report
    <3>. QED  BY <1>1, <3>1, KeptStays DEF ReportState
  <2>. QED  BY <2>1, <2>2, <2>3, <2>4, <2>5, QueueActions
<1>. QED  BY <1>3, <1>4

\* No step makes an entry of a job that was begun pending.
LEMMA BegunStep == ASSUME Inv, [Next]_vars PROVE BegunIsNotPending'
<1>1. TypeOK /\ BegunIsNotPending /\ UploadState
  BY DEF Inv
<1>2. SUFFICES ASSUME NEW s \in Slots, run'[s].pc # "idle", NEW j, j = queue'[run'[s].copy].job,
                      jobs'[s[1]][j] # NoEntry
               PROVE  jobs'[s[1]][j].status # "pending"
  BY DEF BegunIsNotPending
<1>3. ASSUME NEW c \in Copies, Take(s, c), run'[s].copy = c PROVE jobs'[s[1]][j].status # "pending"
  <2>1. j \in Jobs /\ s[1] \in Processes /\ Show(s[1], j, "extracting")
    BY <1>1, <1>2, <1>3, TakeQueue, Parts DEF Take
  <2>. QED  BY <1>1, <1>2, <2>1, ShowStep
<1>4. ASSUME run[s].pc # "idle", run'[s].copy = run[s].copy PROVE jobs'[s[1]][j].status # "pending"
  <2>1. run[s].copy \in Copies /\ queue[run[s].copy].job = j /\ j \in Jobs /\ s[1] \in Processes
    BY <1>1, <1>2, <1>4, RunningCopy, CopiesStay, Parts
  <2>2. CASE jobs'[s[1]][j] = jobs[s[1]][j]
    BY <1>1, <1>2, <1>4, <2>1, <2>2 DEF BegunIsNotPending
  <2>3. CASE jobs'[s[1]][j] # jobs[s[1]][j]
    <3>1. upload[j].pc # "none"
      BY <1>1, <2>1 DEF UploadState
    <3>. QED  BY <1>2, <2>1, <2>3, <3>1, EntryChange
  <2>. QED  BY <2>2, <2>3
<1>. QED  BY <1>2, <1>3, <1>4, RunChange

-----------------------------------------------------------------------------
\* The invariant, and what follows from it.

LEMMA InitInv == Init => Inv
<1>. SUFFICES ASSUME Init PROVE Inv
  OBVIOUS
<1>1. Copies = {} /\ DOMAIN deadLetters = {}
  BY DEF Init, Copies
<1>2. NoRun \in Run /\ NoRetry \in Retry
  BY DEF NoRun, Run, NoRetry, Retry
<1>3. TypeOK
  BY <1>2, NumbersAssumption DEF Init, TypeOK, Upload
<1>4. \A s \in Slots : run[s] = NoRun /\ run[s].pc = "idle"
  BY DEF Init, NoRun
<1>5. RunState /\ ReportState /\ CompletedState /\ BegunIsNotPending
  BY <1>4 DEF RunState, ReportState, CompletedState, BegunIsNotPending
<1>6. WaitingState /\ LetterState /\ UploadState /\ FailuresAreKept
  BY <1>1 DEF WaitingState, LetterState, UploadState, FailuresAreKept
<1>7. RetryState
  BY DEF Init, RetryState, NoRetry
<1>8. EntryState
  BY DEF Init, EntryState
<1>. QED  BY <1>3, <1>5, <1>6, <1>7, <1>8 DEF Inv

\* The invariant is inductive: each conjunct by the lemma of its own.
LEMMA NextInv == Inv /\ [Next]_vars => Inv'
<1>. SUFFICES ASSUME Inv, [Next]_vars PROVE Inv'
  OBVIOUS
<1>. QED
  BY TypeStep, RunStateStep, WaitingStep, LetterStep, RetryStep, ReportStep, UploadStep, EntryStep,
     CompletedStep, FailuresStep, BegunStep DEF Inv

\* The inductive invariant holds in every reachable state.
THEOREM InvHolds == Spec => []Inv
<1>. QED  BY InitInv, NextInv, PTL DEF Spec

\* The state of the pipeline has its type: a copy is taken at most MaxStalled + 1 times.
THEOREM TypeCorrect == Spec => []TypeOK
<1>1. Inv => TypeOK
  BY DEF Inv
<1>. QED  BY <1>1, InvHolds, PTL

\* The worker's catch and retryDeadLetterJob: a copy that failed is a dead letter, or
\* was added again, or its move to the dead letters failed.
THEOREM FailuresKept == Spec => []FailuresAreKept
<1>1. Inv => FailuresAreKept
  BY DEF Inv
<1>. QED  BY <1>1, InvHolds, PTL

\* addJob makes the entry before the job is in Redis: no process shows as pending a job
\* that it has begun.
THEOREM BegunNotPending == Spec => []BegunIsNotPending
<1>1. Inv => BegunIsNotPending
  BY DEF Inv
<1>. QED  BY <1>1, InvHolds, PTL

\* updateJobStatus: a completed entry is taken back only for a job that was run again.
THEOREM CompletedStaysHolds == Spec => CompletedStays
<1> DEFINE Stays == \A p \in Processes, j \in Jobs :
                      /\ jobs[p][j] # NoEntry /\ jobs[p][j].status = "completed"
                      /\ jobs'[p][j] # NoEntry /\ jobs'[p][j].status # "completed"
                      => RunAgain(j)'
<1>1. ASSUME Inv, [Next]_vars PROVE Stays
  <2>1. SUFFICES ASSUME NEW p \in Processes, NEW j \in Jobs,
                        jobs[p][j] # NoEntry, jobs[p][j].status = "completed",
                        jobs'[p][j] # NoEntry, jobs'[p][j].status # "completed"
                 PROVE  RunAgain(j)'
    OBVIOUS
  <2>2. TypeOK /\ UploadState /\ EntryState /\ CompletedState
    BY <1>1 DEF Inv
  <2>3. PICK c \in Copies : queue[c].job = j /\ queue[c].tries >= 1
    BY <2>1, <2>2 DEF EntryState
  <2>4. upload[j].pc # "none"
    BY <2>2, <2>3 DEF UploadState
  <2>5. ASSUME NEW s \in Slots, Fail(s), queue[run[s].copy].job = j PROVE RunAgain(j)'
    <3>1. RunAgain(j)
      BY <2>1, <2>2, <2>5 DEF CompletedState, Fail
    <3>. QED  BY <1>1, <3>1, RunAgainStays
  <2>6. ASSUME NEW s \in Slots, NEW d \in Copies, Take(s, d), queue[d].job = j PROVE RunAgain(j)'
    <3>1. c \in Copies' /\ d \in Copies' /\ queue'[c].job = j /\ queue'[d].job = j
      BY <1>1, <2>3, <2>6, CopiesStay
    <3>2. c = d => queue'[d].tries > 1
      BY <1>1, <2>3, <2>6, TakeQueue, Tries
    <3>. QED  BY <3>1, <3>2 DEF RunAgain
  <2>7. jobs'[p][j] # jobs[p][j]
    BY <2>1
  <2>. QED  BY <1>1, <2>1, <2>4, <2>5, <2>6, <2>7, EntryChange
<1>2. Inv /\ [Next]_vars => [Stays]_vars
  BY <1>1
<1>3. Spec => [][Stays]_vars
  BY <1>2, InvHolds, PTL DEF Spec
<1>. QED  BY <1>3 DEF CompletedStays

-----------------------------------------------------------------------------
\* The two queues implement JobLedger.

\* A job that has copies has a last one.
LEMMA LastCopy ==
  ASSUME TypeOK, NEW j, CopiesOf(j) # {}
  PROVE  \E c \in CopiesOf(j) : ~AddedAgain(c)
<1> DEFINE T == {Len(queue) - c : c \in CopiesOf(j)}
<1>1. Len(queue) \in Nat /\ CopiesOf(j) \subseteq Copies /\ \A c \in Copies : c \in Nat /\ c <= Len(queue)
  BY Parts DEF Copies, CopiesOf
<1>2. T \subseteq Nat /\ T # {}
  BY <1>1
<1>3. PICK n \in T : \A m \in T : <<m, n>> \notin OpToRel(<, Nat)
  BY <1>2, NatLessThanWellFounded, WFMin
<1>4. \A m \in T : ~(m < n)
  BY <1>2, <1>3 DEF OpToRel
<1>5. PICK c \in CopiesOf(j) : n = Len(queue) - c
  OBVIOUS
<1>6. ASSUME NEW d \in Copies, d > c, queue[d].job = queue[c].job PROVE FALSE
  <2>1. d \in CopiesOf(j)
    BY <1>5, <1>6 DEF CopiesOf
  <2>2. Len(queue) - d < n
    BY <1>1, <1>5, <1>6
  <2>. QED  BY <1>4, <2>1, <2>2
<1>. QED  BY <1>5, <1>6 DEF AddedAgain

\* A lost job is one in trouble: its last copy stalled out or was not buried.
LostIsTroubled == \A j \in Jobs : StatusOf(j) = "lost" => j \in Troubled

\* The invariant leaves no other way to lose a job.
LEMMA LostAreTroubled == Inv => LostIsTroubled
<1>. SUFFICES ASSUME Inv, NEW j \in Jobs, StatusOf(j) = "lost" PROVE j \in Troubled
  BY DEF LostIsTroubled
<1>1. TypeOK /\ FailuresAreKept
  BY DEF Inv
<1>2. CopiesOf(j) # {} /\ ~Processed(j) /\ ~Queued(j) /\ ~Dead(j)
  BY DEF StatusOf
<1>3. PICK c \in CopiesOf(j) : ~AddedAgain(c)
  BY <1>1, <1>2, LastCopy
<1>4. c \in Copies /\ queue[c] \in Copy
  BY <1>1, Parts DEF CopiesOf
<1>5. queue[c].place \in {"unprocessed", "stalled"}
  BY <1>2, <1>4 DEF Processed, Queued, InQueue, Copy
<1>6. CASE queue[c].place = "unprocessed"
  BY <1>1, <1>2, <1>3, <1>4, <1>6 DEF FailuresAreKept, Kept, Dead, Troubled
<1>7. CASE queue[c].place = "stalled"
  BY <1>7 DEF Troubled
<1>. QED  BY <1>5, <1>6, <1>7

\* A copy that a step leaves as it was.
Same(c) == /\ c \in Copies /\ queue'[c] = queue[c]
           /\ IsLetter(c)' <=> IsLetter(c)
           /\ c \in unburied' <=> c \in unburied

\* A step changes one copy, or adds one.
LEMMA OneCopy ==
  ASSUME Inv, [Next]_vars
  PROVE  \E x \in Nat : /\ \A c \in Copies' \ {x} : Same(c)
                        /\ x \in Copies' \ Copies => queue'[x].place = "waiting"
<1>1. TypeOK /\ Copies \subseteq Nat
  BY Parts DEF Inv
<1>2. ASSUME UNCHANGED <<queue, deadLetters, unburied>> PROVE \A c \in Copies' : Same(c)
  BY <1>2 DEF Same, Copies, IsLetter
<1>3. ASSUME NEW x \in Copies, UNCHANGED <<deadLetters, unburied>>, Copies' = Copies,
             \A d \in Copies \ {x} : queue'[d] = queue[d]
      PROVE  /\ \A c \in Copies' \ {x} : Same(c)
             /\ x \notin Copies' \ Copies
  BY <1>3 DEF Same, IsLetter
<1>4. ASSUME NEW j \in Jobs, Add(j), UNCHANGED <<deadLetters, unburied>>
      PROVE  /\ Len(queue) + 1 \in Nat
             /\ \A c \in Copies' \ {Len(queue) + 1} : Same(c)
             /\ queue'[Len(queue) + 1].place = "waiting"
  BY <1>4, AddQueue DEF Same, IsLetter
<1>5. ASSUME NEW s \in Slots, Bury(s)
      PROVE  /\ run[s].copy \in Copies /\ Copies' = Copies
             /\ \A c \in Copies \ {run[s].copy} : Same(c)
  <2>1. run[s].copy \in Copies /\ UNCHANGED queue /\ Copies' = Copies /\ deadLetters \in Seq(Letter)
    BY <1>1, <1>5, RunningCopy DEF Bury, Copies, TypeOK
  <2>2. ASSUME NEW c \in Copies \ {run[s].copy} PROVE IsLetter(c)' <=> IsLetter(c)
    <3>1. CASE UNCHANGED deadLetters
      BY <3>1 DEF IsLetter
    <3>2. CASE deadLetters' = Append(deadLetters, [copy |-> run[s].copy, there |-> TRUE])
      <4>1. /\ DOMAIN deadLetters' = DOMAIN deadLetters \cup {Len(deadLetters) + 1}
            /\ \A l \in DOMAIN deadLetters : deadLetters'[l] = deadLetters[l]
            /\ deadLetters'[Len(deadLetters) + 1] = [copy |-> run[s].copy, there |-> TRUE]
        BY <2>1, <3>2
      <4>2. deadLetters'[Len(deadLetters) + 1].copy = run[s].copy
        BY <4>1
      <4>3. deadLetters'[Len(deadLetters) + 1] # [copy |-> c, there |-> TRUE]
        BY <4>2
      <4>. QED  BY <4>1, <4>3 DEF IsLetter
    <3>. QED  BY <1>5, <3>1, <3>2 DEF Bury
  <2>3. \A c \in Copies \ {run[s].copy} : c \in unburied' <=> c \in unburied
    BY <1>5 DEF Bury
  <2>. QED  BY <2>1, <2>2, <2>3 DEF Same
<1>6. ASSUME NEW p \in Processes, Remove(p)
      PROVE  \E x \in Copies : Copies' = Copies /\ \A c \in Copies \ {x} : Same(c)
  <2> DEFINE l == retry[p].letter
             x == deadLetters[l].copy
  <2>1. /\ l \in DOMAIN deadLetters /\ x \in Copies /\ Copies' = Copies
        /\ UNCHANGED <<queue, unburied>> /\ deadLetters \in Seq(Letter)
    BY <1>1, <1>6 DEF Remove, RetryState, LetterState, Inv, TypeOK, Copies
  <2>2. /\ DOMAIN deadLetters' = DOMAIN deadLetters /\ deadLetters'[l].copy = x
        /\ \A k \in DOMAIN deadLetters \ {l} : deadLetters'[k] = deadLetters[k]
    BY <1>6, <2>1 DEF Remove
  <2>. HIDE DEF l, x
  <2>3. ASSUME NEW c \in Copies \ {x} PROVE IsLetter(c)' <=> IsLetter(c)
    <3>1. deadLetters[l] # [copy |-> c, there |-> TRUE] /\ deadLetters'[l] # [copy |-> c, there |-> TRUE]
      BY <2>2 DEF x
    <3>. QED  BY <2>2, <3>1 DEF IsLetter
  <2>. QED  BY <2>1, <2>3 DEF Same
<1>7. ASSUME NEW s \in Slots, Report(s), queue' # queue
      PROVE  \E x \in Nat : /\ \A c \in Copies' \ {x} : Same(c)
                            /\ x \in Copies' \ Copies => queue'[x].place = "waiting"
  BY <1>1, <1>3, <1>7, ReportQueue DEF Report
<1>8. ASSUME NEW s \in Slots, NEW x \in Copies, Take(s, x)
      PROVE  x \in Nat /\ (\A c \in Copies' \ {x} : Same(c)) /\ x \notin Copies' \ Copies
  BY <1>1, <1>3, <1>8, TakeQueue DEF Take
<1>9. ASSUME NEW x \in Copies, Stall(x)
      PROVE  x \in Nat /\ (\A c \in Copies' \ {x} : Same(c)) /\ x \notin Copies' \ Copies
  BY <1>1, <1>3, <1>9, StallQueue DEF Stall
<1>10. ASSUME queue' # queue
       PROVE  \E x \in Nat : /\ \A c \in Copies' \ {x} : Same(c)
                             /\ x \in Copies' \ Copies => queue'[x].place = "waiting"
  <2>1. ASSUME NEW j \in Jobs, Enqueue(j) PROVE UNCHANGED <<deadLetters, unburied>>
    BY <2>1 DEF Enqueue
  <2>2. ASSUME NEW p \in Processes, AddAgain(p) PROVE UNCHANGED <<deadLetters, unburied>>
    BY <2>2 DEF AddAgain
  <2>. QED  BY <1>4, <1>7, <1>8, <1>9, <1>10, <2>1, <2>2, QueueActions
<1>11. ASSUME queue' = queue
       PROVE  \/ UNCHANGED <<queue, deadLetters, unburied>>
              \/ \E s \in Slots : Bury(s)
              \/ \E p \in Processes : Remove(p)
  BY <1>11 DEF Next, ProcessorStep, vars, Submit, Enqueue, Answer, Refuse, Take, Complete, Fail, Report,
     Stall, LookUp, AddAgain, CleanOldJobs, Crash
<1>12. 0 \in Nat /\ 0 \notin Copies'
  BY DEF Copies
<1>. QED  BY <1>1, <1>2, <1>5, <1>6, <1>10, <1>11, <1>12

\* A job whose copies stay as they were stays where it was.
LEMMA SameStatus ==
  ASSUME Inv, [Next]_vars, NEW j \in Jobs, \A c \in Copies' : queue'[c].job = j => Same(c)
  PROVE  StatusOf(j)' = StatusOf(j) /\ (j \in Troubled' <=> j \in Troubled)
<1>1. CopiesOf(j)' = CopiesOf(j) /\ \A c \in CopiesOf(j) : Same(c)
  BY CopiesStay DEF CopiesOf, Same
<1>2. Processed(j)' <=> Processed(j)
  BY <1>1 DEF Processed, Same
<1>3. Queued(j)' <=> Queued(j)
  BY <1>1 DEF Queued, InQueue, Same
<1>4. Dead(j)' <=> Dead(j)
  BY <1>1 DEF Dead, Same
<1>5. j \in Troubled' <=> j \in Troubled
  BY <1>1 DEF Troubled, Same
<1>. QED  BY <1>1, <1>2, <1>3, <1>4, <1>5 DEF StatusOf

\* Where the copies of a job may take it.
LEMMA StatusMoves ==
  ASSUME Inv, [Next]_vars, NEW j \in Jobs, CopiesOf(j)' # {},
         \A c \in Copies' \ Copies : queue'[c].place = "waiting"
  PROVE  <<StatusOf(j), StatusOf(j)'>> \in Ledger!Moves
<1>1. Processed(j) => Processed(j)'
  BY CopiesStay DEF Processed, CopiesOf, InQueue
<1>2. Processed(j)' => Processed(j) \/ Queued(j)
  <2>1. SUFFICES ASSUME NEW c \in Copies', queue'[c].job = j, queue'[c].place = "processed"
                 PROVE  Processed(j) \/ Queued(j)
    BY DEF Processed, CopiesOf
  <2>2. c \in Copies /\ queue[c].job = j /\ (InQueue(c) \/ queue[c].place = "processed")
    BY <2>1, CopiesStay
  <2>. QED  BY <2>2 DEF Processed, Queued, CopiesOf
<1>3. ASSUME CopiesOf(j) = {} PROVE Queued(j)' /\ ~Processed(j)'
  BY <1>3, CopiesStay DEF CopiesOf, Queued, Processed, InQueue
<1>4. StatusOf(j)' \in {"queued", "done", "dead", "lost"}
  BY DEF StatusOf
<1>5. CASE CopiesOf(j) = {}
  BY <1>3, <1>5 DEF StatusOf, Ledger!Moves
<1>6. CASE CopiesOf(j) # {} /\ Processed(j)
  BY <1>1, <1>6 DEF StatusOf, Ledger!Moves
<1>7. CASE CopiesOf(j) # {} /\ ~Processed(j) /\ Queued(j)
  BY <1>4, <1>7 DEF StatusOf, Ledger!Moves
<1>8. CASE CopiesOf(j) # {} /\ ~Processed(j) /\ ~Queued(j)
  <2>1. StatusOf(j) \in {"dead", "lost"} /\ StatusOf(j)' \in {"queued", "dead", "lost"}
    BY <1>2, <1>4, <1>8 DEF StatusOf
  <2>. QED  BY <2>1 DEF Ledger!Moves
<1>. QED  BY <1>5, <1>6, <1>7, <1>8

\* A job that was in trouble stays so.
LEMMA TroubleStays == ASSUME Inv, [Next]_vars PROVE Troubled \subseteq Troubled'
<1>1. unburied \subseteq unburied'
  BY DEF Next, ProcessorStep, vars, Submit, Enqueue, Answer, Refuse, Take, Complete, Fail, Bury,
     Report, Stall, LookUp, AddAgain, Remove, CleanOldJobs, Crash
<1>. QED  BY <1>1, CopiesStay DEF Troubled, CopiesOf, InQueue

\* addJob, the worker, moveToDeadLetterQueue and retryDeadLetterJob: across the queue and
\* the dead letters a job moves as JobLedger says.
THEOREM LedgerImplemented == Spec => JobsAreNotLost
<1> DEFINE status == [j \in Jobs |-> StatusOf(j)]
<1>1. Init => Ledger!Init
  <2>1. SUFFICES ASSUME Init PROVE Ledger!Init
    OBVIOUS
  <2>2. \A j \in Jobs : CopiesOf(j) = {}
    BY <2>1 DEF Init, CopiesOf, Copies
  <2>. QED  BY <2>2 DEF Ledger!Init, StatusOf, Troubled
<1>2. ASSUME Inv, LostIsTroubled', [Next]_vars PROVE [Ledger!Next]_<<status, Troubled>>
  <2>1. PICK x \in Nat : /\ \A c \in Copies' \ {x} : Same(c)
                         /\ x \in Copies' \ Copies => queue'[x].place = "waiting"
    BY <1>2, OneCopy
  <2>2. CASE x \notin Copies'
    <3>1. \A c \in Copies' : Same(c)
      BY <2>1, <2>2
    <3>2. ASSUME NEW j \in Jobs
          PROVE  StatusOf(j)' = StatusOf(j) /\ (j \in Troubled' <=> j \in Troubled)
      BY <1>2, <3>1, SameStatus
    <3>3. Troubled' = Troubled
      BY <3>2 DEF Troubled
    <3>. QED  BY <3>2, <3>3
  <2>3. CASE x \in Copies'
    <3>1. PICK j \in Jobs : j = queue'[x].job
      <4>1. queue' \in Seq(Copy)
        BY <1>2, TypeStep DEF TypeOK
      <4>2. queue'[x] \in Copy
        BY <2>3, <4>1 DEF Copies
      <4>. QED  BY <4>2 DEF Copy
    <3> DEFINE to == StatusOf(j)'
    <3>2. ASSUME NEW k \in Jobs \ {j}
          PROVE  StatusOf(k)' = StatusOf(k) /\ (k \in Troubled' <=> k \in Troubled)
      <4>1. \A c \in Copies' : queue'[c].job = k => Same(c)
        BY <2>1, <3>1
      <4>. QED  BY <1>2, <4>1, SameStatus
    <3>3. CopiesOf(j)' # {} /\ \A c \in Copies' \ Copies : queue'[c].place = "waiting"
      BY <2>1, <2>3, <3>1 DEF CopiesOf, Same
    <3>4. <<status[j], to>> \in Ledger!Moves
      BY <1>2, <3>1, <3>3, StatusMoves
    <3>5. Troubled' \in {Troubled, Troubled \cup {j}}
      BY <1>2, <3>1, <3>2, TroubleStays DEF Troubled
    <3>6. to = "lost" => j \in Troubled'
      BY <1>2, <3>1 DEF LostIsTroubled
    <3>7. status' = [status EXCEPT ![j] = to]
      BY <3>1, <3>2
    <3>8. to \in Ledger!Statuses
      BY DEF StatusOf, Ledger!Statuses
    <3>9. Ledger!Move(j, to)
      BY <3>4, <3>5, <3>6, <3>7 DEF Ledger!Move
    <3>. QED  BY <3>1, <3>8, <3>9 DEF Ledger!Next
  <2>. QED  BY <2>2, <2>3
<1>3. Inv => LostIsTroubled
  BY LostAreTroubled
<1>. QED  BY <1>1, <1>2, <1>3, InvHolds, PTL DEF Spec, JobsAreNotLost, Ledger!Spec

=============================================================================
