----------------------------- MODULE JobLedger ------------------------------
(***************************************************************************)
(* What the file pipeline (pipeline/queue.ts) promises of an uploaded job: *)
(* once queued it is somewhere - in the queue, processed or a dead letter  *)
(* - and it is gone from all of them only if it was in trouble, which the  *)
(* process logs.  Processed is final and comes from the queue only.        *)
(***************************************************************************)

CONSTANT Jobs

VARIABLES
  status,     \* job |-> where it is
  troubled    \* jobs that stalled out, or that did not reach the dead letter queue

Statuses == {"new", "queued", "done", "dead", "lost"}

Moves == {<<"new", "queued">>,
          <<"queued", "queued">>, <<"queued", "done">>, <<"queued", "dead">>, <<"queued", "lost">>,
          <<"dead", "dead">>, <<"dead", "queued">>, <<"dead", "lost">>,
          <<"lost", "lost">>, <<"lost", "dead">>, <<"lost", "queued">>,
          <<"done", "done">>}

Init == status = [j \in Jobs |-> "new"] /\ troubled = {}

Move(j, to) ==
  /\ <<status[j], to>> \in Moves
  /\ troubled' \in {troubled, troubled \cup {j}}
  /\ to = "lost" => j \in troubled'
  /\ status' = [status EXCEPT ![j] = to]

Next == \E j \in Jobs, to \in Statuses : Move(j, to)

Spec == Init /\ [][Next]_<<status, troubled>>

=============================================================================
