------------------------------ MODULE UsageCaps -----------------------------
(***************************************************************************)
(* Token accounting of the chat routes (usage-caps/service.ts and          *)
(* repository.ts, called by chat/index.ts and chat/websocket.ts): a        *)
(* request reads the caps and the two rollups, is admitted or refused,     *)
(* streams, and records what it used in one transaction.  Administrators   *)
(* change the caps meanwhile, and days pass.                               *)
(*                                                                         *)
(* A request is interleaved with the others at each query.  daily, monthly *)
(* and events are what is committed; an upsert holds its row until the     *)
(* transaction ends, and another upsert of that row waits for it (READ     *)
(* COMMITTED).                                                             *)
(***************************************************************************)
EXTENDS Integers, Sequences, FiniteSets

CONSTANTS
  Requests, Tenants,
  Nobody,          \* the holder of a row that no transaction has changed
  Unlimited,       \* a cap that is NULL
  Absent,          \* a field the PUT does not give
  CapValues,
  Estimates,       \* estimated tokens of a request
  Usages,          \* tokens a provider reports
  MaxDay,          \* bound: days that pass
  DaysPerMonth,
  MaxCapChanges    \* bound: PUTs of an administrator

ASSUME NamesAssumption ==
  /\ Nobody \notin Requests
  /\ Unlimited \notin Int /\ Absent \notin Int /\ Absent # Unlimited
ASSUME NumbersAssumption ==
  /\ CapValues \subseteq Nat \ {0} /\ Estimates \subseteq Nat \ {0} /\ Usages \subseteq Nat
  /\ MaxDay \in Nat /\ DaysPerMonth \in Nat \ {0} /\ MaxCapChanges \in Nat

VARIABLES
  today,
  caps,        \* tenant |-> its row of ai_token_caps, NoCaps for none
  capChanges,
  daily,       \* tenant |-> day |-> committed total_tokens
  monthly,     \* tenant |-> month |-> committed total_tokens
  events,      \* committed ai_token_usage_events
  dailyRow,    \* tenant |-> day |-> the request whose transaction holds the row
  monthlyRow,
  req          \* request |-> its handler

usage == <<daily, monthly, events>>
rows == <<dailyRow, monthlyRow>>
vars == <<today, caps, capChanges, daily, monthly, events, dailyRow, monthlyRow, req>>

Days == 0..MaxDay
MonthOf(d) == d \div DaysPerMonth
Months == {MonthOf(d) : d \in Days}

Caps == [daily : CapValues \cup {Unlimited}, monthly : CapValues \cup {Unlimited}, hard : BOOLEAN]
NoCaps == [daily |-> Unlimited, monthly |-> Unlimited, hard |-> TRUE]

Usage == [tenant : Tenants, day : Days, tokens : Usages]

\* day is the now of checkAllowance, todo the reads that are out, events the
\* committed events when it began; tokens and on are the input and the now of
\* recordUsage; newDaily and newMonthly are what its upserts wrote.
Writing == {"event", "daily", "monthly", "commit"}
Pcs == {"off", "check", "refused", "stream", "connect", "done", "failed"} \cup Writing
Request == [pc : Pcs, tenant : Tenants, est : Estimates \cup {0}, day : Days,
            events : Nat, todo : SUBSET {"caps", "daily", "monthly"}, caps : Caps,
            usedDaily : Nat, usedMonthly : Nat,
            tokens : Usages \cup {0}, on : Days, newDaily : Nat, newMonthly : Nat]

Init ==
  /\ today = 0
  /\ caps = [t \in Tenants |-> NoCaps]
  /\ capChanges = 0
  /\ daily = [t \in Tenants |-> [d \in Days |-> 0]]
  /\ monthly = [t \in Tenants |-> [m \in Months |-> 0]]
  /\ events = <<>>
  /\ dailyRow = [t \in Tenants |-> [d \in Days |-> Nobody]]
  /\ monthlyRow = [t \in Tenants |-> [m \in Months |-> Nobody]]
  /\ req \in [Requests -> {[pc |-> "off", tenant |-> t, est |-> 0, day |-> 0, events |-> 0,
                            todo |-> {}, caps |-> NoCaps, usedDaily |-> 0, usedMonthly |-> 0,
                            tokens |-> 0, on |-> 0, newDaily |-> 0, newMonthly |-> 0]
                           : t \in Tenants}]

Goto(r, pc) == req' = [req EXCEPT ![r].pc = pc]

-----------------------------------------------------------------------------
\* checkAllowance: three reads at once, on three connections.

Start(r) ==
  /\ req[r].pc = "off"
  /\ \E e \in Estimates :
       req' = [req EXCEPT ![r] = [@ EXCEPT !.pc = "check", !.est = e, !.day = today,
                                           !.events = Len(events),
                                           !.todo = {"caps", "daily", "monthly"}]]
  /\ UNCHANGED <<today, caps, capChanges, usage, rows>>

Reads(r, what) == req[r].pc = "check" /\ what \in req[r].todo

ReadCaps(r) ==
  /\ Reads(r, "caps")
  /\ req' = [req EXCEPT ![r] = [@ EXCEPT !.todo = req[r].todo \ {"caps"},
                                         !.caps = caps[req[r].tenant]]]
  /\ UNCHANGED <<today, caps, capChanges, usage, rows>>

ReadDaily(r) ==
  /\ Reads(r, "daily")
  /\ req' = [req EXCEPT ![r] = [@ EXCEPT !.todo = req[r].todo \ {"daily"},
                                         !.usedDaily = daily[req[r].tenant][req[r].day]]]
  /\ UNCHANGED <<today, caps, capChanges, usage, rows>>

ReadMonthly(r) ==
  /\ Reads(r, "monthly")
  /\ req' = [req EXCEPT ![r] = [@ EXCEPT !.todo = req[r].todo \ {"monthly"},
                                         !.usedMonthly =
                                           monthly[req[r].tenant][MonthOf(req[r].day)]]]
  /\ UNCHANGED <<today, caps, capChanges, usage, rows>>

Exceeds(used, est, cap) == cap # Unlimited /\ used + est > cap

\* Mutant of Refused: the estimate is not counted.
RefusedWithoutEstimate(r) ==
  /\ req[r].caps.hard
  /\ \/ Exceeds(req[r].usedDaily, 0, req[r].caps.daily)
     \/ Exceeds(req[r].usedMonthly, 0, req[r].caps.monthly)

Refused(r) ==
  /\ req[r].caps.hard
  /\ \/ Exceeds(req[r].usedDaily, req[r].est, req[r].caps.daily)
     \/ Exceeds(req[r].usedMonthly, req[r].est, req[r].caps.monthly)

Decide(r) ==
  /\ req[r].pc = "check" /\ req[r].todo = {}
  /\ Goto(r, IF Refused(r) THEN "refused" ELSE "stream")
  /\ UNCHANGED <<today, caps, capChanges, usage, rows>>

\* A read rejects, the stream fails, or its handler never comes back.
Lose(r) ==
  /\ req[r].pc \in {"check", "stream", "connect"}
  /\ Goto(r, "failed")
  /\ UNCHANGED <<today, caps, capChanges, usage, rows>>

\* The stream ends with the tokens it used; none are not recorded.
EndStream(r) ==
  /\ req[r].pc = "stream"
  /\ \E n \in Usages :
       req' = [req EXCEPT ![r] = [@ EXCEPT !.pc = IF n = 0 THEN "done" ELSE "connect",
                                           !.tokens = n]]
  /\ UNCHANGED <<today, caps, capChanges, usage, rows>>

-----------------------------------------------------------------------------
\* recordUsage.

\* Mutant of Begin: the day is that of a local time ahead of UTC.
BeginLocalTime(r) ==
  /\ req[r].pc = "connect"
  /\ req' = [req EXCEPT ![r] = [@ EXCEPT !.pc = "event", !.on = today + 1]]
  /\ UNCHANGED <<today, caps, capChanges, usage, rows>>

\* now is taken once there is a connection.
Begin(r) ==
  /\ req[r].pc = "connect"
  /\ req' = [req EXCEPT ![r] = [@ EXCEPT !.pc = "event", !.on = today]]
  /\ UNCHANGED <<today, caps, capChanges, usage, rows>>

InsertEvent(r) ==
  /\ req[r].pc = "event"
  /\ Goto(r, "daily")
  /\ UNCHANGED <<today, caps, capChanges, usage, rows>>

UpsertDaily(r) ==
  LET t == req[r].tenant d == req[r].on IN
  /\ req[r].pc = "daily"
  /\ dailyRow[t][d] = Nobody
  /\ dailyRow' = [dailyRow EXCEPT ![t][d] = r]
  /\ LET total == daily[t][d] + req[r].tokens IN
     req' = [req EXCEPT ![r] = [@ EXCEPT !.pc = "monthly", !.newDaily = total]]
  /\ UNCHANGED <<today, caps, capChanges, usage, monthlyRow>>

UpsertMonthly(r) ==
  LET t == req[r].tenant m == MonthOf(req[r].on) IN
  /\ req[r].pc = "monthly"
  /\ monthlyRow[t][m] = Nobody
  /\ monthlyRow' = [monthlyRow EXCEPT ![t][m] = r]
  /\ LET total == monthly[t][m] + req[r].tokens IN
     req' = [req EXCEPT ![r] = [@ EXCEPT !.pc = "commit", !.newMonthly = total]]
  /\ UNCHANGED <<today, caps, capChanges, usage, dailyRow>>

\* The rows that r's transaction holds are free again.
Free(row, r) ==
  [t \in DOMAIN row |-> [k \in DOMAIN row[t] |-> IF row[t][k] = r THEN Nobody ELSE row[t][k]]]
Release(r) ==
  /\ dailyRow' = Free(dailyRow, r)
  /\ monthlyRow' = Free(monthlyRow, r)

\* Mutant of Commit: recordUsage is called again after a COMMIT whose answer was lost.
CommitRetries(r) ==
  LET t == req[r].tenant d == req[r].on IN
  /\ req[r].pc = "commit"
  /\ daily' = [daily EXCEPT ![t][d] = req[r].newDaily]
  /\ monthly' = [monthly EXCEPT ![t][MonthOf(d)] = req[r].newMonthly]
  /\ events' = Append(events, [tenant |-> t, day |-> d, tokens |-> req[r].tokens])
  /\ Release(r)
  /\ \E pc \in {"done", "connect"} : Goto(r, pc)
  /\ UNCHANGED <<today, caps, capChanges>>

\* Mutant of Commit: the monthly upsert was in another transaction, which failed.
CommitWithoutMonth(r) ==
  LET t == req[r].tenant d == req[r].on IN
  /\ req[r].pc = "commit"
  /\ daily' = [daily EXCEPT ![t][d] = req[r].newDaily]
  /\ events' = Append(events, [tenant |-> t, day |-> d, tokens |-> req[r].tokens])
  /\ Release(r)
  /\ Goto(r, "done")
  /\ UNCHANGED <<today, caps, capChanges, monthly>>

\* COMMIT.  Its answer may be lost, and the handler then reports an error.
Commit(r) ==
  LET t == req[r].tenant d == req[r].on IN
  /\ req[r].pc = "commit"
  /\ daily' = [daily EXCEPT ![t][d] = req[r].newDaily]
  /\ monthly' = [monthly EXCEPT ![t][MonthOf(d)] = req[r].newMonthly]
  /\ events' = Append(events, [tenant |-> t, day |-> d, tokens |-> req[r].tokens])
  /\ Release(r)
  /\ \E pc \in {"done", "failed"} : Goto(r, pc)
  /\ UNCHANGED <<today, caps, capChanges>>

\* Mutant of Rollback: the client goes back to the pool with its transaction open.
RollbackForgotten(r) ==
  /\ req[r].pc \in Writing
  /\ Goto(r, "failed")
  /\ UNCHANGED <<today, caps, capChanges, usage, rows>>

\* A query rejects: ROLLBACK, or the connection is lost, which is one too.
Rollback(r) ==
  /\ req[r].pc \in Writing
  /\ Release(r)
  /\ Goto(r, "failed")
  /\ UNCHANGED <<today, caps, capChanges, usage>>

-----------------------------------------------------------------------------
\* upsertTenantCaps of an input with all three keys, given or undefined: it takes
\* every field as given, a cap that is left out becomes NULL, and hardCapEnabled
\* goes through COALESCE and keeps its value.
Upserted(row, d, m, h) ==
  [daily |-> IF d = Absent THEN Unlimited ELSE d,
   monthly |-> IF m = Absent THEN Unlimited ELSE m,
   hard |-> IF h = Absent THEN row.hard ELSE h]

\* PUT of the caps: the route hands on all three keys.
SetCaps(t) ==
  /\ capChanges < MaxCapChanges
  /\ capChanges' = capChanges + 1
  /\ \E d, m \in CapValues \cup {Unlimited, Absent}, h \in BOOLEAN \cup {Absent} :
       caps' = [caps EXCEPT ![t] = Upserted(@, d, m, h)]
  /\ UNCHANGED <<today, usage, rows, req>>

NextDay ==
  /\ today < MaxDay
  /\ today' = today + 1
  /\ UNCHANGED <<caps, capChanges, usage, rows, req>>

RecordStep(r) ==
  Begin(r) \/ InsertEvent(r) \/ UpsertDaily(r) \/ UpsertMonthly(r) \/ Commit(r)

HandlerStep(r) ==
  \/ Start(r) \/ ReadCaps(r) \/ ReadDaily(r) \/ ReadMonthly(r) \/ Decide(r) \/ EndStream(r)
  \/ RecordStep(r)

Next ==
  \/ \E r \in Requests : HandlerStep(r) \/ Lose(r) \/ Rollback(r)
  \/ \E t \in Tenants : SetCaps(t)
  \/ NextDay

\* Postgres answers a query unless it waits for a row.
Fairness == \A r \in Requests : WF_vars(RecordStep(r))

Spec == Init /\ [][Next]_vars /\ Fairness

-----------------------------------------------------------------------------
\* Properties.

TypeOK ==
  /\ today \in Days
  /\ caps \in [Tenants -> Caps]
  /\ capChanges \in 0..MaxCapChanges
  /\ daily \in [Tenants -> [Days -> Nat]]
  /\ monthly \in [Tenants -> [Months -> Nat]]
  /\ events \in Seq(Usage)
  /\ dailyRow \in [Tenants -> [Days -> Requests \cup {Nobody}]]
  /\ monthlyRow \in [Tenants -> [Months -> Requests \cup {Nobody}]]
  /\ req \in [Requests -> Request]

\* The sum of tokens over S: the number of its members' tokens.
Total(tokens, S) == Cardinality(UNION {{x} \X (1..tokens[x]) : x \in S})

\* The tokens of tenant t that the first n events of log record for the days of D.
Recorded(log, t, D, n) ==
  Total([i \in 1..n |-> log[i].tokens],
        {i \in 1..n : log[i].tenant = t /\ log[i].day \in D})

DaysOf(m) == {d \in Days : MonthOf(d) = m}

\* recordUsage: what is charged to a tenant is what its requests used, each once:
\* those that ended well, and maybe some whose COMMIT was answered by an error.
ChargedOnce ==
  \A t \in Tenants :
    LET Tokens(pcs) == Total([r \in Requests |-> req[r].tokens],
                             {r \in Requests : req[r].tenant = t /\ req[r].pc \in pcs})
        charged == Recorded(events, t, Days, Len(events))
    IN  Tokens({"done"}) <= charged /\ charged <= Tokens({"done", "failed"})

\* checkAllowance: a request that is admitted under a hard cap fits in it together
\* with all that was recorded before its check began.  What overlaps with the
\* check may be missed: nothing is reserved.
AdmittedWithinCap ==
  \A r \in Requests :
    LET q == req[r]
        Before(D) == Recorded(events, q.tenant, D, q.events)
    IN  q.pc \in {"stream", "connect"} \cup Writing /\ q.caps.hard =>
          /\ ~Exceeds(Before({q.day}), q.est, q.caps.daily)
          /\ ~Exceeds(Before(DaysOf(MonthOf(q.day))), q.est, q.caps.monthly)

\* checkAllowance: a request is refused only if it would not fit.
RefusedOnlyOverCap ==
  \A r \in Requests :
    LET q == req[r]
        Now(D) == Recorded(events, q.tenant, D, Len(events))
    IN  q.pc = "refused" =>
          /\ q.caps.hard
          /\ \/ Exceeds(Now({q.day}), q.est, q.caps.daily)
             \/ Exceeds(Now(DaysOf(MonthOf(q.day))), q.est, q.caps.monthly)

\* Whatever overlaps with a check, its decision is right in both directions.
DecisionsFollowCaps == AdmittedWithinCap /\ RefusedOnlyOverCap

\* recordUsage's transactions, seen through what they commit, are the one-step
\* additions of TokenLedger.
Ledger == INSTANCE TokenLedger
RecordsAtomically == Ledger!Spec

\* No request waits forever for a row, whichever transactions fail.
RequestsEnd ==
  \A r \in Requests : req[r].pc \in {"connect"} \cup Writing ~> req[r].pc \in {"done", "failed"}

=============================================================================
