----------------------------- MODULE TenantPool -----------------------------
(***************************************************************************)
(* The database layer: TenantDatabase and createTenantMiddleware of        *)
(* database/tenant-context.ts, DatabaseClient of database/client.ts and    *)
(* OptimizedConnectionPool of database/pool-optimizer.ts over one pg pool  *)
(* and the row-level security of migrations/001.                           *)
(*                                                                         *)
(* A call is a program of steps, each of which waits for the pool or for   *)
(* Postgres; when a step fails, the finally blocks that are open run.      *)
(* Projects stand for every table with a tenant_id and a deleted_at.       *)
(***************************************************************************)
EXTENDS Integers, SequencesExt, FiniteSetsExt

CONSTANTS
  Callers,        \* concurrent calls
  Conns,          \* max connections of the pool
  Tenants, Slugs,
  NoOne,          \* no holder, no tenant
  MaxFaults       \* bound: queries that fail

ASSUME NoOneAssumption == NoOne \notin Callers \cup Tenants
ASSUME FaultsAssumption == MaxFaults \in Nat

VARIABLES
  obeysRls,     \* the role of the pool is subject to the policies
  hasTimeout,   \* connectionTimeoutMillis is set (createPoolConfig) or not (createDatabaseClient)
  conn,         \* connection |-> holder, transaction and session settings
  waiting,      \* callers whose pool.connect() is pending, first come first served
  projects,     \* id |-> row of app.projects with its owner in app.project_members
  call,         \* caller |-> its call
  faults

vars == <<obeysRls, hasTimeout, conn, waiting, projects, call, faults>>

Steps == {"connect", "begin", "set", "setUser", "limit", "query", "insert",
          "insertOwner", "commit", "rollback", "release", "finish"}

\* getRawConnection, query, release: tenants.create and getBySlug, members.*.
Raw == <<"connect", "query", "release">>
\* withTenant(tenantId, callback) with one query.
Scoped == <<"connect", "set", "query", "release">>
\* withTenantAndUser.
ScopedToUser == <<"connect", "set", "setUser", "query", "release">>
\* projects.create.
Create == <<"connect", "set", "insert", "insertOwner", "release">>
\* users.update and tasks.update without a field: getById inside withTenant.
UpdateNothing == <<"connect", "set">> \o Scoped \o <<"release">>
\* withTransaction.
Transaction == <<"connect", "begin", "set", "query", "commit", "release">>
\* createTenantMiddleware and the route behind it, up to the response.
Middleware == <<"connect", "set", "query", "finish">>
\* OptimizedConnectionPool.query with timeoutMs.
Limited == <<"connect", "limit", "query", "release">>
\* performHealthCheck of the same pool.
HealthCheck == <<"connect", "query", "release">>

Programs == [raw |-> Raw, scoped |-> Scoped, user |-> ScopedToUser, create |-> Create,
             nested |-> UpdateNothing, tx |-> Transaction, middleware |-> Middleware,
             limited |-> Limited, health |-> HealthCheck]
Kinds == DOMAIN Programs
\* What the query does to the rows of the model: softDelete, or nothing.
Works == {"other", "delete"}

\* (tenant_id, slug) is unique: it stands for the id, too.
Projects == Tenants \X Slugs
NoCall == [kind |-> "raw", work |-> "other", tenant |-> NoOne, project |-> NoOne, todo |-> <<>>,
           held |-> <<>>, failed |-> FALSE, end |-> "off"]
FreeConn == [holder |-> NoOne, tx |-> FALSE, tenant |-> NoOne, limited |-> FALSE]

Init ==
  /\ obeysRls \in BOOLEAN
  /\ hasTimeout \in BOOLEAN
  /\ conn = [k \in Conns |-> FreeConn]
  /\ waiting = <<>>
  /\ projects = [p \in Projects |-> "absent"]
  /\ call = [c \in Callers |-> NoCall]
  /\ faults = 0

Call(c, kind, work, t, p) ==
  /\ call[c].end = "off"
  /\ call' = [call EXCEPT ![c] = [NoCall EXCEPT !.kind = kind, !.work = work, !.tenant = t,
                                                !.project = p, !.todo = Programs[kind],
                                                !.end = "running"]]
  /\ UNCHANGED <<obeysRls, hasTimeout, conn, waiting, projects, faults>>

At(c, step) == call[c].end = "running" /\ call[c].todo # <<>> /\ Head(call[c].todo) = step
Held(c) == Last(call[c].held)
Done(c) == [call EXCEPT ![c].todo = Tail(@)]

-----------------------------------------------------------------------------
\* The pool (pg).

Statements == {"begin", "set", "setUser", "limit", "query", "insert", "insertOwner", "commit"}

Connect(c) ==
  /\ At(c, "connect") /\ c \notin Range(waiting)
  /\ waiting' = Append(waiting, c)
  /\ UNCHANGED <<obeysRls, hasTimeout, conn, projects, call, faults>>

\* performHealthCheck races connect() with a timer of its own: the check ends,
\* and its connect() stays in the queue.
GiveUp(c) ==
  /\ call[c].kind = "health" /\ At(c, "connect") /\ c \in Range(waiting)
  /\ call' = [call EXCEPT ![c].end = "failed"]
  /\ UNCHANGED <<obeysRls, hasTimeout, conn, waiting, projects, faults>>

GaveUp(c) == call[c].end = "failed" /\ call[c].todo # <<>>

\* Nobody receives the connection of a check that gave up.
Grant(k) ==
  /\ waiting # <<>> /\ conn[k].holder = NoOne
  /\ LET c == Head(waiting) IN
     /\ conn' = [conn EXCEPT ![k].holder = c]
     /\ call' = IF GaveUp(c) THEN call ELSE [Done(c) EXCEPT ![c].held = Append(@, k)]
  /\ waiting' = Tail(waiting)
  /\ UNCHANGED <<obeysRls, hasTimeout, projects, faults>>

\* Mutant of Cleanup: the middleware releases in a catch and on "finish".
CleanupReleasesTwice(c) ==
  LET releases == [i \in 1..Len(call[c].held) |-> "release"] IN
  CASE call[c].kind = "middleware" -> releases \o IF At(c, "query") THEN <<"finish">> ELSE <<>>
    [] call[c].kind = "tx" /\ call[c].held # <<>> -> <<"rollback">> \o releases
    [] OTHER -> releases

\* The finally blocks and the catch of withTransaction. The middleware has no
\* finally: an error goes to next(), whose response finishes once the release
\* is registered, and never releases before.
Cleanup(c) ==
  LET releases == [i \in 1..Len(call[c].held) |-> "release"] IN
  CASE call[c].kind = "middleware" -> IF At(c, "query") THEN <<"finish">> ELSE <<>>
    [] call[c].kind = "tx" /\ call[c].held # <<>> -> <<"rollback">> \o releases
    [] OTHER -> releases

Failing(c) ==
  LET end == IF Cleanup(c) = <<>> THEN "failed" ELSE "running" IN
  [call EXCEPT ![c] = [@ EXCEPT !.end = end, !.todo = Cleanup(c), !.failed = TRUE]]

\* Mutant of TimeOut: only an outer connect() times out.
TimeOutOuter(c) ==
  /\ hasTimeout /\ call[c].held = <<>>
  /\ \E i \in DOMAIN waiting : waiting[i] = c /\ waiting' = RemoveAt(waiting, i)
  /\ call' = Failing(c)
  /\ UNCHANGED <<obeysRls, hasTimeout, conn, projects, faults>>

\* connectionTimeoutMillis passes: the pending connect() rejects.
TimeOut(c) ==
  /\ hasTimeout
  /\ \E i \in DOMAIN waiting : waiting[i] = c /\ waiting' = RemoveAt(waiting, i)
  /\ call' = Failing(c)
  /\ UNCHANGED <<obeysRls, hasTimeout, conn, projects, faults>>

EndIfLast(c, calls) ==
  IF calls[c].todo # <<>> THEN calls
  ELSE [calls EXCEPT ![c].end = IF calls[c].failed THEN "failed" ELSE "ok"]

\* The session's settings stay: what was set with is_local = false as well.
Release(c) ==
  /\ At(c, "release")
  /\ conn' = [conn EXCEPT ![Held(c)].holder = NoOne]
  /\ call' = EndIfLast(c, [Done(c) EXCEPT ![c].held = Front(@)])
  /\ UNCHANGED <<obeysRls, hasTimeout, waiting, projects, faults>>

\* The response of the route behind the middleware ends: "finish" releases.
Finish(c) ==
  /\ At(c, "finish")
  /\ conn' = [conn EXCEPT ![Held(c)].holder = NoOne]
  /\ call' = EndIfLast(c, [Done(c) EXCEPT ![c].held = <<>>])
  /\ UNCHANGED <<obeysRls, hasTimeout, waiting, projects, faults>>

\* The client closes first: the response emits "close" and never "finish".
CloseEarly(c) ==
  /\ At(c, "finish")
  /\ call' = EndIfLast(c, Done(c))
  /\ UNCHANGED <<obeysRls, hasTimeout, conn, waiting, projects, faults>>

-----------------------------------------------------------------------------
\* Statements on the connection the call holds.

Begin(c) ==
  /\ At(c, "begin")
  /\ conn' = [conn EXCEPT ![Held(c)].tx = TRUE]
  /\ call' = Done(c)
  /\ UNCHANGED <<obeysRls, hasTimeout, waiting, projects, faults>>

\* COMMIT and ROLLBACK drop what was set for the transaction.
EndTransaction(c) ==
  /\ At(c, "commit") \/ At(c, "rollback")
  /\ conn' = [conn EXCEPT ![Held(c)] = [@ EXCEPT !.tx = FALSE, !.tenant = NoOne]]
  /\ call' = Done(c)
  /\ UNCHANGED <<obeysRls, hasTimeout, waiting, projects, faults>>

\* Mutant of SetLocal: is_local = false.
SetSession(k, t) == [conn EXCEPT ![k].tenant = t]

\* set_config(..., is_local = true): lasts as long as the transaction, which
\* outside of BEGIN is the SELECT itself.
SetLocal(k, t) == [conn EXCEPT ![k].tenant = IF conn[k].tx THEN t ELSE @]

SetContext(c) ==
  /\ At(c, "set")
  /\ conn' = SetLocal(Held(c), call[c].tenant)
  /\ call' = Done(c)
  /\ UNCHANGED <<obeysRls, hasTimeout, waiting, projects, faults>>

\* app.current_user_id, which no policy reads.
SetUser(c) ==
  /\ At(c, "setUser")
  /\ call' = Done(c)
  /\ UNCHANGED <<obeysRls, hasTimeout, conn, waiting, projects, faults>>

\* set_config('statement_timeout', ..., false): for the session.
Limit(c) ==
  /\ At(c, "limit")
  /\ conn' = [conn EXCEPT ![Held(c)].limited = TRUE]
  /\ call' = Done(c)
  /\ UNCHANGED <<obeysRls, hasTimeout, waiting, projects, faults>>

\* The policies compare tenant_id with current_setting(...)::UUID, which raises
\* an error when the context is not set.
ContextMissing(c) == obeysRls /\ conn[Held(c)].tenant = NoOne
Visible(c, p) == projects[p] # "absent" /\ (obeysRls => p[1] = conn[Held(c)].tenant)

\* UPDATE ... SET deleted_at WHERE id = $1 AND deleted_at IS NULL.
Query(c) ==
  /\ At(c, "query") /\ ~ContextMissing(c)
  /\ call' = Done(c)
  /\ LET p == call[c].project IN
     IF call[c].work = "delete" /\ Visible(c, p)
     THEN projects' = [projects EXCEPT ![p] = "deleted"] ELSE UNCHANGED projects
  /\ UNCHANGED <<obeysRls, hasTimeout, conn, waiting, faults>>

\* A row that was deleted still holds its slug.
Insert(c) ==
  /\ At(c, "insert") /\ ~ContextMissing(c)
  /\ LET p == call[c].project IN
     IF projects[p] # "absent"
     THEN call' = Failing(c) /\ UNCHANGED projects
     ELSE call' = Done(c) /\ projects' = [projects EXCEPT ![p] = "ownerless"]
  /\ UNCHANGED <<obeysRls, hasTimeout, conn, waiting, faults>>

InsertOwner(c) ==
  /\ At(c, "insertOwner") /\ ~ContextMissing(c)
  /\ projects' = [projects EXCEPT ![call[c].project] =
                                 IF @ = "ownerless" THEN "owned" ELSE @]
  /\ call' = Done(c)
  /\ UNCHANGED <<obeysRls, hasTimeout, conn, waiting, faults>>

\* A statement that the policies refuse.
RefusedByPolicy(c) ==
  /\ \E s \in {"query", "insert", "insertOwner"} : At(c, s)
  /\ ContextMissing(c)
  /\ call' = Failing(c)
  /\ UNCHANGED <<obeysRls, hasTimeout, conn, waiting, projects, faults>>

\* Postgres fails a statement.
FailStatement(c) ==
  /\ faults < MaxFaults
  /\ call[c].todo # <<>> /\ Head(call[c].todo) \in Statements
  /\ call' = Failing(c)
  /\ faults' = faults + 1
  /\ UNCHANGED <<obeysRls, hasTimeout, conn, waiting, projects>>

\* statement_timeout cancels a query on a connection that some call limited.
Cancel(c) ==
  /\ At(c, "query") /\ conn[Held(c)].limited
  /\ call' = Failing(c)
  /\ UNCHANGED <<obeysRls, hasTimeout, conn, waiting, projects, faults>>

-----------------------------------------------------------------------------

\* projects.create takes the caller's own tenant; softDelete may name any id.
\* OptimizedConnectionPool always has a connection timeout.
Start(c) ==
  \E t \in Tenants, p \in Projects :
    \/ \E kind \in Kinds : /\ p[1] = t /\ Call(c, kind, "other", t, p)
                           /\ kind \in {"limited", "health"} => hasTimeout
    \/ Call(c, "scoped", "delete", t, p)

Step(c) == \/ Connect(c) \/ Release(c) \/ Finish(c)
           \/ Begin(c) \/ EndTransaction(c) \/ SetContext(c) \/ SetUser(c) \/ Limit(c)
           \/ Query(c) \/ Insert(c) \/ InsertOwner(c) \/ RefusedByPolicy(c)

Next == \/ \E c \in Callers : \/ Start(c) \/ Step(c) \/ TimeOut(c)
                             \/ CloseEarly(c) \/ FailStatement(c) \/ Cancel(c) \/ GiveUp(c)
        \/ \E k \in Conns : Grant(k)

Spec == Init /\ [][Next]_vars

\* The process and Postgres go on; timers fire.
Fairness == /\ \A c \in Callers : WF_vars(Step(c)) /\ WF_vars(TimeOut(c))
            /\ \A k \in Conns : WF_vars(Grant(k))
FairSpec == Spec /\ Fairness

-----------------------------------------------------------------------------
\* Every variable has its type, who waits is at its connect() or gave up, and no
\* statement and no release comes without a connection.
TypeOK ==
  /\ obeysRls \in BOOLEAN /\ hasTimeout \in BOOLEAN
  /\ conn \in [Conns -> [holder : Callers \cup {NoOne}, tx : BOOLEAN,
                         tenant : Tenants \cup {NoOne}, limited : BOOLEAN]]
  /\ waiting \in Seq(Callers)
  /\ projects \in [Projects -> {"absent", "ownerless", "owned", "deleted"}]
  /\ call \in [Callers -> [kind : Kinds, work : Works, tenant : Tenants \cup {NoOne},
                           project : {NoOne} \cup Projects, todo : Seq(Steps), held : Seq(Conns),
                           failed : BOOLEAN, end : {"off", "running", "ok", "failed"}]]
  /\ faults \in 0..MaxFaults
  /\ \A c \in Callers : c \in Range(waiting) => At(c, "connect") \/ GaveUp(c)
  /\ \A c \in Callers : call[c].todo # <<>> => At(c, "connect") \/ GaveUp(c) \/ call[c].held # <<>>

\* A pooled connection carries a tenant's context only inside a transaction of
\* the call that set it: no call ever runs in the context another one left.
NoForeignContext ==
  \A k \in Conns : conn[k].tenant # NoOne =>
    conn[k].tx /\ conn[k].holder \in Callers /\ call[conn[k].holder].tenant = conn[k].tenant

\* A call that ended keeps no connection and no place in the queue, except
\* createTenantMiddleware, whose release hangs on "finish" (tenant-context.ts:512)
\* and is not registered when set_tenant_context fails, and a health check whose
\* timer was faster than the pool (pool-optimizer.ts:107).
LossesHaveReason ==
  \A c \in Callers : call[c].end # "running" =>
    /\ c \in Range(waiting) => GaveUp(c)
    /\ \A k \in Conns : conn[k].holder = c => call[c].kind = "middleware" \/ GaveUp(c)

\* With connectionTimeoutMillis every call ends, also when updates without a
\* field hold all connections and wait for a second one (client.ts:510).
CallsEnd == \A c \in Callers : hasTimeout /\ call[c].end = "running" ~> call[c].end # "running"

\* tenant-context.ts:119 "All queries within the callback are automatically
\* scoped to the tenant": withTenant's query runs in the context it set.
QueriesAreScoped ==
  \A c \in Callers : call[c].kind \in {"scoped", "user", "nested"} /\ At(c, "query") =>
    conn[Held(c)].tenant = call[c].tenant

=============================================================================
