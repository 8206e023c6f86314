----------------------------- MODULE RateLimits -----------------------------
(***************************************************************************)
(* The limiters of rate-limit/middleware.ts over the fixed windows of      *)
(* rate-limit/store.ts: a request passes the limiters of createRateLimiter *)
(* in order, each of which counts it in Redis and lets it on or answers    *)
(* 429.  One user, one tenant and one address share the counters.          *)
(***************************************************************************)
EXTENDS Integers, Sequences, FiniteSets

CONSTANTS
  Requests,
  Quota,           \* max of every limiter
  MaxWindows,      \* bound: windows that end
  MaxOutages       \* bound: calls that find Redis unavailable

VARIABLES
  skipFailed,  \* skipFailedRequests
  counter,     \* limiter |-> [count, window] of its key
  admitted,    \* limiter |-> requests it let on that the current window counts
  request,     \* request |-> where it is in the chain
  extra,       \* increments that were sent without waiting: request and limiter
  outages

vars == <<skipFailed, counter, admitted, request, extra, outages>>

Chain == <<"user", "tenant", "ip">>
Limiters == {"user", "tenant", "ip"}
NotSent == [count |-> 0, window |-> -1]

\* identity: a bearer token or a session cookie; user: authenticate ran before.
Callers == {c \in [user : BOOLEAN, tenant : BOOLEAN, identity : BOOLEAN] : c.user => c.identity}
Applies(c, l) == CASE l = "user" -> c.user
                   [] l = "tenant" -> c.tenant
                   [] l = "ip" -> ~c.identity

Init ==
  /\ skipFailed \in BOOLEAN
  /\ counter = [l \in Limiters |-> [count |-> 0, window |-> 0]]
  /\ admitted = [l \in Limiters |-> 0]
  /\ request \in [Requests -> {[caller |-> c, at |-> 0, pc |-> "off",
                                seen |-> [l \in Limiters |-> NotSent], hooks |-> {}]
                               : c \in Callers}]
  /\ extra = {}
  /\ outages = 0

At(r) == Chain[request[r].at]

\* next(): the next limiter that applies, or the route.
Advance(r, hooks) ==
  LET later == {i \in 1..Len(Chain) : i > request[r].at /\ Applies(request[r].caller, Chain[i])} IN
  [request EXCEPT ![r] = [@ EXCEPT !.hooks = hooks,
                                   !.pc = IF later = {} THEN "route" ELSE "send",
                                   !.at = IF later = {} THEN Len(Chain)
                                          ELSE CHOOSE i \in later : \A j \in later : i <= j]]

Arrive(r) ==
  /\ request[r].pc = "off"
  /\ request' = Advance(r, {})
  /\ UNCHANGED <<skipFailed, counter, admitted, extra, outages>>

\* Mutant of Increment: the count is read before it is raised.
IncrementReadsFirst(r) ==
  /\ request[r].pc = "send"
  /\ counter' = [counter EXCEPT ![At(r)].count = @ + 1]
  /\ request' = [request EXCEPT ![r] = [@ EXCEPT !.pc = "answered", !.seen[At(r)] = counter[At(r)]]]
  /\ UNCHANGED <<skipFailed, admitted, extra, outages>>

\* The script: INCR, PEXPIRE for the first of a window, PTTL.
Increment(r) ==
  /\ request[r].pc = "send"
  /\ counter' = [counter EXCEPT ![At(r)].count = @ + 1]
  /\ request' = [request EXCEPT ![r] = [@ EXCEPT !.pc = "answered",
                                                 !.seen[At(r)] = counter'[At(r)]]]
  /\ UNCHANGED <<skipFailed, admitted, extra, outages>>

\* Fail-open.
Unavailable(r) ==
  /\ request[r].pc = "send" /\ outages < MaxOutages
  /\ request' = Advance(r, request[r].hooks)
  /\ outages' = outages + 1
  /\ UNCHANGED <<skipFailed, counter, admitted, extra>>

\* A response ends: the hooks of a failed one send their increments.
End(r, failed, calls) ==
  /\ LET pc == IF failed THEN "failed" ELSE "served" IN
     request' = [calls EXCEPT ![r] = [@ EXCEPT !.pc = pc, !.hooks = {}]]
  /\ extra' = IF failed THEN extra \cup ({r} \X calls[r].hooks) ELSE extra

Exceeded(r) == request[r].seen[At(r)].count > Quota

LetOn(r) ==
  /\ request[r].pc = "answered" /\ ~Exceeded(r)
  /\ request' = Advance(r, IF skipFailed THEN request[r].hooks \cup {At(r)} ELSE {})
  /\ admitted' = [admitted EXCEPT ![At(r)] =
                    @ + IF request[r].seen[At(r)].window = counter[At(r)].window THEN 1 ELSE 0]
  /\ UNCHANGED <<skipFailed, counter, extra, outages>>

TooManyRequests(r) ==
  /\ request[r].pc = "answered" /\ Exceeded(r)
  /\ End(r, TRUE, request)
  /\ UNCHANGED <<skipFailed, counter, admitted, outages>>

Route(r) ==
  /\ request[r].pc = "route"
  /\ \E failed \in BOOLEAN : End(r, failed, request)
  /\ UNCHANGED <<skipFailed, counter, admitted, outages>>

\* increment() of a hook: it counts the request once more.
Extra(r, l) ==
  /\ <<r, l>> \in extra
  /\ extra' = extra \ {<<r, l>>}
  /\ counter' = [counter EXCEPT ![l].count = @ + 1]
  /\ UNCHANGED <<skipFailed, admitted, request, outages>>

LoseExtra(r, l) ==
  /\ <<r, l>> \in extra /\ outages < MaxOutages
  /\ extra' = extra \ {<<r, l>>}
  /\ outages' = outages + 1
  /\ UNCHANGED <<skipFailed, counter, admitted, request>>

\* PEXPIRE has passed, or resetKey.
EndWindow(l) ==
  /\ counter[l].count > 0 /\ counter[l].window < MaxWindows
  /\ counter' = [counter EXCEPT ![l] = [count |-> 0, window |-> @.window + 1]]
  /\ admitted' = [admitted EXCEPT ![l] = 0]
  /\ UNCHANGED <<skipFailed, request, extra, outages>>

Next ==
  \/ \E r \in Requests : \/ Arrive(r) \/ Increment(r) \/ Unavailable(r) \/ LetOn(r)
                         \/ TooManyRequests(r) \/ Route(r)
                         \/ \E l \in Limiters : Extra(r, l) \/ LoseExtra(r, l)
  \/ \E l \in Limiters : EndWindow(l)

Spec == Init /\ [][Next]_vars

-----------------------------------------------------------------------------
Pcs == {"off", "send", "answered", "route", "served", "failed"}

\* Every variable has its type.
TypeOK ==
  /\ skipFailed \in BOOLEAN
  /\ counter \in [Limiters -> [count : Nat, window : 0..MaxWindows]]
  /\ admitted \in [Limiters -> Nat]
  /\ request \in [Requests -> [caller : Callers, at : 0..Len(Chain), pc : Pcs,
                               seen : [Limiters -> [count : Nat, window : -1..MaxWindows]],
                               hooks : SUBSET Limiters]]
  /\ extra \subseteq Requests \X Limiters
  /\ outages \in 0..MaxOutages

\* However requests, the end of windows and the hooks interleave, a window
\* never counts more requests that were let on than the limiter's max.
WindowsKeepQuota ==
  \A l \in Limiters : admitted[l] <= Quota /\ admitted[l] <= counter[l].count

=============================================================================
