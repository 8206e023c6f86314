----------------------------- MODULE BrowserAuth -----------------------------
(***************************************************************************)
(* A signed-in browser: apiFetch with refreshAuthSession (lib/api/client), *)
(* AuthBootstrap, the login page, and the proxies of app/api, behind which *)
(* authenticate and /auth/refresh (module Sessions) rotate the refresh     *)
(* token.  The tabs share the cookies; each tab has a refreshPromise of    *)
(* its own.                                                                *)
(*                                                                         *)
(* A proxy forwards the cookies of a request and, except those that sign   *)
(* in and out and /api/auth/refresh, drops the cookies of the answer.      *)
(***************************************************************************)
EXTENDS Integers

CONSTANTS
  Tabs,
  Requests,      \* concurrent calls of apiFetch
  NoTab,         \* the tab of no call
  MaxTokens,     \* bound: refresh tokens that are issued
  MaxFaults      \* bound: requests that the network or a proxy fails

ASSUME BrowserAssumption ==
  MaxTokens \in Nat \ {0} /\ MaxFaults \in Nat /\ NoTab \notin Tabs

VARIABLES
  jar,          \* the browser's cookies: a valid access token, the refresh token
  live,         \* refresh tokens that the backend honours
  gone,         \* refresh token |-> why it is not honoured any more
  issued,
  tab,          \* tab |-> page and refreshPromise
  request,      \* request |-> call of apiFetch
  faults

vars == <<jar, live, gone, issued, tab, request, faults>>

Tokens == 1..MaxTokens
NoJar == [access |-> FALSE, refresh |-> 0]
NoRefresh == [pc |-> "none", token |-> 0, new |-> 0]
NoRequest == [pc |-> "off", tab |-> NoTab, kind |-> "api", first |-> TRUE, cookies |-> NoJar]

\* Signed in: token 1.
Init ==
  /\ jar = [access |-> TRUE, refresh |-> 1]
  /\ live = {1}
  /\ gone = [n \in Tokens |-> "no"]
  /\ issued = 1
  /\ tab = [t \in Tabs |-> [page |-> "app", promise |-> NoRefresh]]
  /\ request = [r \in Requests |-> NoRequest]
  /\ faults = 0

Set(r, pc) == request' = [request EXCEPT ![r].pc = pc]

\* performFetch: the cookies go out as they are now.  AuthBootstrap's check
\* passes retryOnUnauthorized = false; "wrong" signs in with a wrong password.
Call(r, t) ==
  /\ request[r].pc = "off"
  /\ \E kind \in IF tab[t].page = "app" THEN {"api", "boot"} ELSE {"wrong"} :
       request' = [request EXCEPT ![r] = [pc |-> "sent", tab |-> t, kind |-> kind,
                                          first |-> TRUE, cookies |-> jar]]
  /\ UNCHANGED <<jar, live, gone, issued, tab, faults>>

-----------------------------------------------------------------------------
\* authenticate, behind a proxy

Accepted(r) ==
  /\ request[r].pc = "sent" /\ request[r].kind # "wrong" /\ request[r].cookies.access
  /\ Set(r, "ok")
  /\ UNCHANGED <<jar, live, gone, issued, tab, faults>>

\* /auth/login compares the password.
WrongPassword(r) ==
  /\ request[r].pc = "sent" /\ request[r].kind = "wrong"
  /\ Set(r, "401")
  /\ UNCHANGED <<jar, live, gone, issued, tab, faults>>

\* verifyRefreshToken.
Verify(r) ==
  /\ request[r].pc = "sent" /\ request[r].kind # "wrong" /\ ~request[r].cookies.access
  /\ Set(r, IF request[r].cookies.refresh \in live THEN "verified" ELSE "401")
  /\ UNCHANGED <<jar, live, gone, issued, tab, faults>>

\* revokeRefreshToken, storeRefreshToken: the new token is issued.
Rotate(old, why) ==
  /\ issued < MaxTokens
  /\ issued' = issued + 1
  /\ live' = (live \ {old}) \cup {issued + 1}
  /\ gone' = [gone EXCEPT ![old] = IF @ = "no" THEN why ELSE @]

\* The answer is 200, and its cookies are lost in the proxy.
RotateForProxy(r) ==
  /\ request[r].pc = "verified"
  /\ Rotate(request[r].cookies.refresh, "dropped")
  /\ Set(r, "ok")
  /\ UNCHANGED <<jar, tab, faults>>

\* The network or the proxy fails: apiFetch rejects, or answers 500.
Fail(r) ==
  /\ request[r].pc \in {"sent", "verified"} /\ faults < MaxFaults
  /\ Set(r, "ok")
  /\ faults' = faults + 1
  /\ UNCHANGED <<jar, live, gone, issued, tab>>

-----------------------------------------------------------------------------
\* apiFetch

Done(r) == request' = [request EXCEPT ![r] = NoRequest]

Receive(r) ==
  /\ request[r].pc = "ok"
  /\ Done(r)
  /\ UNCHANGED <<jar, live, gone, issued, tab, faults>>

\* clearLocalAuthState (no part of this state), redirectToLogin.
ToLogin(t) == tab' = [tab EXCEPT ![t].page = "login"]

\* 401 to the first try: the refresh of the tab is joined or started.
Unauthorized(r) ==
  /\ request[r].pc = "401" /\ request[r].first /\ request[r].kind # "boot"
  /\ Set(r, "awaiting")
  /\ LET t == request[r].tab IN
     tab' = IF tab[t].promise.pc # "none" THEN tab
            ELSE [tab EXCEPT ![t].promise = [pc |-> "sent", token |-> jar.refresh, new |-> 0]]
  /\ UNCHANGED <<jar, live, gone, issued, faults>>

\* 401 to AuthBootstrap: clearAuthState, and the page is shown.
BootUnauthorized(r) ==
  /\ request[r].pc = "401" /\ request[r].kind = "boot"
  /\ Done(r)
  /\ UNCHANGED <<jar, live, gone, issued, tab, faults>>

RetryUnauthorized(r) ==
  /\ request[r].pc = "401" /\ ~request[r].first
  /\ Done(r)
  /\ ToLogin(request[r].tab)
  /\ UNCHANGED <<jar, live, gone, issued, faults>>

Promise(t, pc) == tab' = [tab EXCEPT ![t].promise.pc = pc]

\* /auth/refresh behind /api/auth/refresh.
RefreshVerify(t) ==
  /\ tab[t].promise.pc = "sent"
  /\ Promise(t, IF tab[t].promise.token \in live THEN "verified" ELSE "refused")
  /\ UNCHANGED <<jar, live, gone, issued, request, faults>>

RefreshRotate(t) ==
  /\ tab[t].promise.pc = "verified"
  /\ Rotate(tab[t].promise.token, "replaced")
  /\ tab' = [tab EXCEPT ![t].promise = [@ EXCEPT !.pc = "rotated", !.new = issued + 1]]
  /\ UNCHANGED <<jar, request, faults>>

\* The answer is lost, or its body is not JSON: the proxy answers 500.
RefreshFail(t) ==
  /\ tab[t].promise.pc \in {"sent", "verified", "rotated"} /\ faults < MaxFaults
  /\ Promise(t, "refused")
  /\ gone' = IF tab[t].promise.pc = "rotated" /\ gone[tab[t].promise.token] = "replaced"
             THEN [gone EXCEPT ![tab[t].promise.token] = "dropped"] ELSE gone
  /\ faults' = faults + 1
  /\ UNCHANGED <<jar, live, issued, request>>

Waiting(t) == {r \in Requests : request[r].pc = "awaiting" /\ request[r].tab = t}

\* Mutant of Refreshed: the proxy sets the access cookie only.
RefreshedAccessOnly(t) ==
  /\ tab[t].promise.pc = "rotated"
  /\ jar' = [jar EXCEPT !.access = TRUE]
  /\ tab' = [tab EXCEPT ![t].promise = NoRefresh]
  /\ request' = [r \in Requests |-> IF r \in Waiting(t)
       THEN [request[r] EXCEPT !.pc = "sent", !.first = FALSE, !.cookies = jar'] ELSE request[r]]
  /\ UNCHANGED <<live, gone, issued, faults>>

\* The cookies are set, and every request that waited is sent again.
Refreshed(t) ==
  /\ tab[t].promise.pc = "rotated"
  /\ jar' = [access |-> TRUE, refresh |-> tab[t].promise.new]
  /\ tab' = [tab EXCEPT ![t].promise = NoRefresh]
  /\ request' = [r \in Requests |-> IF r \in Waiting(t)
       THEN [request[r] EXCEPT !.pc = "sent", !.first = FALSE, !.cookies = jar'] ELSE request[r]]
  /\ UNCHANGED <<live, gone, issued, faults>>

NotRefreshed(t) ==
  /\ tab[t].promise.pc = "refused"
  /\ LET page == IF Waiting(t) = {} THEN tab[t].page ELSE "login" IN
     tab' = [tab EXCEPT ![t] = [@ EXCEPT !.promise = NoRefresh, !.page = page]]
  /\ request' = [r \in Requests |-> IF r \in Waiting(t) THEN NoRequest ELSE request[r]]
  /\ UNCHANGED <<jar, live, gone, issued, faults>>

-----------------------------------------------------------------------------
\* Signing in and out, and time

\* The login page: its proxy sets both cookies.
Login(t) ==
  /\ tab[t].page = "login" /\ issued < MaxTokens
  /\ issued' = issued + 1
  /\ live' = live \cup {issued + 1}
  /\ jar' = [access |-> TRUE, refresh |-> issued + 1]
  /\ tab' = [tab EXCEPT ![t].page = "app"]
  /\ UNCHANGED <<gone, request, faults>>

End(n) == live' = live \ {n} /\ gone' = [gone EXCEPT ![n] = "ended"]

\* The logout proxy clears the cookies whatever the backend answers; the
\* dashboard goes to /login.
Logout(t) ==
  /\ tab[t].page = "app" /\ jar.refresh # 0
  /\ End(jar.refresh)
  /\ jar' = NoJar
  /\ tab' = [tab EXCEPT ![t].page = "login"]
  /\ UNCHANGED <<issued, request, faults>>

\* Fifteen minutes: cookie and JWT expire together.
AccessExpires ==
  /\ jar.access
  /\ jar' = [jar EXCEPT !.access = FALSE]
  /\ UNCHANGED <<live, gone, issued, tab, request, faults>>

\* Seven days, or a logout of another device.
RefreshExpires(n) ==
  /\ n \in live
  /\ End(n)
  /\ UNCHANGED <<jar, issued, tab, request, faults>>

Next ==
  \/ \E r \in Requests :
       \/ \E t \in Tabs : Call(r, t)
       \/ Accepted(r) \/ WrongPassword(r) \/ Verify(r) \/ RotateForProxy(r) \/ Fail(r) \/ Receive(r)
       \/ Unauthorized(r) \/ BootUnauthorized(r) \/ RetryUnauthorized(r)
  \/ \E t \in Tabs : \/ RefreshVerify(t) \/ RefreshRotate(t) \/ RefreshFail(t) \/ Refreshed(t)
                     \/ NotRefreshed(t) \/ Login(t) \/ Logout(t)
  \/ AccessExpires
  \/ \E n \in Tokens : RefreshExpires(n)

Spec == Init /\ [][Next]_vars

-----------------------------------------------------------------------------
Jars == [access : BOOLEAN, refresh : {0} \cup Tokens]

\* Every variable has its type.
TypeOK ==
  /\ jar \in Jars
  /\ live \subseteq Tokens
  /\ gone \in [Tokens -> {"no", "ended", "dropped", "replaced"}]
  /\ issued \in Tokens
  /\ tab \in [Tabs -> [page : {"app", "login"},
                       promise : [pc : {"none", "sent", "verified", "rotated", "refused"},
                                  token : {0} \cup Tokens, new : {0} \cup Tokens]]]
  /\ request \in [Requests -> [pc : {"off", "sent", "verified", "ok", "401", "awaiting"},
                               tab : Tabs \cup {NoTab}, kind : {"api", "boot", "wrong"},
                               first : BOOLEAN, cookies : Jars]]
  /\ faults \in 0..MaxFaults

\* However requests and refreshes of several tabs interleave, the browser's
\* refresh token is honoured, or it ended, or the answer that carried its
\* successor was dropped, or that answer is on its way.
JarIsHonoured ==
  jar.refresh # 0 =>
    \/ jar.refresh \in live
    \/ gone[jar.refresh] \in {"ended", "dropped"}
    \/ \E t \in Tabs : tab[t].promise.pc = "rotated" /\ tab[t].promise.token = jar.refresh

=============================================================================
