---------------------------- MODULE BrowserProofs ---------------------------
(***************************************************************************)
(* Proofs about the browser's parts of MCPlatform: BrowserAuth,            *)
(* UploadPage, ChatHistory and ChatPage.                                   *)
(***************************************************************************)
EXTENDS MCPlatform, FiniteSetTheorems, SequenceTheorems, WellFoundedInduction, TLAPS

-----------------------------------------------------------------------------
(***************************************************************************)
(* BrowserAuth.  A token is issued once, and until the browser gets its    *)
(* cookie nobody holds it but the one answer that carries it.  So whatever *)
(* other tabs and requests rotate meanwhile, the token of an answer is     *)
(* honoured or ended when it reaches the jar; and the token that it        *)
(* replaces stays excused by that answer until then.                       *)
(***************************************************************************)


\* The backend honours what it issued until there is a reason not to.
Ledger ==
  /\ live = {n \in 1..issued : gone[n] = "no"}
  /\ \A n \in Tokens : n > issued => gone[n] = "no"

\* Cookies, requests and refreshes hold only tokens that were issued, and what was
\* verified is a token.
OnlyIssued ==
  /\ jar.refresh <= issued
  /\ \A r \in Requests : /\ request[r].cookies.refresh <= issued
                         /\ request[r].pc = "verified" => request[r].cookies.refresh \in Tokens
                         /\ request[r].pc # "off" => request[r].tab \in Tabs
  /\ \A t \in Tabs : /\ tab[t].promise.token <= issued /\ tab[t].promise.new <= issued
                     /\ tab[t].promise.pc \in {"verified", "rotated"} =>
                          tab[t].promise.token \in Tokens

Rotated(t) == tab[t].promise.pc = "rotated"

\* The successor on its way to tab t is held by nobody else.
OnItsWay(t) ==
  Rotated(t) =>
    LET new == tab[t].promise.new IN
    /\ new \in Tokens /\ gone[new] \in {"no", "ended"}
    /\ gone[tab[t].promise.token] # "no"
    /\ jar.refresh # new
    /\ \A r \in Requests : request[r].cookies.refresh # new
    /\ \A u \in Tabs : tab[u].promise.token # new
    /\ \A u \in Tabs \ {t} : Rotated(u) => tab[u].promise.new # new

BrowserInv ==
  /\ TypeOK
  /\ Ledger
  /\ OnlyIssued
  /\ \A t \in Tabs : OnItsWay(t)
  /\ JarIsHonoured

-----------------------------------------------------------------------------
\* The values of one call and of one tab.
Promises == [pc : {"none", "sent", "verified", "rotated", "refused"},
             token : {0} \cup Tokens, new : {0} \cup Tokens]
TabStates == [page : {"app", "login"}, promise : Promises]
Calls == [pc : {"off", "sent", "verified", "ok", "401", "awaiting"},
          tab : Tabs \cup {NoTab}, kind : {"api", "boot", "wrong"},
          first : BOOLEAN, cookies : Jars]

\* The initial states have the invariant.
LEMMA BrowserInit == Init => BrowserInv
<1>. SUFFICES ASSUME Init PROVE BrowserInv
  OBVIOUS
<1>1. 1 \in Tokens /\ MaxFaults \in Nat /\ MaxTokens \in Nat
  BY BrowserAssumption DEF Tokens
<1>2. NoRequest \in Calls /\ NoRefresh \in Promises /\ jar \in Jars
  BY <1>1 DEF Init, NoRequest, NoRefresh, NoJar, Calls, Promises, Jars
<1>3. \A r \in Requests : request[r] = NoRequest
  BY DEF Init
<1>4. \A t \in Tabs : tab[t] = [page |-> "app", promise |-> NoRefresh]
  BY DEF Init
<1>5. TypeOK
  <2>1. request \in [Requests -> Calls]
    BY <1>2 DEF Init
  <2>2. tab \in [Tabs -> TabStates]
    BY <1>2 DEF Init, TabStates
  <2>3. /\ live \subseteq Tokens /\ gone \in [Tokens -> {"no", "ended", "dropped", "replaced"}]
        /\ issued \in Tokens /\ faults \in 0..MaxFaults
    BY <1>1 DEF Init
  <2>. QED  BY <1>2, <2>1, <2>2, <2>3 DEF TypeOK, Calls, TabStates, Promises
<1>6. Ledger
  BY <1>1 DEF Init, Ledger
<1>7. OnlyIssued
  BY <1>1, <1>3, <1>4 DEF Init, OnlyIssued, NoRequest, NoRefresh, NoJar
<1>8. \A t \in Tabs : OnItsWay(t)
  BY <1>4 DEF OnItsWay, Rotated, NoRefresh
<1>9. JarIsHonoured
  BY DEF Init, JarIsHonoured
<1>. QED  BY <1>5, <1>6, <1>7, <1>8, <1>9 DEF BrowserInv

-----------------------------------------------------------------------------
\* Types.

\* What TypeOK says, in the names above.
LEMMA TypeFacts ==
  TypeOK <=> /\ jar \in Jars /\ live \subseteq Tokens
             /\ gone \in [Tokens -> {"no", "ended", "dropped", "replaced"}]
             /\ issued \in Tokens /\ faults \in 0..MaxFaults
             /\ tab \in [Tabs -> TabStates] /\ request \in [Requests -> Calls]
  BY DEF TypeOK, TabStates, Promises, Calls

\* Tokens are positive numbers.
LEMMA TokenFacts == /\ MaxTokens \in Nat /\ MaxFaults \in Nat /\ 0 \notin Tokens
                    /\ Tokens \subseteq Nat /\ 1 \in Tokens
                    /\ \A n \in Tokens : n < MaxTokens => n + 1 \in Tokens
  BY BrowserAssumption DEF Tokens

\* A call that moves on stays a call.
LEMMA SetType ==
  ASSUME request \in [Requests -> Calls], NEW r \in Requests,
         NEW at \in {"off", "sent", "verified", "ok", "401", "awaiting"}, Set(r, at)
  PROVE  /\ request' \in [Requests -> Calls]
         /\ request'[r].pc = at
         /\ \A q \in Requests \ {r} : request'[q] = request[q]
         /\ \A q \in Requests : /\ request'[q].cookies = request[q].cookies
                                /\ request'[q].tab = request[q].tab
<1>. DEFINE c == [request[r] EXCEPT !.pc = at]
<1>1. c \in Calls /\ c.pc = at /\ c.cookies = request[r].cookies /\ c.tab = request[r].tab
  BY DEF Calls
<1>2. request' = [request EXCEPT ![r] = c]
  BY DEF Set
<1>. HIDE DEF c
<1>. QED  BY <1>1, <1>2

\* A call that is done is none.
LEMMA DoneType ==
  ASSUME request \in [Requests -> Calls], NEW r \in Requests, Done(r)
  PROVE  /\ request' \in [Requests -> Calls] /\ request'[r] = NoRequest
         /\ \A q \in Requests \ {r} : request'[q] = request[q]
<1>1. NoRequest \in Calls
  BY TokenFacts DEF NoRequest, NoJar, Calls, Jars
<1>. QED  BY <1>1 DEF Done

-----------------------------------------------------------------------------
\* A step that leaves the jar's token, the backend and the refreshes that have
\* rotated alone keeps the invariant: others take their token from the jar.
LEMMA QuietStep ==
  ASSUME BrowserInv, TypeOK', jar'.refresh = jar.refresh, UNCHANGED <<live, gone, issued>>,
         \A r \in Requests :
            /\ request'[r].cookies.refresh \in {0, jar.refresh, request[r].cookies.refresh}
            /\ request'[r].pc = "verified" => request'[r].cookies.refresh \in Tokens
            /\ request'[r].pc # "off" => request'[r].tab \in Tabs,
         \A t \in Tabs :
            /\ tab'[t].promise.token \in {0, jar.refresh, tab[t].promise.token}
            /\ tab'[t].promise.new \in {0, tab[t].promise.new}
            /\ tab'[t].promise.pc = "verified" => tab'[t].promise.token \in Tokens
            /\ Rotated(t) <=> Rotated(t)'
            /\ Rotated(t) => tab'[t].promise = tab[t].promise
  PROVE  BrowserInv'
<1>. USE DEF Rotated
<1>1. Ledger'
  BY DEF BrowserInv, Ledger
<1>2. OnlyIssued'
  <2>1. issued \in Nat /\ 0 <= issued /\ issued' = issued
    <3>1. issued \in Tokens
      BY TypeFacts DEF BrowserInv
    <3>. QED  BY <3>1, TokenFacts
  <2>2. \A r \in Requests : request'[r].cookies.refresh <= issued
    BY <2>1 DEF BrowserInv, OnlyIssued
  <2>3. \A t \in Tabs : tab'[t].promise.token <= issued /\ tab'[t].promise.new <= issued
    BY <2>1 DEF BrowserInv, OnlyIssued
  <2>4. \A t \in Tabs :
          tab'[t].promise.pc \in {"verified", "rotated"} => tab'[t].promise.token \in Tokens
    BY DEF BrowserInv, OnlyIssued
  <2>. QED  BY <2>1, <2>2, <2>3, <2>4 DEF BrowserInv, OnlyIssued
<1>3. ASSUME NEW t \in Tabs PROVE OnItsWay(t)'
  BY TokenFacts DEF BrowserInv, OnItsWay
<1>4. JarIsHonoured'
  BY DEF BrowserInv, JarIsHonoured
<1>. QED  BY <1>1, <1>2, <1>3, <1>4 DEF BrowserInv

\* apiFetch sends a request.
LEMMA CallStep ==
  ASSUME BrowserInv, NEW r \in Requests, NEW t \in Tabs, Call(r, t) PROVE BrowserInv'
<1>1. PICK what \in {"api", "boot", "wrong"} :
        request' = [request EXCEPT ![r] = [pc |-> "sent", tab |-> t, kind |-> what,
                                           first |-> TRUE, cookies |-> jar]]
  BY DEF Call
<1>. DEFINE c == [pc |-> "sent", tab |-> t, kind |-> what, first |-> TRUE, cookies |-> jar]
<1>2. c \in Calls /\ c.pc = "sent" /\ c.tab = t /\ c.cookies = jar
  BY TypeFacts DEF BrowserInv, Calls
<1>3. request' = [request EXCEPT ![r] = c]
  BY <1>1
<1>. HIDE DEF c
<1>4. /\ request' \in [Requests -> Calls] /\ request'[r] = c
      /\ \A q \in Requests \ {r} : request'[q] = request[q]
  BY <1>2, <1>3, TypeFacts DEF BrowserInv
<1>5. UNCHANGED <<jar, live, gone, issued, tab, faults>>
  BY DEF Call
<1>6. TypeOK'
  BY <1>4, <1>5, TypeFacts DEF BrowserInv, TypeOK, TabStates, Promises, Calls
<1>7. \A q \in Requests :
         /\ request'[q].cookies.refresh \in {0, jar.refresh, request[q].cookies.refresh}
         /\ request'[q].pc = "verified" => request'[q].cookies.refresh \in Tokens
         /\ request'[q].pc # "off" => request'[q].tab \in Tabs
  BY <1>2, <1>4 DEF BrowserInv, OnlyIssued
<1>. QED  BY <1>5, <1>6, <1>7, QuietStep DEF Rotated, BrowserInv, OnlyIssued

\* The backend answers a call, verifies its refresh token, or a fault does.
LEMMA AnswerStep ==
  ASSUME BrowserInv, NEW r \in Requests,
         Accepted(r) \/ WrongPassword(r) \/ Verify(r) \/ Fail(r)
  PROVE  BrowserInv'
<1>1. PICK at \in {"ok", "401", "verified"} :
        /\ Set(r, at) /\ request[r].pc \in {"sent", "verified"}
        /\ at = "verified" => request[r].cookies.refresh \in live
  BY DEF Accepted, WrongPassword, Verify, Fail
<1>2. UNCHANGED <<jar, live, gone, issued, tab>>
  BY DEF Accepted, WrongPassword, Verify, Fail
<1>3. faults' \in 0..MaxFaults
  <2>1. faults \in 0..MaxFaults /\ MaxFaults \in Nat
    BY TypeFacts, TokenFacts DEF BrowserInv
  <2>. QED  BY <2>1 DEF Accepted, WrongPassword, Verify, Fail
<1>4. /\ request' \in [Requests -> Calls] /\ request'[r].pc = at
      /\ \A q \in Requests \ {r} : request'[q] = request[q]
      /\ \A q \in Requests : /\ request'[q].cookies = request[q].cookies
                             /\ request'[q].tab = request[q].tab
  BY <1>1, TypeFacts, SetType DEF BrowserInv, Calls
<1>5. TypeOK'
  BY <1>2, <1>3, <1>4, TypeFacts DEF BrowserInv, TypeOK, TabStates, Promises, Calls
<1>6. \A q \in Requests :
         /\ request'[q].cookies.refresh \in {0, jar.refresh, request[q].cookies.refresh}
         /\ request'[q].pc = "verified" => request'[q].cookies.refresh \in Tokens
         /\ request'[q].pc # "off" => request'[q].tab \in Tabs
  BY <1>1, <1>4 DEF BrowserInv, OnlyIssued, TypeOK
<1>. QED  BY <1>2, <1>5, <1>6, QuietStep DEF Rotated, BrowserInv, OnlyIssued

\* A call is over, or AuthBootstrap's is, or a retry that leads to the login page.
LEMMA OverStep ==
  ASSUME BrowserInv, NEW r \in Requests, Receive(r) \/ BootUnauthorized(r) \/ RetryUnauthorized(r)
  PROVE  BrowserInv'
<1>1. /\ request' \in [Requests -> Calls] /\ request'[r] = NoRequest
      /\ \A q \in Requests \ {r} : request'[q] = request[q]
  BY TypeFacts, DoneType DEF BrowserInv, Receive, BootUnauthorized, RetryUnauthorized
<1>2. UNCHANGED <<jar, live, gone, issued, faults>>
  BY DEF Receive, BootUnauthorized, RetryUnauthorized
<1>3. /\ tab' \in [Tabs -> TabStates]
      /\ \A t \in Tabs : tab'[t].promise = tab[t].promise
  <2>1. tab \in [Tabs -> TabStates]
    BY TypeFacts DEF BrowserInv
  <2>2. CASE tab' = tab
    BY <2>1, <2>2
  <2>3. CASE ToLogin(request[r].tab)
    BY <2>1, <2>3 DEF ToLogin, TabStates
  <2>. QED  BY <2>2, <2>3 DEF Receive, BootUnauthorized, RetryUnauthorized
<1>4. TypeOK'
  BY <1>1, <1>2, <1>3, TypeFacts DEF BrowserInv, TypeOK, TabStates, Promises, Calls
<1>5. \A q \in Requests :
         /\ request'[q].cookies.refresh \in {0, jar.refresh, request[q].cookies.refresh}
         /\ request'[q].pc = "verified" => request'[q].cookies.refresh \in Tokens
         /\ request'[q].pc # "off" => request'[q].tab \in Tabs
  BY <1>1 DEF BrowserInv, OnlyIssued, NoRequest, NoJar
<1>. QED  BY <1>2, <1>3, <1>4, <1>5, QuietStep DEF Rotated, BrowserInv, OnlyIssued

\* A 401 makes its tab refresh, with the token the jar holds now.
LEMMA UnauthorizedStep == ASSUME BrowserInv, NEW r \in Requests, Unauthorized(r) PROVE BrowserInv'
<1>1. /\ request' \in [Requests -> Calls] /\ request'[r].pc = "awaiting"
      /\ \A q \in Requests \ {r} : request'[q] = request[q]
      /\ \A q \in Requests : /\ request'[q].cookies = request[q].cookies
                             /\ request'[q].tab = request[q].tab
  <2>1. request \in [Requests -> Calls] /\ Set(r, "awaiting")
    BY TypeFacts DEF BrowserInv, Unauthorized
  <2>. QED  BY <2>1, SetType
<1>2. UNCHANGED <<jar, live, gone, issued, faults>> /\ request[r].pc = "401"
  BY DEF Unauthorized
<1>. DEFINE p == [pc |-> "sent", token |-> jar.refresh, new |-> 0]
<1>3. /\ p \in Promises /\ p.token = jar.refresh /\ p.new = 0 /\ p.pc = "sent"
  BY TypeFacts DEF BrowserInv, Promises, Jars
<1>4. tab' = tab \/ /\ tab[request[r].tab].promise.pc = "none"
                    /\ tab' = [tab EXCEPT ![request[r].tab].promise = p]
  BY DEF Unauthorized
<1>. HIDE DEF p
<1>5. /\ tab' \in [Tabs -> TabStates]
      /\ \A t \in Tabs : \/ tab'[t].promise = tab[t].promise
                         \/ tab[t].promise.pc = "none" /\ tab'[t].promise = p
  BY <1>3, <1>4, TypeFacts DEF BrowserInv, TabStates
<1>6. TypeOK'
  BY <1>1, <1>2, <1>5, TypeFacts DEF BrowserInv, TypeOK, TabStates, Promises, Calls
<1>7. \A q \in Requests :
         /\ request'[q].cookies.refresh \in {0, jar.refresh, request[q].cookies.refresh}
         /\ request'[q].pc = "verified" => request'[q].cookies.refresh \in Tokens
         /\ request'[q].pc # "off" => request'[q].tab \in Tabs
  BY <1>1, <1>2 DEF BrowserInv, OnlyIssued, TypeOK
<1>8. \A t \in Tabs :
            /\ tab'[t].promise.token \in {0, jar.refresh, tab[t].promise.token}
            /\ tab'[t].promise.new \in {0, tab[t].promise.new}
            /\ tab'[t].promise.pc = "verified" => tab'[t].promise.token \in Tokens
            /\ Rotated(t) <=> Rotated(t)'
            /\ Rotated(t) => tab'[t].promise = tab[t].promise
  BY <1>3, <1>5 DEF Rotated, BrowserInv, OnlyIssued
<1>. QED  BY <1>2, <1>6, <1>7, <1>8, QuietStep

\* /auth/refresh looks its token up.
LEMMA RefreshVerifyStep == ASSUME BrowserInv, NEW t \in Tabs, RefreshVerify(t) PROVE BrowserInv'
<1>1. PICK at \in {"verified", "refused"} :
        Promise(t, at) /\ (at = "verified" => tab[t].promise.token \in live)
  BY DEF RefreshVerify
<1>2. UNCHANGED <<jar, live, gone, issued, request, faults>> /\ tab[t].promise.pc = "sent"
  BY DEF RefreshVerify
<1>3. /\ tab' \in [Tabs -> TabStates] /\ tab'[t].promise.pc = at
      /\ tab'[t].promise.token = tab[t].promise.token /\ tab'[t].promise.new = tab[t].promise.new
      /\ \A u \in Tabs \ {t} : tab'[u] = tab[u]
  BY <1>1, TypeFacts DEF BrowserInv, Promise, TabStates, Promises
<1>4. TypeOK'
  BY <1>2, <1>3, TypeFacts DEF BrowserInv, TypeOK, TabStates, Promises, Calls
<1>5. \A u \in Tabs :
            /\ tab'[u].promise.token \in {0, jar.refresh, tab[u].promise.token}
            /\ tab'[u].promise.new \in {0, tab[u].promise.new}
            /\ tab'[u].promise.pc = "verified" => tab'[u].promise.token \in Tokens
            /\ Rotated(u) <=> Rotated(u)'
            /\ Rotated(u) => tab'[u].promise = tab[u].promise
  BY <1>1, <1>2, <1>3 DEF Rotated, BrowserInv, OnlyIssued, TypeOK
<1>. QED  BY <1>2, <1>4, <1>5, QuietStep DEF BrowserInv, OnlyIssued

\* A refresh that was refused: its tab and the calls that waited give up.
LEMMA NotRefreshedStep == ASSUME BrowserInv, NEW t \in Tabs, NotRefreshed(t) PROVE BrowserInv'
<1>1. UNCHANGED <<jar, live, gone, issued, faults>> /\ tab[t].promise.pc = "refused"
  BY DEF NotRefreshed
<1>2. NoRefresh \in Promises /\ NoRequest \in Calls
  BY TokenFacts DEF NoRefresh, Promises, NoRequest, NoJar, Calls, Jars
<1>3. /\ tab' \in [Tabs -> TabStates] /\ tab'[t].promise = NoRefresh
      /\ \A u \in Tabs \ {t} : tab'[u] = tab[u]
  BY <1>2, TypeFacts DEF BrowserInv, NotRefreshed, TabStates
<1>4. /\ request' \in [Requests -> Calls]
      /\ \A q \in Requests : request'[q] = NoRequest \/ request'[q] = request[q]
  BY <1>2, TypeFacts DEF BrowserInv, NotRefreshed
<1>5. TypeOK'
  BY <1>1, <1>3, <1>4, TypeFacts DEF BrowserInv, TypeOK, TabStates, Promises, Calls
<1>6. \A q \in Requests :
         /\ request'[q].cookies.refresh \in {0, jar.refresh, request[q].cookies.refresh}
         /\ request'[q].pc = "verified" => request'[q].cookies.refresh \in Tokens
         /\ request'[q].pc # "off" => request'[q].tab \in Tabs
  BY <1>4 DEF BrowserInv, OnlyIssued, NoRequest, NoJar
<1>7. \A u \in Tabs :
            /\ tab'[u].promise.token \in {0, jar.refresh, tab[u].promise.token}
            /\ tab'[u].promise.new \in {0, tab[u].promise.new}
            /\ tab'[u].promise.pc = "verified" => tab'[u].promise.token \in Tokens
            /\ Rotated(u) <=> Rotated(u)'
            /\ Rotated(u) => tab'[u].promise = tab[u].promise
  BY <1>1, <1>3 DEF Rotated, BrowserInv, OnlyIssued, NoRefresh
<1>. QED  BY <1>1, <1>5, <1>6, <1>7, QuietStep

\* The access token expires: the jar keeps its refresh token.
LEMMA AccessExpiresStep == ASSUME BrowserInv, AccessExpires PROVE BrowserInv'
<1>1. jar \in Jars /\ jar' = [jar EXCEPT !.access = FALSE]
      /\ UNCHANGED <<live, gone, issued, tab, request, faults>>
  BY TypeFacts DEF BrowserInv, AccessExpires
<1>2. jar' \in Jars /\ jar'.refresh = jar.refresh
  BY <1>1 DEF Jars
<1>3. TypeOK'
  BY <1>1, <1>2, TypeFacts DEF BrowserInv, TypeOK, TabStates, Promises, Calls
<1>. QED  BY <1>1, <1>2, <1>3, QuietStep DEF Rotated, BrowserInv, OnlyIssued

-----------------------------------------------------------------------------
\* Tokens that are issued and that end.

\* A rotation issues the next token; the old one has a reason from then on, and
\* keeps the one it had.
LEMMA RotateFacts ==
  ASSUME BrowserInv, NEW old \in Tokens, old <= issued, NEW why \in {"dropped", "replaced"},
         Rotate(old, why)
  PROVE  /\ issued' = issued + 1 /\ issued + 1 \in Tokens
         /\ live' = (live \ {old}) \cup {issued + 1} /\ live' \subseteq Tokens
         /\ gone' \in [Tokens -> {"no", "ended", "dropped", "replaced"}]
         /\ gone'[old] = IF gone[old] = "no" THEN why ELSE gone[old]
         /\ \A n \in Tokens \ {old} : gone'[n] = gone[n]
         /\ gone'[issued + 1] = "no"
         /\ Ledger'
<1>1. /\ issued \in Nat /\ issued + 1 \in Tokens /\ issued' = issued + 1
      /\ gone \in [Tokens -> {"no", "ended", "dropped", "replaced"}] /\ live \subseteq Tokens
  BY TypeFacts, TokenFacts DEF BrowserInv, Rotate
<1>2. /\ live' = (live \ {old}) \cup {issued + 1} /\ live' \subseteq Tokens
      /\ gone' \in [Tokens -> {"no", "ended", "dropped", "replaced"}]
      /\ gone'[old] = IF gone[old] = "no" THEN why ELSE gone[old]
      /\ \A n \in Tokens \ {old} : gone'[n] = gone[n]
  BY <1>1 DEF Rotate
<1>3. issued + 1 # old /\ gone'[issued + 1] = "no"
  BY <1>1, <1>2, TokenFacts DEF BrowserInv, Ledger
<1>4. \A n \in Tokens : n > issued + 1 => gone'[n] = "no"
  BY <1>1, <1>2, TokenFacts DEF BrowserInv, Ledger
<1>5. ASSUME NEW n PROVE n \in live' <=> n \in 1..(issued + 1) /\ gone'[n] = "no"
  <2>1. Tokens = 1..MaxTokens /\ MaxTokens \in Nat
    BY TokenFacts DEF Tokens
  <2>2. CASE n = issued + 1
    BY <1>1, <1>2, <1>3, <2>2
  <2>3. CASE n = old
    BY <1>1, <1>2, <1>3, <2>3
  <2>4. CASE n # old /\ n # issued + 1
    <3>1. n \in live' <=> n \in live
      BY <1>2, <2>4
    <3>2. n \in live <=> n \in 1..issued /\ gone[n] = "no"
      BY DEF BrowserInv, Ledger
    <3>3. n \in 1..issued => n \in Tokens /\ gone'[n] = gone[n]
      BY <1>1, <1>2, <2>1, <2>4
    <3>4. n \in 1..(issued + 1) <=> n \in 1..issued
      BY <1>1, <2>4
    <3>. QED  BY <3>1, <3>2, <3>3, <3>4
  <2>. QED  BY <2>2, <2>3, <2>4
<1>6. Ledger'
  BY <1>1, <1>4, <1>5 DEF Ledger
<1>. QED  BY <1>1, <1>2, <1>3, <1>6

\* A rotation whose answer a proxy drops: the token in the jar gets its reason.
LEMMA RotateForProxyStep ==
  ASSUME BrowserInv, NEW r \in Requests, RotateForProxy(r) PROVE BrowserInv'
<1>. DEFINE old == request[r].cookies.refresh
<1>1. /\ old \in Tokens /\ old <= issued /\ Rotate(old, "dropped") /\ Set(r, "ok")
      /\ request[r].pc = "verified" /\ UNCHANGED <<jar, tab, faults>>
  BY DEF BrowserInv, OnlyIssued, RotateForProxy
<1>2. /\ issued' = issued + 1 /\ issued + 1 \in Tokens
      /\ live' = (live \ {old}) \cup {issued + 1} /\ live' \subseteq Tokens
      /\ gone' \in [Tokens -> {"no", "ended", "dropped", "replaced"}]
      /\ gone'[old] = IF gone[old] = "no" THEN "dropped" ELSE gone[old]
      /\ \A n \in Tokens \ {old} : gone'[n] = gone[n]
      /\ Ledger'
  BY <1>1, RotateFacts
<1>3. /\ request' \in [Requests -> Calls] /\ request'[r].pc = "ok"
      /\ \A q \in Requests \ {r} : request'[q] = request[q]
      /\ \A q \in Requests : /\ request'[q].cookies = request[q].cookies
                             /\ request'[q].tab = request[q].tab
  <2>1. request \in [Requests -> Calls]
    BY TypeFacts DEF BrowserInv
  <2>. QED  BY <1>1, <2>1, SetType DEF Calls
<1>4. TypeOK'
  BY <1>1, <1>2, <1>3, TypeFacts DEF BrowserInv, TypeOK, TabStates, Promises, Calls
<1>5. OnlyIssued'
  <2>1. issued \in Nat /\ issued' = issued + 1
    BY <1>2, TypeFacts, TokenFacts DEF BrowserInv
  <2>2. jar \in Jars /\ tab \in [Tabs -> TabStates] /\ request \in [Requests -> Calls]
    BY TypeFacts DEF BrowserInv
  <2>3. \A n \in {0} \cup Tokens : n <= issued => n <= issued'
    BY <2>1, TokenFacts
  <2>4. jar'.refresh <= issued' /\ \A q \in Requests : request'[q].cookies.refresh <= issued'
    BY <1>1, <1>3, <2>2, <2>3 DEF BrowserInv, OnlyIssued, Jars, Calls
  <2>5. \A t \in Tabs : tab'[t].promise.token <= issued' /\ tab'[t].promise.new <= issued'
    BY <1>1, <2>2, <2>3 DEF BrowserInv, OnlyIssued, TabStates, Promises
  <2>. QED  BY <1>1, <1>3, <2>4, <2>5 DEF BrowserInv, OnlyIssued
<1>. HIDE DEF old
<1>6. ASSUME NEW t \in Tabs PROVE OnItsWay(t)'
  <2>. SUFFICES ASSUME Rotated(t) PROVE OnItsWay(t)'
    BY <1>1 DEF OnItsWay, Rotated
  <2>1. tab[t].promise.new # old /\ tab[t].promise.token \in Tokens
    BY DEF BrowserInv, OnItsWay, OnlyIssued, Rotated, old
  <2>. QED  BY <1>1, <1>2, <1>3, <2>1 DEF BrowserInv, OnItsWay, Rotated
<1>7. JarIsHonoured'
  <2>1. jar \in Jars
    BY TypeFacts DEF BrowserInv
  <2>2. old \in live <=> gone[old] = "no"
    BY <1>1, TokenFacts, TypeFacts DEF BrowserInv, Ledger
  <2>. QED  BY <1>1, <1>2, <2>1, <2>2 DEF BrowserInv, JarIsHonoured, Jars
<1>. QED  BY <1>2, <1>4, <1>5, <1>6, <1>7 DEF BrowserInv

\* A refresh rotates: its answer is on its way with a token nobody holds.
LEMMA RefreshRotateStep == ASSUME BrowserInv, NEW t \in Tabs, RefreshRotate(t) PROVE BrowserInv'
<1>. DEFINE old == tab[t].promise.token
<1>1. /\ old \in Tokens /\ old <= issued /\ Rotate(old, "replaced")
      /\ tab[t].promise.pc = "verified" /\ UNCHANGED <<jar, request, faults>>
      /\ tab' = [tab EXCEPT ![t].promise = [@ EXCEPT !.pc = "rotated", !.new = issued + 1]]
  BY DEF BrowserInv, OnlyIssued, RefreshRotate
<1>2. /\ issued' = issued + 1 /\ issued + 1 \in Tokens
      /\ live' = (live \ {old}) \cup {issued + 1} /\ live' \subseteq Tokens
      /\ gone' \in [Tokens -> {"no", "ended", "dropped", "replaced"}]
      /\ gone'[old] = IF gone[old] = "no" THEN "replaced" ELSE gone[old]
      /\ \A n \in Tokens \ {old} : gone'[n] = gone[n]
      /\ gone'[issued + 1] = "no"
      /\ Ledger'
  BY <1>1, RotateFacts
<1>3. /\ tab' \in [Tabs -> TabStates]
      /\ tab'[t].promise.pc = "rotated" /\ tab'[t].promise.new = issued + 1
      /\ tab'[t].promise.token = old
      /\ \A u \in Tabs \ {t} : tab'[u] = tab[u]
  BY <1>1, <1>2, TypeFacts DEF BrowserInv, TabStates, Promises
<1>4. TypeOK'
  BY <1>1, <1>2, <1>3, TypeFacts DEF BrowserInv, TypeOK, TabStates, Promises, Calls
<1>5. /\ jar \in Jars /\ tab \in [Tabs -> TabStates] /\ request \in [Requests -> Calls]
      /\ issued \in Nat
  BY TypeFacts, TokenFacts DEF BrowserInv
<1>6. /\ \A n \in {0} \cup Tokens : n <= issued => n <= issued' /\ n # issued + 1
      /\ issued + 1 <= issued'
  BY <1>2, <1>5, TokenFacts
<1>7. OnlyIssued'
  <2>1. jar'.refresh <= issued' /\ \A q \in Requests : request'[q].cookies.refresh <= issued'
    BY <1>1, <1>5, <1>6 DEF BrowserInv, OnlyIssued, Jars, Calls
  <2>2. \A u \in Tabs : tab'[u].promise.token <= issued' /\ tab'[u].promise.new <= issued'
    BY <1>1, <1>3, <1>5, <1>6 DEF BrowserInv, OnlyIssued, TabStates, Promises
  <2>. QED  BY <1>1, <1>3, <2>1, <2>2 DEF BrowserInv, OnlyIssued
<1>8. /\ jar.refresh # issued + 1
      /\ \A q \in Requests : request[q].cookies.refresh # issued + 1
      /\ \A u \in Tabs : /\ tab[u].promise.token # issued + 1
                         /\ tab[u].promise.new # issued + 1
  BY <1>5, <1>6 DEF BrowserInv, OnlyIssued, Jars, Calls, TabStates, Promises
<1>9. OnItsWay(t)'
  <2>1. gone'[old] # "no"
    BY <1>2
  <2>. QED  BY <1>1, <1>2, <1>3, <1>8, <2>1 DEF OnItsWay, Rotated
<1>10. ASSUME NEW u \in Tabs \ {t} PROVE OnItsWay(u)'
  <2>. SUFFICES ASSUME Rotated(u) PROVE OnItsWay(u)'
    BY <1>3 DEF OnItsWay, Rotated
  <2>1. tab[u].promise.new # old /\ tab[u].promise.token \in Tokens
    BY DEF BrowserInv, OnItsWay, OnlyIssued, Rotated
  <2>. HIDE DEF old
  <2>2. /\ \A q \in Requests : request'[q].cookies.refresh # tab'[u].promise.new
        /\ \A v \in Tabs : tab'[v].promise.token # tab'[u].promise.new
    BY <1>1, <1>3, <2>1 DEF BrowserInv, OnItsWay, Rotated
  <2>3. \A v \in Tabs \ {u} : Rotated(v)' => tab'[v].promise.new # tab'[u].promise.new
    BY <1>3, <1>8 DEF BrowserInv, OnItsWay, Rotated
  <2>4. /\ tab'[u].promise.new \in Tokens /\ gone'[tab'[u].promise.new] \in {"no", "ended"}
        /\ gone'[tab'[u].promise.token] # "no" /\ jar'.refresh # tab'[u].promise.new
    BY <1>1, <1>2, <1>3, <2>1 DEF BrowserInv, OnItsWay, Rotated
  <2>. QED  BY <2>2, <2>3, <2>4 DEF OnItsWay
<1>11. JarIsHonoured'
  <2>1. CASE jar.refresh = old
    BY <1>1, <1>3, <2>1 DEF JarIsHonoured
  <2>2. CASE jar.refresh # old
    BY <1>1, <1>2, <1>3, <1>5, <2>2 DEF BrowserInv, JarIsHonoured, Jars
  <2>. QED  BY <2>1, <2>2
<1>. QED  BY <1>2, <1>4, <1>7, <1>9, <1>10, <1>11 DEF BrowserInv

\* The answer of a refresh is lost: a rotation it carried is a dropped one.
LEMMA RefreshFailStep == ASSUME BrowserInv, NEW t \in Tabs, RefreshFail(t) PROVE BrowserInv'
<1>. DEFINE old == tab[t].promise.token
<1>1. /\ UNCHANGED <<jar, live, issued, request>> /\ Promise(t, "refused")
      /\ tab[t].promise.pc \in {"sent", "verified", "rotated"}
  BY DEF RefreshFail
<1>2. faults' \in 0..MaxFaults
  <2>1. faults \in 0..MaxFaults /\ MaxFaults \in Nat
    BY TypeFacts, TokenFacts DEF BrowserInv
  <2>. QED  BY <2>1 DEF RefreshFail
<1>3. /\ tab' \in [Tabs -> TabStates] /\ tab'[t].promise.pc = "refused"
      /\ tab'[t].promise.token = old /\ tab'[t].promise.new = tab[t].promise.new
      /\ \A u \in Tabs \ {t} : tab'[u] = tab[u]
  BY <1>1, TypeFacts DEF BrowserInv, Promise, TabStates, Promises
<1>4. \/ gone' = gone /\ (Rotated(t) => gone[old] # "replaced")
      \/ /\ Rotated(t) /\ gone[old] = "replaced"
         /\ gone' = [gone EXCEPT ![old] = "dropped"]
  BY DEF RefreshFail, Rotated
<1>5. gone \in [Tokens -> {"no", "ended", "dropped", "replaced"}] /\ (Rotated(t) => old \in Tokens)
  BY TypeFacts DEF BrowserInv, OnlyIssued, Rotated
<1>6. /\ gone' \in [Tokens -> {"no", "ended", "dropped", "replaced"}]
      /\ \A n \in Tokens : \/ gone'[n] = gone[n]
                           \/ n = old /\ gone[n] = "replaced" /\ gone'[n] = "dropped"
      /\ Rotated(t) => gone'[old] # "replaced"
  BY <1>4, <1>5
<1>7. TypeOK'
  BY <1>1, <1>2, <1>3, <1>6, TypeFacts DEF BrowserInv, TypeOK, TabStates, Promises, Calls
<1>8. Ledger'
  <2>1. 1..issued \subseteq Tokens /\ issued \in Nat
    BY TypeFacts, TokenFacts DEF BrowserInv, Tokens
  <2>2. \A n \in Tokens : gone'[n] = "no" <=> gone[n] = "no"
    BY <1>6
  <2>. QED  BY <1>1, <2>1, <2>2 DEF BrowserInv, Ledger
<1>9. OnlyIssued'
  BY <1>1, <1>3 DEF BrowserInv, OnlyIssued
<1>10. ASSUME NEW u \in Tabs PROVE OnItsWay(u)'
  <2>. SUFFICES ASSUME Rotated(u), u # t PROVE OnItsWay(u)'
    BY <1>3 DEF OnItsWay, Rotated
  <2>1. tab[u].promise.new \in Tokens /\ tab[u].promise.token \in Tokens
    BY DEF BrowserInv, OnItsWay, OnlyIssued, Rotated
  <2>. QED  BY <1>1, <1>3, <1>6, <2>1 DEF BrowserInv, OnItsWay, Rotated
<1>11. JarIsHonoured'
  <2>. SUFFICES ASSUME jar.refresh # 0 PROVE JarIsHonoured'
    BY <1>1 DEF JarIsHonoured
  <2>1. jar.refresh \in Tokens
    BY TypeFacts DEF BrowserInv, Jars
  <2>2. CASE jar.refresh \in live \/ gone[jar.refresh] \in {"ended", "dropped"}
    BY <1>1, <1>6, <2>1, <2>2 DEF JarIsHonoured
  <2>3. CASE \E u \in Tabs \ {t} : Rotated(u) /\ tab[u].promise.token = jar.refresh
    BY <1>1, <1>3, <2>3 DEF JarIsHonoured, Rotated
  <2>4. CASE Rotated(t) /\ old = jar.refresh
    <3>1. gone[old] # "no"
      BY <2>4 DEF BrowserInv, OnItsWay
    <3>2. gone'[jar.refresh] \in {"ended", "dropped"}
      BY <1>6, <2>1, <2>4, <3>1
    <3>. QED  BY <1>1, <3>2 DEF JarIsHonoured
  <2>. QED  BY <2>2, <2>3, <2>4 DEF BrowserInv, JarIsHonoured, Rotated
<1>. QED  BY <1>7, <1>8, <1>9, <1>10, <1>11 DEF BrowserInv

\* The answer reaches the jar: its token is honoured, or it has ended.
LEMMA RefreshedStep == ASSUME BrowserInv, NEW t \in Tabs, Refreshed(t) PROVE BrowserInv'
<1>. DEFINE new == tab[t].promise.new
<1>1. /\ Rotated(t) /\ UNCHANGED <<live, gone, issued, faults>>
      /\ jar' = [access |-> TRUE, refresh |-> new]
      /\ tab' = [tab EXCEPT ![t].promise = NoRefresh]
  BY DEF Refreshed, Rotated
<1>2. /\ new \in Tokens /\ gone[new] \in {"no", "ended"} /\ new <= issued
  BY <1>1 DEF BrowserInv, OnItsWay, OnlyIssued
<1>3. jar' \in Jars /\ jar'.refresh = new
  BY <1>1, <1>2 DEF Jars
<1>4. NoRefresh \in Promises /\ NoRefresh.pc = "none" /\ NoRefresh.token = 0 /\ NoRefresh.new = 0
  BY TokenFacts DEF NoRefresh, Promises
<1>5. /\ tab' \in [Tabs -> TabStates] /\ tab'[t].promise = NoRefresh
      /\ \A u \in Tabs \ {t} : tab'[u] = tab[u]
  BY <1>1, <1>4, TypeFacts DEF BrowserInv, TabStates
<1>6. /\ request' \in [Requests -> Calls]
      /\ \A q \in Requests : \/ request'[q] = request[q]
                             \/ /\ request'[q].pc = "sent" /\ request[q].pc = "awaiting"
                                /\ request'[q].cookies = jar' /\ request'[q].tab = request[q].tab
  <2>1. request \in [Requests -> Calls]
    BY TypeFacts DEF BrowserInv
  <2>2. \A q \in Requests :
          LET c == [request[q] EXCEPT !.pc = "sent", !.first = FALSE, !.cookies = jar'] IN
          c \in Calls /\ c.pc = "sent" /\ c.cookies = jar' /\ c.tab = request[q].tab
    BY <1>3, <2>1 DEF Calls
  <2>3. request' = [r \in Requests |-> IF r \in Waiting(t)
          THEN [request[r] EXCEPT !.pc = "sent", !.first = FALSE, !.cookies = jar']
          ELSE request[r]]
    BY DEF Refreshed
  <2>. QED  BY <2>1, <2>2, <2>3 DEF Waiting
<1>7. TypeOK'
  BY <1>1, <1>3, <1>5, <1>6, TypeFacts DEF BrowserInv, TypeOK, TabStates, Promises, Calls
<1>8. Ledger'
  BY <1>1 DEF BrowserInv, Ledger
<1>9. OnlyIssued'
  <2>1. issued' = issued /\ issued \in Nat
    BY <1>1, TypeFacts, TokenFacts DEF BrowserInv
  <2>. QED  BY <1>2, <1>3, <1>4, <1>5, <1>6, <2>1 DEF BrowserInv, OnlyIssued
<1>10. ASSUME NEW u \in Tabs PROVE OnItsWay(u)'
  <2>. SUFFICES ASSUME Rotated(u), u # t PROVE OnItsWay(u)'
    BY <1>4, <1>5 DEF OnItsWay, Rotated
  <2>1. tab[u].promise.new # new /\ tab[u].promise.new \in Tokens /\ 0 \notin Tokens
    BY <1>1, TokenFacts DEF BrowserInv, OnItsWay
  <2>. HIDE DEF new
  <2>. QED  BY <1>1, <1>3, <1>4, <1>5, <1>6, <2>1 DEF BrowserInv, OnItsWay, Rotated
<1>11. JarIsHonoured'
  <2>1. new \in 1..issued
    BY <1>2, TypeFacts, TokenFacts DEF BrowserInv, Tokens
  <2>. QED  BY <1>1, <1>2, <1>3, <2>1 DEF BrowserInv, JarIsHonoured, Ledger
<1>. QED  BY <1>7, <1>8, <1>9, <1>10, <1>11 DEF BrowserInv

\* The login page: a token of its own.
LEMMA LoginStep == ASSUME BrowserInv, NEW t \in Tabs, Login(t) PROVE BrowserInv'
<1>1. /\ issued' = issued + 1 /\ issued < MaxTokens /\ live' = live \cup {issued + 1}
      /\ jar' = [access |-> TRUE, refresh |-> issued + 1]
      /\ UNCHANGED <<gone, request, faults>>
  BY DEF Login
<1>2. /\ issued \in Nat /\ issued + 1 \in Tokens /\ live \subseteq Tokens
      /\ gone \in [Tokens -> {"no", "ended", "dropped", "replaced"}]
  BY <1>1, TypeFacts, TokenFacts DEF BrowserInv
<1>3. jar' \in Jars /\ jar'.refresh = issued + 1
  BY <1>1, <1>2 DEF Jars
<1>4. /\ tab' \in [Tabs -> TabStates]
      /\ \A u \in Tabs : tab'[u].promise = tab[u].promise
  BY TypeFacts DEF BrowserInv, Login, TabStates
<1>5. TypeOK'
  BY <1>1, <1>2, <1>3, <1>4, TypeFacts DEF BrowserInv, TypeOK, TabStates, Promises, Calls
<1>6. \A n \in {0} \cup Tokens : n <= issued => n <= issued' /\ n # issued + 1
  BY <1>1, <1>2, TokenFacts
<1>7. gone[issued + 1] = "no"
  BY <1>2 DEF BrowserInv, Ledger
<1>8. Ledger'
  <2>1. \A n \in Tokens : n > issued' => gone'[n] = "no"
    BY <1>1, <1>2, TokenFacts DEF BrowserInv, Ledger
  <2>2. 1..(issued + 1) = 1..issued \cup {issued + 1}
    BY <1>2
  <2>. QED  BY <1>1, <1>7, <2>1, <2>2 DEF BrowserInv, Ledger
<1>9. OnlyIssued'
  <2>1. tab \in [Tabs -> TabStates] /\ request \in [Requests -> Calls] /\ jar'.refresh <= issued'
    BY <1>1, <1>2, <1>3, TypeFacts DEF BrowserInv
  <2>2. \A q \in Requests : request'[q].cookies.refresh <= issued'
    BY <1>1, <1>6, <2>1 DEF BrowserInv, OnlyIssued, Calls, Jars
  <2>3. \A u \in Tabs : tab'[u].promise.token <= issued' /\ tab'[u].promise.new <= issued'
    BY <1>4, <1>6, <2>1 DEF BrowserInv, OnlyIssued, TabStates, Promises
  <2>. QED  BY <1>1, <1>4, <2>1, <2>2, <2>3 DEF BrowserInv, OnlyIssued
<1>10. ASSUME NEW u \in Tabs PROVE OnItsWay(u)'
  <2>. SUFFICES ASSUME Rotated(u) PROVE OnItsWay(u)'
    BY <1>4 DEF OnItsWay, Rotated
  <2>1. tab[u].promise.new # issued + 1
    BY <1>6 DEF BrowserInv, OnItsWay, OnlyIssued
  <2>. QED  BY <1>1, <1>3, <1>4, <2>1 DEF BrowserInv, OnItsWay, Rotated
<1>11. JarIsHonoured'
  BY <1>1, <1>3 DEF JarIsHonoured
<1>. QED  BY <1>5, <1>8, <1>9, <1>10, <1>11 DEF BrowserInv

\* A token ends: whoever holds it has its reason.
LEMMA EndFacts ==
  ASSUME BrowserInv, NEW n \in Tokens, n <= issued, End(n), issued' = issued
  PROVE  /\ live' \subseteq Tokens /\ live' = live \ {n}
         /\ gone' \in [Tokens -> {"no", "ended", "dropped", "replaced"}]
         /\ gone'[n] = "ended" /\ \A m \in Tokens \ {n} : gone'[m] = gone[m]
         /\ Ledger'
<1>1. /\ issued \in Tokens /\ live \subseteq Tokens
      /\ gone \in [Tokens -> {"no", "ended", "dropped", "replaced"}]
  BY TypeFacts DEF BrowserInv
<1>2. /\ live' \subseteq Tokens /\ live' = live \ {n}
      /\ gone' \in [Tokens -> {"no", "ended", "dropped", "replaced"}]
      /\ gone'[n] = "ended" /\ \A m \in Tokens \ {n} : gone'[m] = gone[m]
  BY <1>1 DEF End
<1>3. 1..issued \subseteq Tokens
  BY <1>1, TokenFacts DEF Tokens
<1>4. \A m \in Tokens : m > issued => gone'[m] = "no"
  BY <1>1, <1>2, TokenFacts DEF BrowserInv, Ledger
<1>. QED  BY <1>2, <1>3, <1>4 DEF BrowserInv, Ledger

\* Signing out, in the jar and at the backend.
LEMMA LogoutStep == ASSUME BrowserInv, NEW t \in Tabs, Logout(t) PROVE BrowserInv'
<1>1. /\ jar.refresh \in Tokens /\ jar.refresh <= issued /\ End(jar.refresh) /\ jar' = NoJar
      /\ UNCHANGED <<issued, request, faults>>
  BY TypeFacts DEF BrowserInv, OnlyIssued, Jars, Logout
<1>2. /\ live' \subseteq Tokens /\ gone' \in [Tokens -> {"no", "ended", "dropped", "replaced"}]
      /\ gone'[jar.refresh] = "ended" /\ \A m \in Tokens \ {jar.refresh} : gone'[m] = gone[m]
      /\ Ledger'
  BY <1>1, EndFacts
<1>3. jar' \in Jars /\ jar'.refresh = 0
  BY <1>1 DEF NoJar, Jars
<1>4. /\ tab' \in [Tabs -> TabStates]
      /\ \A u \in Tabs : tab'[u].promise = tab[u].promise
  BY TypeFacts DEF BrowserInv, Logout, TabStates
<1>5. TypeOK'
  BY <1>1, <1>2, <1>3, <1>4, TypeFacts DEF BrowserInv, TypeOK, TabStates, Promises, Calls
<1>6. OnlyIssued'
  <2>1. issued \in Nat
    BY TypeFacts, TokenFacts DEF BrowserInv
  <2>. QED  BY <1>1, <1>3, <1>4, <2>1 DEF BrowserInv, OnlyIssued
<1>7. ASSUME NEW u \in Tabs PROVE OnItsWay(u)'
  <2>. SUFFICES ASSUME Rotated(u) PROVE OnItsWay(u)'
    BY <1>4 DEF OnItsWay, Rotated
  <2>1. tab[u].promise.new # jar.refresh /\ tab[u].promise.token \in Tokens /\ 0 \notin Tokens
    BY TokenFacts DEF BrowserInv, OnItsWay, OnlyIssued, Rotated
  <2>. QED  BY <1>1, <1>2, <1>3, <1>4, <2>1 DEF BrowserInv, OnItsWay, Rotated
<1>8. JarIsHonoured'
  BY <1>3 DEF JarIsHonoured
<1>. QED  BY <1>2, <1>5, <1>6, <1>7, <1>8 DEF BrowserInv

\* A token expires, or another device ends it.
LEMMA RefreshExpiresStep == ASSUME BrowserInv, NEW n \in Tokens, RefreshExpires(n) PROVE BrowserInv'
<1>1. n <= issued /\ End(n) /\ UNCHANGED <<jar, issued, tab, request, faults>>
  BY TypeFacts, TokenFacts DEF BrowserInv, Ledger, RefreshExpires
<1>2. /\ live' \subseteq Tokens /\ gone' \in [Tokens -> {"no", "ended", "dropped", "replaced"}]
      /\ live' = live \ {n}
      /\ gone'[n] = "ended" /\ \A m \in Tokens \ {n} : gone'[m] = gone[m]
      /\ Ledger'
  BY <1>1, EndFacts
<1>3. TypeOK'
  BY <1>1, <1>2, TypeFacts DEF BrowserInv, TypeOK, TabStates, Promises, Calls
<1>4. OnlyIssued'
  BY <1>1 DEF BrowserInv, OnlyIssued
<1>5. ASSUME NEW u \in Tabs PROVE OnItsWay(u)'
  <2>. SUFFICES ASSUME Rotated(u) PROVE OnItsWay(u)'
    BY <1>1 DEF OnItsWay, Rotated
  <2>1. tab[u].promise.new \in Tokens /\ tab[u].promise.token \in Tokens
    BY DEF BrowserInv, OnItsWay, OnlyIssued, Rotated
  <2>. QED  BY <1>1, <1>2, <2>1 DEF BrowserInv, OnItsWay, Rotated
<1>6. JarIsHonoured'
  <2>1. jar \in Jars
    BY TypeFacts DEF BrowserInv
  <2>. QED  BY <1>1, <1>2, <2>1 DEF BrowserInv, JarIsHonoured, Jars
<1>. QED  BY <1>2, <1>3, <1>4, <1>5, <1>6 DEF BrowserInv

-----------------------------------------------------------------------------
\* Every step keeps the invariant.
LEMMA BrowserNext == BrowserInv /\ [Next]_vars => BrowserInv'
<1>. SUFFICES ASSUME BrowserInv, [Next]_vars PROVE BrowserInv'
  OBVIOUS
<1>1. CASE UNCHANGED vars
  BY <1>1 DEF vars, BrowserInv, TypeOK, Ledger, OnlyIssued, OnItsWay, Rotated, JarIsHonoured
<1>2. ASSUME NEW r \in Requests,
             \/ RotateForProxy(r) \/ Unauthorized(r)
             \/ Accepted(r) \/ WrongPassword(r) \/ Verify(r) \/ Fail(r)
             \/ Receive(r) \/ BootUnauthorized(r) \/ RetryUnauthorized(r)
      PROVE  BrowserInv'
  BY <1>2, RotateForProxyStep, UnauthorizedStep, AnswerStep, OverStep
<1>3. ASSUME NEW t \in Tabs,
             \/ RefreshVerify(t) \/ RefreshRotate(t) \/ RefreshFail(t) \/ Refreshed(t)
             \/ NotRefreshed(t) \/ Login(t) \/ Logout(t)
      PROVE  BrowserInv'
  BY <1>3, RefreshVerifyStep, RefreshRotateStep, RefreshFailStep, RefreshedStep,
     NotRefreshedStep, LoginStep, LogoutStep
<1>. QED  BY <1>1, <1>2, <1>3, CallStep, AccessExpiresStep, RefreshExpiresStep DEF Next

\* The invariant holds in every state of the system.
THEOREM BrowserInvHolds == Spec => []BrowserInv
  BY BrowserInit, BrowserNext, PTL DEF Spec

\* The jar, the backend's tokens, the tabs' refreshes and the calls keep their types.
THEOREM BrowserTypes == Spec => []TypeOK
<1>1. BrowserInv => TypeOK
  BY DEF BrowserInv
<1>. QED  BY <1>1, BrowserInvHolds, PTL

\* For any number of tabs, calls and tokens, and however their refreshes overlap with
\* the rotations behind a proxy: the browser's refresh token is honoured, or it ended,
\* or the answer with its successor was dropped or is on its way.
THEOREM JarHonoured == Spec => []JarIsHonoured
<1>1. BrowserInv => JarIsHonoured
  BY DEF BrowserInv
<1>. QED  BY <1>1, BrowserInvHolds, PTL


-----------------------------------------------------------------------------
(***************************************************************************)
(* UploadPage.  What a job ended with is remembered, so that an answer of  *)
(* /jobs or of a poll that calls it finished tells of something that was,  *)
(* however late it comes and whatever the worker has done to the job since *)
(* then; and as long as an unfinished one is shown the effect after it     *)
(* starts the polling again.  A row that waits for its upload is of a file *)
(* that the loop has, until its answer comes.                              *)
(***************************************************************************)

\* The job of f exists, and it has ended with s (or a poll of it failed) if s is an end.
Known(f, s) == job[f] # "none" /\ (s \in Uploads!Terminal => s \in had[f])

\* What was answered of a job was so when the answer was made.
AnswersFit ==
  /\ \A i \in DOMAIN polls : Known(polls[i].file, polls[i].status)
  /\ \A f \in Files : listing.jobs[f] # "none" => Known(f, listing.jobs[f])

\* A job that has ended is one that has ended so.
Endings == \A f \in Files : job[f] \in Uploads!Terminal => job[f] \in had[f]

\* Rows with a job's id and intervals are of jobs that exist, and the last row of a
\* job tells of it what was answered, or that a poll failed.
ShownFits ==
  /\ \A f \in timers : job[f] # "none"
  /\ \A f \in Files : shown[f] # <<>> => Known(f, Uploads!Last(shown[f]))

\* The rows rs of f tell that its upload ended, or there is none that waits for it.
Over(rs, f) == rs[f] \ Uploads!Terminal # {} => rs[f] \cap Uploads!Terminal # {}
InQueue(queue, f) == \E i \in DOMAIN queue : queue[i] = f

\* Every row that waits for its upload is of a file in hand.
RowsWait == \A f \in Files : Over(temp, f) \/ Uploads!InHand(f)
\* The same of rows and a queue between two turns of the loop.
Settled(rs, queue) == \A f \in Files : Over(rs, f) \/ InQueue(queue, f)

\* After the effect an unfinished job has an interval.
Polled == \A f \in Files : Uploads!Unfinished(f) => f \in timers

UploadsInv ==
  /\ Uploads!TypeOK
  /\ AnswersFit
  /\ Endings
  /\ ShownFits
  /\ open => RowsWait
  /\ open /\ ~dirty => Polled

\* The invariant says what the page promises.
LEMMA UploadsInvFollows == UploadsInv => Uploads!UploadsAreFollowed
BY DEF UploadsInv, ShownFits, RowsWait, Over, Polled, Known, Uploads!UploadsAreFollowed,
       Uploads!Finished

\* The first state has the invariant.
LEMMA UploadsInit == Uploads!Init => UploadsInv
<1>. SUFFICES ASSUME Uploads!Init PROVE UploadsInv
  OBVIOUS
<1>1. <<>> \in Seq(Files) /\ <<>> \in Seq(Uploads!JobStates) /\ Len(<<>>) = 0
      /\ <<>> \in Seq([file : Files, status : Uploads!JobStates])
  OBVIOUS
<1>2. Uploads!TypeOK
  <2>1. /\ job \in [Files -> Uploads!JobStates \cup {"none"}]
        /\ had \in [Files -> SUBSET Uploads!Terminal]
        /\ listing \in [at : {"due", "read", "done"},
                        jobs : [Files -> Uploads!JobStates \cup {"none"}]]
    BY DEF Uploads!Init, Uploads!NoJobs
  <2>2. /\ polls \in Seq([file : Files, status : Uploads!JobStates]) /\ Len(polls) <= MaxPolls
        /\ queueRef \in Seq(Files)
    BY <1>1, PlatformAssumption DEF Uploads!Init
  <2>3. shown \in [Files -> Seq(Uploads!JobStates)] /\ temp \in [Files -> SUBSET Uploads!Statuses]
    BY <1>1 DEF Uploads!Init
  <2>. QED  BY <2>1, <2>2, <2>3 DEF Uploads!Init, Uploads!TypeOK, Uploads!Modes
<1>3. \A f \in Files : /\ shown[f] = <<>> /\ temp[f] = {}
                       /\ job[f] = "none" /\ listing.jobs[f] = "none"
  BY DEF Uploads!Init, Uploads!NoJobs
<1>4. DOMAIN polls = {} /\ timers = {} /\ "none" \notin Uploads!Terminal
  BY DEF Uploads!Init, Uploads!Terminal
<1>. QED  BY <1>2, <1>3, <1>4 DEF UploadsInv, AnswersFit, Endings, ShownFits, RowsWait, Over,
             Polled, Uploads!Unfinished

\* The types of the records, and what a sequence of statuses ends with.
LEMMA UploadTypes ==
  ASSUME UploadsInv
  PROVE  /\ \A f \in Files : /\ temp[f] \in SUBSET Uploads!Statuses
                             /\ shown[f] \in Seq(Uploads!JobStates)
                             /\ job[f] \in Uploads!JobStates \cup {"none"}
                             /\ listing.jobs[f] \in Uploads!JobStates \cup {"none"}
                             /\ shown[f] # <<>> => Uploads!Last(shown[f]) \in Uploads!JobStates
         /\ \A i \in DOMAIN polls : /\ polls[i].file \in Files
                                    /\ polls[i].status \in Uploads!JobStates
         /\ loop.mode \in Uploads!Modes => loop.file \in Files
<1>1. \A f \in Files : /\ temp[f] \in SUBSET Uploads!Statuses
                       /\ shown[f] \in Seq(Uploads!JobStates)
                       /\ job[f] \in Uploads!JobStates \cup {"none"}
                       /\ listing.jobs[f] \in Uploads!JobStates \cup {"none"}
  BY DEF UploadsInv, Uploads!TypeOK
<1>2. ASSUME NEW f \in Files, shown[f] # <<>> PROVE Uploads!Last(shown[f]) \in Uploads!JobStates
  <2>1. Len(shown[f]) \in DOMAIN shown[f]
    BY <1>1, <1>2
  <2>. QED  BY <1>1, <2>1 DEF Uploads!Last
<1>3. ASSUME NEW i \in DOMAIN polls
      PROVE  polls[i].file \in Files /\ polls[i].status \in Uploads!JobStates
  <2>. DEFINE S == [file : Files, status : Uploads!JobStates]
  <2>1. polls \in Seq(S)
    BY DEF UploadsInv, Uploads!TypeOK
  <2>2. polls[i] \in S
    <3>. HIDE DEF S
    <3>1. DOMAIN polls = 1..Len(polls)
      BY <2>1
    <3>. QED  BY <1>3, <2>1, <3>1, ElementOfSeq
  <2>. QED  BY <2>2
<1>4. loop.mode \in Uploads!Modes => loop.file \in Files
  BY DEF UploadsInv, Uploads!TypeOK, Uploads!Idle, Uploads!Modes
<1>. QED  BY <1>1, <1>2, <1>3, <1>4

\* What a step may do: a job that exists stays and so does what it ended with, answers
\* and rows are old ones or tell what a job is.
LEMMA UploadsStep ==
  ASSUME UploadsInv, Uploads!TypeOK', Endings',
         \A f \in Files : (job[f] # "none" => job'[f] # "none") /\ had[f] \subseteq had'[f],
         \A i \in DOMAIN polls' : \/ \E j \in DOMAIN polls : polls'[i] = polls[j]
                                  \/ Known(polls[i].file, polls[i].status)',
         \A f \in Files : \/ listing'.jobs[f] = listing.jobs[f]
                          \/ Known(f, listing.jobs[f])'
                          \/ listing'.jobs[f] = "none",
         \A f \in timers' : f \in timers \/ job[f] # "none",
         \A f \in Files : \/ shown'[f] = <<>>
                          \/ shown[f] # <<>> /\ Uploads!Last(shown'[f]) = Uploads!Last(shown[f])
                          \/ Known(f, Uploads!Last(shown[f]))',
         open' => open /\ RowsWait',
         open' /\ ~dirty' => Polled'
  PROVE  UploadsInv'
<1>1. ASSUME NEW f \in Files, NEW s \in Uploads!JobStates, Known(f, s) PROVE Known(f, s)'
  BY <1>1 DEF Known
<1>2. AnswersFit'
  <2>1. ASSUME NEW i \in DOMAIN polls' PROVE Known(polls[i].file, polls[i].status)'
    BY <1>1, <2>1, UploadTypes DEF UploadsInv, AnswersFit
  <2>2. ASSUME NEW f \in Files, listing'.jobs[f] # "none"
        PROVE  Known(f, listing.jobs[f])'
    BY <1>1, <2>2, UploadTypes DEF UploadsInv, AnswersFit
  <2>. QED  BY <2>1, <2>2 DEF AnswersFit
<1>3. ShownFits'
  <2>1. ASSUME NEW f \in timers' PROVE job'[f] # "none"
    BY <2>1 DEF UploadsInv, ShownFits, Uploads!TypeOK
  <2>2. ASSUME NEW f \in Files, shown'[f] # <<>> PROVE Known(f, Uploads!Last(shown[f]))'
    BY <1>1, <2>2, UploadTypes DEF UploadsInv, ShownFits
  <2>. QED  BY <2>1, <2>2 DEF ShownFits
<1>. QED  BY <1>2, <1>3 DEF UploadsInv

\* A turn of the loop takes the head of the queue in hand.
LEMMA UploadTurn ==
  ASSUME NEW mode \in Uploads!Modes, NEW queue \in Seq(Files),
         NEW rs \in [Files -> SUBSET Uploads!Statuses], Uploads!Turn(mode, queue, rs)
  PROVE  /\ loop' = Uploads!Idle \/ loop' \in [mode : Uploads!Modes, file : Files]
         /\ queueRef' \in Seq(Files)
         /\ temp' \in [Files -> SUBSET Uploads!Statuses]
         /\ Settled(rs, queue) => RowsWait'
<1>1. CASE queue = <<>>
  <2>1. loop' = Uploads!Idle /\ queueRef' = <<>> /\ temp' = rs
    BY <1>1 DEF Uploads!Turn
  <2>2. \A f \in Files : ~InQueue(queue, f)
    BY <1>1 DEF InQueue
  <2>. QED  BY <2>1, <2>2 DEF Settled, RowsWait, Over
<1>2. CASE queue # <<>>
  <2>. DEFINE h == Head(queue)
              n == Len(queue)
              q == Tail(queue)
  <2>1. /\ h \in Files /\ h = queue[1] /\ q \in Seq(Files) /\ n \in Nat
        /\ DOMAIN queue = 1..n /\ DOMAIN q = 1..n - 1
        /\ \A i \in 1..n - 1 : q[i] = queue[i + 1]
    BY <1>2
  <2>2. \A f \in Files : InQueue(queue, f) => f = h \/ InQueue(q, f)
    <3>1. ASSUME NEW i \in DOMAIN queue PROVE queue[i] = h \/ \E j \in DOMAIN q : q[j] = queue[i]
      <4>. HIDE DEF q, h, n
      <4>1. CASE i = 1
        BY <2>1, <4>1
      <4>2. CASE i # 1
        <5>1. i - 1 \in DOMAIN q /\ q[i - 1] = queue[i]
          BY <2>1, <4>2
        <5>. QED  BY <5>1
      <4>. QED  BY <4>1, <4>2
    <3>. QED  BY <3>1 DEF InQueue
  <2>3. loop' = [mode |-> mode, file |-> h] /\ queueRef' = q
    BY <1>2 DEF Uploads!Turn
  <2>4. /\ temp' \in [Files -> SUBSET Uploads!Statuses]
        /\ \A f \in Files : f # h => temp'[f] = rs[f]
    <3>1. Uploads!SetAll(rs[h], "uploading") \in SUBSET Uploads!Statuses
      BY DEF Uploads!SetAll, Uploads!Statuses
    <3>2. \/ temp' = [rs EXCEPT ![h] = Uploads!SetAll(rs[h], "uploading")]
          \/ temp' = rs
      BY DEF Uploads!Turn
    <3>. HIDE DEF h
    <3>. QED  BY <2>1, <3>1, <3>2
  <2>5. loop' # Uploads!Idle /\ loop'.file = h
    BY <2>3 DEF Uploads!Idle, Uploads!Modes
  <2>6. ASSUME Settled(rs, queue), NEW f \in Files PROVE (Over(temp, f) \/ Uploads!InHand(f))'
    <3>1. CASE f = h \/ InQueue(q, f)
      BY <2>3, <2>5, <3>1 DEF Uploads!InHand, InQueue
    <3>2. CASE f # h /\ Over(rs, f)
      BY <2>4, <3>2 DEF Over
    <3>. QED  BY <2>2, <2>6, <3>1, <3>2 DEF Settled
  <2>. QED  BY <2>1, <2>3, <2>4, <2>6 DEF RowsWait
<1>. QED  BY <1>1, <1>2

\* Between two turns the files in hand are those of the queue.
LEMMA TurnSettles ==
  ASSUME UploadsInv, open, loop.mode \in Uploads!Modes,
         NEW rs, Over(rs, loop.file),
         \A f \in Files : f # loop.file => rs[f] = temp[f]
  PROVE  Settled(rs, queueRef)
<1>1. ASSUME NEW f \in Files PROVE Over(rs, f) \/ InQueue(queueRef, f)
  <2>1. CASE f # loop.file
    <3>1. Over(temp, f) \/ Uploads!InHand(f)
      BY DEF UploadsInv, RowsWait
    <3>2. Uploads!InHand(f) => InQueue(queueRef, f)
      BY <2>1 DEF Uploads!InHand, InQueue
    <3>3. Over(temp, f) => Over(rs, f)
      BY <2>1 DEF Over
    <3>. QED  BY <3>1, <3>2, <3>3
  <2>. QED  BY <2>1
<1>. QED  BY <1>1 DEF Settled

\* The page's buttons and the loop.
LEMMA UploadsLoop ==
  ASSUME UploadsInv,
         \/ \E f \in Files : Uploads!Enqueue(f)
         \/ Uploads!ChangeMode \/ Uploads!SyncAnswered \/ Uploads!UploadFails
  PROVE  UploadsInv'
<1>1. /\ \A f \in Files : shown[f] \in Seq(Uploads!JobStates)
      /\ queueRef \in Seq(Files) /\ temp \in [Files -> SUBSET Uploads!Statuses]
      /\ open \in BOOLEAN /\ uploadMode \in Uploads!Modes
  BY UploadTypes DEF UploadsInv, Uploads!TypeOK
<1>2. ASSUME NEW rs \in [Files -> SUBSET Uploads!Statuses], NEW mode \in Uploads!Modes,
             NEW queue \in Seq(Files),
             \/ Uploads!Turn(mode, queue, rs) /\ (open => Settled(rs, queue))
             \/ queueRef' = queue /\ temp' = rs /\ UNCHANGED loop /\ RowsWait',
             chosen' \in SUBSET Files, dirty' = open,
             UNCHANGED <<open, uploadMode, shown, timers, polls, job, had, listing>>
      PROVE  UploadsInv'
  <2>1. /\ loop' = Uploads!Idle \/ loop' \in [mode : Uploads!Modes, file : Files]
        /\ queueRef' \in Seq(Files)
        /\ temp' \in [Files -> SUBSET Uploads!Statuses]
        /\ open => RowsWait'
    <3>1. CASE Uploads!Turn(mode, queue, rs) /\ (open => Settled(rs, queue))
      BY <3>1, UploadTurn
    <3>2. CASE queueRef' = queue /\ temp' = rs /\ UNCHANGED loop /\ RowsWait'
      BY <1>2, <3>2 DEF UploadsInv, Uploads!TypeOK
    <3>. QED  BY <1>2, <3>1, <3>2
  <2>2. Uploads!TypeOK'
    BY <1>1, <1>2, <2>1 DEF UploadsInv, Uploads!TypeOK
  <2>3. Endings'
    BY <1>2 DEF UploadsInv, Endings
  <2>. QED  BY <1>1, <1>2, <2>1, <2>2, <2>3, UploadsStep
<1>3. ASSUME NEW f \in Files, Uploads!Enqueue(f) PROVE UploadsInv'
  <2>. DEFINE queue == Append(queueRef, f)
              rs == [temp EXCEPT ![f] = IF uploadMode = "background" THEN {"pending"} ELSE @]
  <2>1. /\ queue \in Seq(Files) /\ Len(queue) = Len(queueRef) + 1 /\ Len(queueRef) \in Nat
        /\ \A i \in 1..Len(queueRef) : queue[i] = queueRef[i]
        /\ queue[Len(queueRef) + 1] = f
    BY <1>1, AppendProperties
  <2>2. /\ rs \in [Files -> SUBSET Uploads!Statuses]
        /\ \A g \in Files : g # f => rs[g] = temp[g]
    BY <1>1 DEF Uploads!Statuses, Uploads!JobStates
  <2>3. /\ chosen' = chosen \cup {f} /\ dirty' = open /\ open
        /\ UNCHANGED <<open, uploadMode, shown, timers, polls, job, had, listing>>
        /\ \/ loop = Uploads!Idle /\ Uploads!Turn(uploadMode, queue, rs)
           \/ queueRef' = queue /\ temp' = rs /\ UNCHANGED loop
    BY <1>1, <1>3 DEF Uploads!Enqueue
  <2>4. chosen' \in SUBSET Files
    BY <2>3 DEF UploadsInv, Uploads!TypeOK
  <2>. HIDE DEF queue, rs
  <2>5. InQueue(queue, f) /\ \A g \in Files : InQueue(queueRef, g) => InQueue(queue, g)
    <3>1. DOMAIN queue = 1..Len(queueRef) + 1 /\ DOMAIN queueRef = 1..Len(queueRef)
      BY <1>1, <2>1
    <3>. QED  BY <2>1, <3>1 DEF InQueue
  <2>6. ASSUME NEW g \in Files
        PROVE  \/ Over(rs, g) \/ InQueue(queue, g)
               \/ loop # Uploads!Idle /\ loop.file = g
    <3>1. Over(temp, g) \/ Uploads!InHand(g)
      BY <2>3 DEF UploadsInv, RowsWait
    <3>. QED  BY <2>2, <2>5, <3>1 DEF Over, Uploads!InHand, InQueue
  <2>7. CASE loop = Uploads!Idle /\ Uploads!Turn(uploadMode, queue, rs)
    <3>1. Settled(rs, queue)
      BY <2>6, <2>7 DEF Settled
    <3>. QED  BY <1>1, <1>2, <2>1, <2>2, <2>3, <2>4, <2>7, <3>1
  <2>8. CASE queueRef' = queue /\ temp' = rs /\ UNCHANGED loop
    <3>1. RowsWait'
      BY <2>6, <2>8 DEF RowsWait, Over, Uploads!InHand, InQueue
    <3>. QED  BY <1>1, <1>2, <2>1, <2>2, <2>3, <2>4, <2>8, <3>1
  <2>. QED  BY <2>3, <2>7, <2>8
<1>4. CASE Uploads!ChangeMode
  <2>1. Uploads!TypeOK' /\ Endings'
    BY <1>4 DEF UploadsInv, Uploads!TypeOK, Uploads!ChangeMode, Endings
  <2>2. RowsWait => RowsWait'
    BY <1>4 DEF Uploads!ChangeMode, RowsWait, Over, Uploads!InHand
  <2>. QED  BY <1>1, <1>4, <2>1, <2>2, UploadsStep DEF UploadsInv, Uploads!ChangeMode, Polled,
               Uploads!Unfinished
<1>5. CASE Uploads!SyncAnswered
  <2>1. PICK s \in Uploads!Terminal :
          Uploads!Turn(loop.mode, queueRef,
                       [temp EXCEPT ![loop.file] = IF open THEN @ \cup {s} ELSE @])
    BY <1>5 DEF Uploads!SyncAnswered
  <2>. DEFINE rs == [temp EXCEPT ![loop.file] = IF open THEN @ \cup {s} ELSE @]
  <2>2. loop.mode \in Uploads!Modes /\ loop.file \in Files
    BY <1>5, UploadTypes DEF Uploads!SyncAnswered, Uploads!Modes
  <2>3. rs \in [Files -> SUBSET Uploads!Statuses]
    BY <1>1, <2>2 DEF Uploads!Statuses, Uploads!JobStates, Uploads!Terminal
  <2>4. /\ \A f \in Files : f # loop.file => rs[f] = temp[f]
        /\ open => s \in rs[loop.file]
    BY <1>1, <2>2
  <2>5. Uploads!Turn(loop.mode, queueRef, rs)
    BY <2>1 DEF rs
  <2>. HIDE DEF rs
  <2>6. open => Settled(rs, queueRef)
    BY <2>2, <2>4, TurnSettles DEF Over
  <2>. QED  BY <1>1, <1>2, <1>5, <2>2, <2>3, <2>5, <2>6
               DEF Uploads!SyncAnswered, UploadsInv, Uploads!TypeOK
<1>6. CASE Uploads!UploadFails
  <2>. DEFINE rs == [temp EXCEPT ![loop.file] = Uploads!SetAll(@, "failed")]
  <2>1. loop.mode \in Uploads!Modes /\ loop.file \in Files
    BY <1>6, UploadTypes DEF Uploads!UploadFails, Uploads!Modes
  <2>2. /\ Uploads!SetAll(temp[loop.file], "failed") \in SUBSET Uploads!Statuses
        /\ Uploads!SetAll(temp[loop.file], "failed") \subseteq Uploads!Terminal
    BY <1>1, <2>1 DEF Uploads!SetAll, Uploads!Statuses, Uploads!JobStates, Uploads!Terminal
  <2>3. rs \in [Files -> SUBSET Uploads!Statuses]
    BY <1>1, <2>1, <2>2
  <2>4. /\ \A f \in Files : f # loop.file => rs[f] = temp[f]
        /\ rs[loop.file] \subseteq Uploads!Terminal
    BY <1>1, <2>1, <2>2
  <2>5. Uploads!Turn(loop.mode, queueRef, rs)
    BY <1>6 DEF Uploads!UploadFails
  <2>. HIDE DEF rs
  <2>6. open => Settled(rs, queueRef)
    BY <2>1, <2>4, TurnSettles DEF Over
  <2>. QED  BY <1>1, <1>2, <1>6, <2>1, <2>3, <2>5, <2>6
               DEF Uploads!UploadFails, UploadsInv, Uploads!TypeOK
<1>. QED  BY <1>3, <1>4, <1>5, <1>6

\* The jobs at the server, and a page that is left.
LEMMA UploadsServer ==
  ASSUME UploadsInv,
         Uploads!Accept \/ Uploads!Leave \/ Uploads!Effect \/ \E f \in Files : Uploads!Work(f)
  PROVE  UploadsInv'
<1>1. /\ job \in [Files -> Uploads!JobStates \cup {"none"}]
      /\ had \in [Files -> SUBSET Uploads!Terminal]
      /\ \A f \in Files : shown[f] \in Seq(Uploads!JobStates)
  BY UploadTypes DEF UploadsInv, Uploads!TypeOK
<1>2. CASE Uploads!Accept \/ \E f \in Files : Uploads!Work(f)
  <2>1. UNCHANGED Uploads!pageVars
    BY <1>2 DEF Uploads!Accept, Uploads!Work
  <2>2. PICK f \in Files, s \in Uploads!JobStates, new \in SUBSET Uploads!Terminal :
          /\ job' = [job EXCEPT ![f] = s] /\ had' = [had EXCEPT ![f] = @ \cup new]
          /\ s \in Uploads!Terminal => s \in new
    <3>1. CASE Uploads!Accept
      <4>1. /\ loop.file \in Files /\ job' = [job EXCEPT ![loop.file] = "pending"]
            /\ had' = [had EXCEPT ![loop.file] = @ \cup {}]
        BY <3>1, UploadTypes DEF Uploads!Accept, Uploads!Modes, UploadsInv, Uploads!TypeOK
      <4>2. "pending" \in Uploads!JobStates /\ "pending" \notin Uploads!Terminal
            /\ {} \in SUBSET Uploads!Terminal
        BY DEF Uploads!JobStates, Uploads!Terminal
      <4>. QED  BY <4>1, <4>2
    <3>2. CASE \E f \in Files : Uploads!Work(f)
      <4>1. PICK f \in Files, s \in Uploads!JobStates :
              /\ job' = [job EXCEPT ![f] = s]
              /\ had' = [had EXCEPT ![f] = @ \cup ({s} \cap Uploads!Terminal)]
        BY <3>2 DEF Uploads!Work
      <4>2. {s} \cap Uploads!Terminal \in SUBSET Uploads!Terminal
        OBVIOUS
      <4>3. s \in Uploads!Terminal => s \in {s} \cap Uploads!Terminal
        OBVIOUS
      <4>. QED  BY <4>1, <4>2, <4>3
    <3>. QED  BY <1>2, <3>1, <3>2
  <2>3. /\ job' \in [Files -> Uploads!JobStates \cup {"none"}]
        /\ had' \in [Files -> SUBSET Uploads!Terminal]
        /\ \A g \in Files : (job[g] # "none" => job'[g] # "none") /\ had[g] \subseteq had'[g]
    BY <1>1, <2>2 DEF Uploads!JobStates
  <2>4. Endings'
    BY <1>1, <2>2 DEF UploadsInv, Endings
  <2>5. Uploads!TypeOK'
    BY <2>1, <2>3 DEF UploadsInv, Uploads!TypeOK, Uploads!pageVars
  <2>6. (open' => open /\ RowsWait') /\ (open' /\ ~dirty' => Polled')
    BY <2>1 DEF UploadsInv, Uploads!pageVars, RowsWait, Over, Uploads!InHand, Polled,
                Uploads!Unfinished
  <2>. QED  BY <2>1, <2>3, <2>4, <2>5, <2>6, UploadsStep DEF Uploads!pageVars
<1>3. CASE Uploads!Leave
  <2>1. temp' \in [Files -> SUBSET Uploads!Statuses] /\ shown' \in [Files -> Seq(Uploads!JobStates)]
        /\ \A f \in Files : shown'[f] = <<>>
    <3>1. <<>> \in Seq(Uploads!JobStates)
      OBVIOUS
    <3>. QED  BY <1>3, <3>1 DEF Uploads!Leave
  <2>2. Uploads!TypeOK' /\ Endings'
    BY <1>3, <2>1 DEF UploadsInv, Uploads!TypeOK, Uploads!Leave, Endings
  <2>. QED  BY <1>3, <2>1, <2>2, UploadsStep DEF Uploads!Leave
<1>4. CASE Uploads!Effect
  <2>1. Uploads!TypeOK' /\ Endings'
    BY <1>4 DEF UploadsInv, Uploads!TypeOK, Uploads!Effect, Endings
  <2>2. \A f \in timers' : f \in timers \/ job[f] # "none"
    BY <1>4 DEF Uploads!Effect, Uploads!Unfinished, UploadsInv, ShownFits, Known
  <2>3. RowsWait => RowsWait'
    BY <1>4 DEF Uploads!Effect, RowsWait, Over, Uploads!InHand
  <2>4. Polled'
    BY <1>4 DEF Uploads!Effect, Polled, Uploads!Unfinished
  <2>. QED  BY <1>4, <2>1, <2>2, <2>3, <2>4, UploadsStep DEF Uploads!Effect, UploadsInv
<1>. QED  BY <1>2, <1>3, <1>4

\* setJobs over all rows of a job.
LEMMA SetJobProperties ==
  ASSUME UploadsInv, NEW f \in Files, NEW s \in Uploads!JobStates
  PROVE  /\ Uploads!SetJob(f, s) \in [Files -> Seq(Uploads!JobStates)]
         /\ \A g \in Files : g # f => Uploads!SetJob(f, s)[g] = shown[g]
         /\ Uploads!SetJob(f, s)[f] = <<>> <=> shown[f] = <<>>
         /\ shown[f] # <<>> => Uploads!Last(Uploads!SetJob(f, s)[f]) = s
<1>1. shown \in [Files -> Seq(Uploads!JobStates)] /\ shown[f] \in Seq(Uploads!JobStates)
  BY DEF UploadsInv, Uploads!TypeOK
<1>. DEFINE n == Len(shown[f])
            new == [i \in DOMAIN shown[f] |-> s]
<1>2. n \in Nat /\ DOMAIN shown[f] = 1..n
  BY <1>1
<1>3. /\ new \in Seq(Uploads!JobStates) /\ Len(new) = n
      /\ \A i \in 1..n : new[i] = s
  <2>. HIDE DEF n
  <2>. QED  BY <1>2
<1>4. Uploads!SetJob(f, s) = [shown EXCEPT ![f] = new]
  BY DEF Uploads!SetJob
<1>5. (shown[f] = <<>> <=> n = 0) /\ (new = <<>> <=> Len(new) = 0)
  BY <1>1, <1>3, EmptySeq
<1>6. n # 0 => Uploads!Last(new) = s
  BY <1>2, <1>3 DEF Uploads!Last
<1>. HIDE DEF n, new
<1>. QED  BY <1>1, <1>3, <1>4, <1>5, <1>6

\* The answers of polls.
LEMMA UploadsPoll ==
  ASSUME UploadsInv, \/ \E f \in Files : Uploads!Poll(f)
                     \/ Uploads!PollAnswered \/ Uploads!PollFails
  PROVE  UploadsInv'
<1>. DEFINE S == [file : Files, status : Uploads!JobStates]
<1>1. /\ polls \in Seq(S) /\ Len(polls) \in Nat /\ Len(polls) <= MaxPolls
      /\ DOMAIN polls = 1..Len(polls)
      /\ \A f \in Files : shown[f] \in Seq(Uploads!JobStates)
  BY UploadTypes DEF UploadsInv, Uploads!TypeOK
<1>2. ASSUME NEW f \in Files, Uploads!Poll(f) PROVE UploadsInv'
  <2>. DEFINE e == Uploads!ReadJob(f)
  <2>1. job[f] # "none"
    BY <1>2 DEF Uploads!Poll, UploadsInv, ShownFits
  <2>2. e \in S /\ e.file = f /\ e.status = job[f]
    BY <2>1, UploadTypes DEF Uploads!ReadJob
  <2>. HIDE DEF e, S
  <2>3. polls' = Append(polls, e)
    BY <1>2 DEF Uploads!Poll, e
  <2>4. /\ Append(polls, e) \in Seq(S) /\ Len(Append(polls, e)) = Len(polls) + 1
        /\ \A i \in 1..Len(polls) : Append(polls, e)[i] = polls[i]
        /\ Append(polls, e)[Len(polls) + 1] = e
    BY <1>1, <2>2, AppendProperties
  <2>5. \A i \in DOMAIN polls' : polls'[i] = e \/ \E j \in DOMAIN polls : polls'[i] = polls[j]
    BY <1>1, <2>3, <2>4
  <2>6. job'[e.file] # "none" /\ (e.status \in Uploads!Terminal => e.status \in had'[e.file])
    BY <1>2, <2>1, <2>2 DEF Uploads!Poll, UploadsInv, Endings
  <2>7. polls' \in Seq(S) /\ Len(polls') <= MaxPolls
    BY <1>1, <1>2, <2>3, <2>4, PlatformAssumption DEF Uploads!Poll
  <2>8. Uploads!TypeOK' /\ Endings'
    BY <1>2, <2>7 DEF UploadsInv, Uploads!TypeOK, Uploads!Poll, S, Endings
  <2>9. (open' => open /\ RowsWait') /\ (open' /\ ~dirty' => Polled')
    BY <1>2 DEF UploadsInv, RowsWait, Over, Uploads!InHand, Polled, Uploads!Unfinished,
                Uploads!Poll
  <2>. QED  BY <1>1, <1>2, <2>5, <2>6, <2>8, <2>9, UploadsStep DEF Uploads!Poll, Known
<1>3. ASSUME NEW i \in DOMAIN polls, NEW s \in Uploads!JobStates, NEW failed \in BOOLEAN,
             NEW f, f = polls[i].file,
             polls' = Uploads!RemoveAt(polls, i), shown' = Uploads!SetJob(f, s),
             timers' \subseteq timers, dirty' = open,
             IF failed THEN s = "failed" /\ had' = [had EXCEPT ![f] = @ \cup {"failed"}]
             ELSE had' = had /\ s = polls[i].status,
             UNCHANGED <<open, uploadMode, queueRef, chosen, loop, temp, job, listing>>
      PROVE  UploadsInv'
  <2>. DEFINE n == Len(polls)
  <2>1. f \in Files /\ job[f] # "none" /\ Known(f, polls[i].status)
    BY <1>3, UploadTypes DEF UploadsInv, AnswersFit, Known
  <2>2. n \in Nat /\ i \in 1..n /\ n <= MaxPolls
    BY <1>1
  <2>. HIDE DEF S, n
  <2>3. /\ polls' \in Seq(S) /\ Len(polls') = n - 1
        /\ \A j \in 1..n - 1 : polls'[j] = IF j < i THEN polls[j] ELSE polls[j + 1]
    <3>. DEFINE a == SubSeq(polls, 1, i - 1)
                b == SubSeq(polls, i + 1, n)
    <3>1. /\ a \in Seq(S) /\ Len(a) = i - 1 /\ \A j \in 1..i - 1 : a[j] = polls[j]
      <4>1. /\ a \in Seq(S) /\ Len(a) = IF 1 <= i - 1 THEN i - 1 - 1 + 1 ELSE 0
            /\ \A j \in 1 .. i - 1 - 1 + 1 : a[j] = polls[1 + j - 1]
        BY <1>1, <2>2, SubSeqProperties DEF n
      <4>. HIDE DEF a
      <4>. QED  BY <2>2, <4>1
    <3>2. /\ b \in Seq(S) /\ Len(b) = n - i /\ \A j \in 1..n - i : b[j] = polls[i + j]
      <4>1. /\ b \in Seq(S) /\ Len(b) = IF i + 1 <= n THEN n - (i + 1) + 1 ELSE 0
            /\ \A j \in 1 .. n - (i + 1) + 1 : b[j] = polls[i + 1 + j - 1]
        BY <1>1, <2>2, SubSeqProperties DEF n
      <4>. HIDE DEF b
      <4>. QED  BY <2>2, <4>1
    <3>3. polls' = a \o b
      BY <1>3 DEF Uploads!RemoveAt, n
    <3>. HIDE DEF a, b
    <3>4. /\ a \o b \in Seq(S) /\ Len(a \o b) = Len(a) + Len(b)
          /\ \A j \in 1 .. Len(a) + Len(b) :
               (a \o b)[j] = IF j <= Len(a) THEN a[j] ELSE b[j - Len(a)]
      BY <3>1, <3>2, ConcatProperties
    <3>5. \A j \in 1..n - 1 : j > i - 1 => b[j - (i - 1)] = polls[j + 1]
      BY <2>2, <3>2
    <3>6. Len(a) = i - 1 /\ Len(b) = n - i /\ Len(a) + Len(b) = n - 1 /\ i - 1 \in Nat
      BY <2>2, <3>1, <3>2
    <3>7. polls' \in Seq(S) /\ Len(polls') = n - 1
      BY <3>3, <3>4, <3>6
    <3>8. ASSUME NEW j \in 1..n - 1
          PROVE  polls'[j] = IF j < i THEN polls[j] ELSE polls[j + 1]
      <4>1. polls'[j] = IF j <= i - 1 THEN a[j] ELSE b[j - (i - 1)]
        BY <3>3, <3>4, <3>6
      <4>2. CASE j < i
        <5>1. j \in 1..i - 1
          BY <2>2, <4>2
        <5>. QED  BY <2>2, <3>1, <4>1, <4>2, <5>1
      <4>3. CASE ~(j < i)
        <5>1. j > i - 1 /\ ~(j <= i - 1)
          BY <2>2, <4>3
        <5>. QED  BY <3>5, <4>1, <4>3, <5>1
      <4>. QED  BY <4>2, <4>3
    <3>. QED  BY <3>7, <3>8
  <2>4. \A j \in DOMAIN polls' : \E k \in DOMAIN polls : polls'[j] = polls[k]
    <3>1. DOMAIN polls' = 1..n - 1 /\ DOMAIN polls = 1..n
      BY <1>1, <2>2, <2>3 DEF n
    <3>. QED  BY <2>2, <2>3, <3>1
  <2>5. /\ shown' \in [Files -> Seq(Uploads!JobStates)]
        /\ \A g \in Files : g # f => shown'[g] = shown[g]
        /\ shown'[f] = <<>> <=> shown[f] = <<>>
        /\ shown[f] # <<>> => Uploads!Last(shown'[f]) = s
    BY <1>3, <2>1, SetJobProperties
  <2>6. Uploads!TypeOK'
    <3>1. Len(polls') <= MaxPolls
      BY <2>2, <2>3, PlatformAssumption
    <3>2. /\ timers \in SUBSET Files /\ open \in BOOLEAN
          /\ had \in [Files -> SUBSET Uploads!Terminal]
      BY DEF UploadsInv, Uploads!TypeOK
    <3>3. timers' \in SUBSET Files /\ dirty' \in BOOLEAN
      BY <1>3, <3>2
    <3>4. had' \in [Files -> SUBSET Uploads!Terminal]
      <4>1. CASE failed
        BY <1>3, <2>1, <3>2, <4>1 DEF Uploads!Terminal
      <4>2. CASE ~failed
        BY <1>3, <3>2, <4>2
      <4>. QED  BY <4>1, <4>2
    <3>. QED  BY <1>3, <2>3, <2>5, <3>1, <3>3, <3>4 DEF UploadsInv, Uploads!TypeOK, S
  <2>7. \A g \in Files : had[g] \subseteq had'[g]
    <3>1. had \in [Files -> SUBSET Uploads!Terminal]
      BY DEF UploadsInv, Uploads!TypeOK
    <3>2. CASE failed
      BY <1>3, <2>1, <3>1, <3>2
    <3>3. CASE ~failed
      BY <1>3, <3>3
    <3>. QED  BY <3>2, <3>3
  <2>8. Known(f, s)'
    <3>1. had \in [Files -> SUBSET Uploads!Terminal]
      BY DEF UploadsInv, Uploads!TypeOK
    <3>2. CASE failed
      BY <1>3, <2>1, <3>1, <3>2 DEF Known
    <3>3. CASE ~failed
      BY <1>3, <2>1, <3>3 DEF Known
    <3>. QED  BY <3>2, <3>3
  <2>9. \A g \in Files : \/ shown'[g] = <<>>
                         \/ shown[g] # <<>> /\ Uploads!Last(shown'[g]) = Uploads!Last(shown[g])
                         \/ Known(g, Uploads!Last(shown[g]))'
    <3>1. shown[f] # <<>> => Known(f, Uploads!Last(shown[f]))'
      BY <2>5, <2>8
    <3>. QED  BY <2>5, <3>1
  <2>10. (open' => open /\ RowsWait') /\ Endings'
    BY <1>3, <2>7 DEF UploadsInv, RowsWait, Over, Uploads!InHand, Endings
  <2>. QED  BY <1>3, <2>4, <2>6, <2>7, <2>9, <2>10, UploadsStep
<1>4. CASE Uploads!PollAnswered
  <2>1. PICK i \in DOMAIN polls :
          /\ polls' = Uploads!RemoveAt(polls, i)
          /\ shown' = Uploads!SetJob(polls[i].file, polls[i].status)
          /\ timers' = IF polls[i].status \in Uploads!Terminal THEN timers \ {polls[i].file}
                       ELSE timers
          /\ dirty' = open
          /\ UNCHANGED <<open, uploadMode, queueRef, chosen, loop, temp, job, had, listing>>
    BY <1>4 DEF Uploads!PollAnswered
  <2>2. polls[i].status \in Uploads!JobStates /\ timers' \subseteq timers
    BY <2>1, UploadTypes
  <2>. QED  BY <1>3, <2>1, <2>2
<1>5. CASE Uploads!PollFails
  <2>1. PICK i \in DOMAIN polls :
          /\ polls' = Uploads!RemoveAt(polls, i)
          /\ shown' = Uploads!SetJob(polls[i].file, "failed")
          /\ timers' = timers \ {polls[i].file}
          /\ had' = [had EXCEPT ![polls[i].file] = @ \cup {"failed"}]
          /\ dirty' = open
          /\ UNCHANGED <<open, uploadMode, queueRef, chosen, loop, temp, job, listing>>
    BY <1>5 DEF Uploads!PollFails
  <2>2. "failed" \in Uploads!JobStates /\ timers' \subseteq timers
    BY <2>1 DEF Uploads!JobStates
  <2>. QED  BY <1>3, <2>1, <2>2
<1>. QED  BY <1>2, <1>4, <1>5

\* The page's module counts as this one does.
LEMMA UploadsCardinality ==
  ASSUME NEW S PROVE Uploads!Cardinality(S) = Cardinality(S)
BY DEF Uploads!Cardinality, Cardinality

\* The answer of an upload: the file's rows take the id of its job, before the rows
\* that a list has brought.
LEMMA UploadsAnswer ==
  ASSUME UploadsInv, Uploads!UploadAnswered
  PROVE  UploadsInv'
<1>1. PICK f \in Files : f = loop.file
  BY UploadTypes DEF Uploads!UploadAnswered, Uploads!Modes
<1>. DEFINE n == Uploads!Cardinality(temp[f])
            a == [i \in 1..n |-> "pending"]
            b == shown[f]
<1>2. n \in Nat
  <2>1. IsFiniteSet(Uploads!Statuses)
    <3>1. Uploads!Statuses = {"pending", "completed", "failed", "uploading"}
      BY DEF Uploads!Statuses, Uploads!JobStates
    <3>2. IsFiniteSet({"pending", "completed", "failed", "uploading"})
      <4>1. IsFiniteSet({"pending"})
        BY FS_Singleton
      <4>2. IsFiniteSet({"pending"} \cup {"completed"})
        BY <4>1, FS_AddElement
      <4>3. IsFiniteSet(({"pending"} \cup {"completed"}) \cup {"failed"})
        BY <4>2, FS_AddElement
      <4>4. IsFiniteSet((({"pending"} \cup {"completed"}) \cup {"failed"}) \cup {"uploading"})
        BY <4>3, FS_AddElement
      <4>5. (({"pending"} \cup {"completed"}) \cup {"failed"}) \cup {"uploading"}
              = {"pending", "completed", "failed", "uploading"}
        OBVIOUS
      <4>. QED  BY <4>4, <4>5
    <3>. QED  BY <3>1, <3>2
  <2>2. IsFiniteSet(temp[f])
    BY <2>1, UploadTypes, FS_Subset
  <2>. QED  BY <2>2, UploadsCardinality, FS_CardinalityType
<1>3. b \in Seq(Uploads!JobStates) /\ Len(b) \in Nat /\ (b = <<>> <=> Len(b) = 0)
  <2>1. b \in Seq(Uploads!JobStates)
    BY UploadTypes
  <2>. HIDE DEF b
  <2>. QED  BY <2>1, EmptySeq
<1>4. a \in Seq(Uploads!JobStates) /\ Len(a) = n /\ \A i \in 1..n : a[i] = "pending"
  <2>. HIDE DEF n
  <2>. QED  BY <1>2 DEF Uploads!JobStates
<1>5. /\ shown' = [shown EXCEPT ![f] = a \o b] /\ timers' = timers \cup {f}
      /\ Uploads!Turn(loop.mode, queueRef, [temp EXCEPT ![f] = {}])
      /\ loop.mode = "background" /\ job[f] # "none" /\ dirty' = open
      /\ UNCHANGED <<open, uploadMode, chosen, polls, job, had, listing>>
  <2>1. shown' = [shown EXCEPT ![f] = a \o b]
    BY <1>1 DEF Uploads!UploadAnswered
  <2>2. /\ timers' = timers \cup {f}
        /\ Uploads!Turn(loop.mode, queueRef, [temp EXCEPT ![f] = {}])
        /\ loop.mode = "background" /\ job[f] # "none" /\ dirty' = open
        /\ UNCHANGED <<open, uploadMode, chosen, polls, job, had, listing>>
    BY <1>1, Zenon DEF Uploads!UploadAnswered
  <2>. QED  BY <2>1, <2>2
<1>. HIDE DEF n, a, b
<1>6. /\ a \o b \in Seq(Uploads!JobStates) /\ Len(a \o b) = n + Len(b)
      /\ Len(b) # 0 => (a \o b)[n + Len(b)] = b[Len(b)]
      /\ Len(b) = 0 /\ n # 0 => (a \o b)[n + Len(b)] = "pending"
  <2>1. /\ a \o b \in Seq(Uploads!JobStates) /\ Len(a \o b) = Len(a) + Len(b)
        /\ \A i \in 1 .. Len(a) + Len(b) :
             (a \o b)[i] = IF i <= Len(a) THEN a[i] ELSE b[i - Len(a)]
    BY <1>3, <1>4, ConcatProperties
  <2>2. Len(b) # 0 => (a \o b)[n + Len(b)] = b[Len(b)]
    BY <1>2, <1>3, <1>4, <2>1
  <2>. QED  BY <1>2, <1>3, <1>4, <2>1, <2>2
<1>. DEFINE c == a \o b
<1>7. /\ c = <<>> => b = <<>> /\ n = 0
      /\ b # <<>> => Uploads!Last(c) = Uploads!Last(b)
      /\ b = <<>> /\ c # <<>> => Uploads!Last(c) = "pending"
  <2>1. c = <<>> <=> Len(c) = 0
    BY <1>6, EmptySeq
  <2>. QED  BY <1>2, <1>3, <1>6, <2>1 DEF Uploads!Last
<1>. HIDE DEF c
<1>8. /\ shown' \in [Files -> Seq(Uploads!JobStates)] /\ shown'[f] = c
      /\ \A g \in Files : g # f => shown'[g] = shown[g]
  BY <1>5, <1>6 DEF UploadsInv, Uploads!TypeOK, c
<1>9. /\ loop' = Uploads!Idle \/ loop' \in [mode : Uploads!Modes, file : Files]
      /\ queueRef' \in Seq(Files)
      /\ temp' \in [Files -> SUBSET Uploads!Statuses]
      /\ open => RowsWait'
  <2>. DEFINE rs == [temp EXCEPT ![f] = {}]
  <2>1. /\ rs \in [Files -> SUBSET Uploads!Statuses]
        /\ rs[f] = {} /\ \A g \in Files : g # f => rs[g] = temp[g]
    BY DEF UploadsInv, Uploads!TypeOK
  <2>2. queueRef \in Seq(Files) /\ loop.mode \in Uploads!Modes
    BY <1>5 DEF UploadsInv, Uploads!TypeOK, Uploads!Modes
  <2>3. Uploads!Turn(loop.mode, queueRef, rs)
    BY <1>5
  <2>. HIDE DEF rs
  <2>4. open => Settled(rs, queueRef)
    BY <1>1, <2>1, <2>2, TurnSettles DEF Over
  <2>. QED  BY <2>1, <2>2, <2>3, <2>4, UploadTurn
<1>10. Uploads!TypeOK'
  BY <1>5, <1>8, <1>9 DEF UploadsInv, Uploads!TypeOK
<1>11. \A g \in Files : \/ shown'[g] = <<>>
                        \/ /\ shown[g] # <<>>
                           /\ Uploads!Last(shown'[g]) = Uploads!Last(shown[g])
                        \/ Known(g, Uploads!Last(shown[g]))'
  <2>1. c = <<>> \/ (b # <<>> /\ Uploads!Last(c) = Uploads!Last(b))
        \/ (Uploads!Last(shown[f]) = "pending" /\ job[f] # "none")'
    BY <1>5, <1>7, <1>8
  <2>2. "pending" \notin Uploads!Terminal
    BY DEF Uploads!Terminal
  <2>. QED  BY <1>8, <2>1, <2>2 DEF b, Known
<1>12. Endings'
  BY <1>5 DEF UploadsInv, Endings
<1>. QED  BY <1>5, <1>9, <1>10, <1>11, <1>12, UploadsStep

\* The list of the user's jobs replaces the rows of each job it names.
LEMMA UploadsList ==
  ASSUME UploadsInv, Uploads!List \/ Uploads!Listed
  PROVE  UploadsInv'
<1>1. CASE Uploads!List
  <2>1. /\ listing' = [at |-> "read", jobs |-> job] /\ listing'.jobs = job
        /\ UNCHANGED <<open, uploadMode, queueRef, chosen, loop, temp, shown, dirty, timers,
                       polls, job, had>>
    BY <1>1 DEF Uploads!List, Uploads!ReadJobs
  <2>2. Uploads!TypeOK' /\ Endings'
    BY <2>1 DEF UploadsInv, Uploads!TypeOK, Endings
  <2>3. \A f \in Files : listing'.jobs[f] = "none" \/ Known(f, listing.jobs[f])'
    BY <2>1 DEF Known, UploadsInv, Endings
  <2>4. (open' => open /\ RowsWait') /\ (open' /\ ~dirty' => Polled')
    BY <1>1, <2>1 DEF UploadsInv, RowsWait, Over, Uploads!InHand, Polled, Uploads!Unfinished,
                      Uploads!List
  <2>. QED  BY <2>1, <2>2, <2>3, <2>4, UploadsStep
<1>2. CASE Uploads!Listed
  <2>1. /\ listing' = [at |-> "done", jobs |-> Uploads!NoJobs]
        /\ shown' = Uploads!Merge(shown, listing.jobs) /\ dirty' = TRUE /\ open
        /\ UNCHANGED <<open, uploadMode, queueRef, chosen, loop, temp, timers, polls, job, had>>
    BY <1>2 DEF Uploads!Listed
  <2>2. \A f \in Files : IF listing.jobs[f] = "none" THEN shown'[f] = shown[f]
                         ELSE shown'[f] = <<listing.jobs[f]>>
    BY <2>1 DEF Uploads!Merge
  <2>3. ASSUME NEW s \in Uploads!JobStates
        PROVE  <<s>> \in Seq(Uploads!JobStates) /\ <<s>> # <<>> /\ Uploads!Last(<<s>>) = s
    BY DEF Uploads!Last
  <2>4. shown' \in [Files -> Seq(Uploads!JobStates)]
    <3>1. \A f \in Files : shown'[f] \in Seq(Uploads!JobStates)
      BY <2>2, <2>3, UploadTypes
    <3>. QED  BY <2>1, <3>1 DEF Uploads!Merge
  <2>5. Uploads!TypeOK' /\ Endings' /\ \A f \in Files : listing'.jobs[f] = "none"
    BY <2>1, <2>4 DEF UploadsInv, Uploads!TypeOK, Uploads!NoJobs, Endings
  <2>6. \A f \in Files : \/ shown'[f] = <<>>
                         \/ /\ shown[f] # <<>>
                            /\ Uploads!Last(shown'[f]) = Uploads!Last(shown[f])
                         \/ Known(f, Uploads!Last(shown[f]))'
    <3>1. ASSUME NEW f \in Files, listing.jobs[f] # "none"
          PROVE  Known(f, Uploads!Last(shown[f]))'
      <4>1. Uploads!Last(shown'[f]) = listing.jobs[f]
        BY <2>2, <2>3, <3>1, UploadTypes
      <4>. QED  BY <2>1, <3>1, <4>1 DEF UploadsInv, AnswersFit, Known
    <3>. QED  BY <2>2, <3>1
  <2>7. RowsWait'
    BY <2>1 DEF UploadsInv, RowsWait, Over, Uploads!InHand
  <2>. QED  BY <2>1, <2>5, <2>6, <2>7, UploadsStep
<1>. QED  BY <1>1, <1>2

\* Every step keeps the invariant.
LEMMA UploadsNext == UploadsInv /\ [Uploads!Next]_uploads => UploadsInv'
<1>. SUFFICES ASSUME UploadsInv, [Uploads!Next]_uploads PROVE UploadsInv'
  OBVIOUS
<1>1. CASE UNCHANGED uploads
  BY <1>1 DEF uploads, UploadsInv, Uploads!TypeOK, AnswersFit, Endings, ShownFits, RowsWait,
              Over, Uploads!InHand, Polled, Known, Uploads!Unfinished
<1>2. CASE Uploads!Next
  BY <1>2, UploadsLoop, UploadsServer, UploadsPoll, UploadsAnswer, UploadsList DEF Uploads!Next
<1>. QED  BY <1>1, <1>2

\* A behaviour of the platform is one of the upload page.
LEMMA JointUploads ==
  [JointNext]_<<part, vars, voice, chatPage, histories, uploads, webhooks, limits, provider,
                adminPages, texts, pages>>
    => [Uploads!Next]_uploads
  BY DEF JointNext, Others

\* For any number of files and polls: whatever order answers come in, however the mode
\* changes while files wait, and though jobs that ended are run again: an unfinished job
\* that is shown is polled, one shown as finished had ended so or had a poll fail, and a
\* row that waits for its upload is of a file in hand, or stands beside one that ended.
THEOREM UploadsFollowed == JointSpec => []UploadsAreFollowed
<1>1. JointInit => UploadsInv
  BY UploadsInit DEF JointInit
<1>2. UploadsInv => UploadsAreFollowed
  BY UploadsInvFollows DEF UploadsAreFollowed
<1>. QED  BY <1>1, <1>2, UploadsNext, JointUploads, PTL DEF JointSpec

-----------------------------------------------------------------------------
(***************************************************************************)
(* ChatHistory.  A question is sent with the messages of the page, which   *)
(* has every answer of its session but those that are still to come; and a *)
(* request that is sent again carries the messages of the first one.  So   *)
(* a row has the answers of the turns before its question, but for those   *)
(* that were coming; and of a turn before an answer's there is a later row *)
(* only if it was still running when the answer's was sent.                *)
(***************************************************************************)

SavedMessages == Seq({"user", "answer"} \X History!Turns)
TurnRecords ==
  [pc : {"off", "streaming", "saving", "saved", "ended"}, via : {"ws", "sse"},
   line : {"none", "open", "closing", "cut", "gone"}, session : 0..MaxTurns,
   payload : SavedMessages, asked : 0..MaxTicks, over : SUBSET History!Turns,
   coming : SUBSET History!Turns, repeats : 0..MaxTurns, told : BOOLEAN]
HistoryRows == [stream : History!Turns, turn : History!Turns, ms : 0..MaxTicks,
                messages : SavedMessages]
ChatStates == [session : 0..MaxTurns, messages : SavedMessages, view : {"live", "history"},
               streaming : BOOLEAN, failed : BOOLEAN, controller : 0..MaxTurns]

Hears(ms, m) == <<"answer", m>> \in History!Range(ms)
Sent(n) == turn[n].pc # "off"
\* The turn that asked the question of turn n.
Origin(n) == IF turn[n].repeats = 0 THEN n ELSE turn[n].repeats

\* Turns are sent in order, and each is of a session that is no younger.
TurnFits(n) ==
  /\ \A m \in History!Turns : m < n /\ Sent(n) => Sent(m)
  /\ Sent(n) => turn[n].session \in 1..n /\ turn[n].repeats < n
  /\ ~Sent(n) => turn[n].line = "none"
  /\ turn[n].told => turn[n].pc \in {"saving", "saved", "ended"}
  /\ chat.session = n => Sent(n)

\* The page has the answers of its session.
PageHears ==
  \A m \in History!Turns :
    turn[m].told /\ chat.session # 0 /\ turn[m].session = chat.session => Hears(chat.messages, m)

\* A request has the answers of its session from before its question, but for those
\* that were coming then.
RequestHears(n) ==
  \A m \in History!Turns : m < Origin(n) =>
    /\ turn[m].pc = "streaming" => m \in turn[n].coming
    /\ turn[m].told /\ turn[m].session = turn[n].session =>
         m \in turn[n].coming \/ Hears(turn[n].payload, m)

\* A turn before n was running when n was sent, or it had its row if it ever gets one.
EarlierEnded(n) ==
  \A m \in History!Turns : m < n =>
    \/ m \in turn[n].over
    \/ /\ turn[m].pc \in {"saved", "ended"}
       /\ \A i \in DOMAIN rows : rows[i].turn = m => rows[i].ms <= turn[n].asked

\* A row is of a turn that was saved after it was asked.
RowFits(row) ==
  LET n == row.turn IN
  /\ turn[n].pc = "saved" /\ row.stream = turn[n].session
  /\ turn[n].asked < row.ms /\ row.ms <= clock
  /\ row.messages = Append(turn[n].payload, <<"answer", n>>)

HistoryInv ==
  /\ History!TypeOK
  /\ \A n \in History!Turns :
       /\ TurnFits(n)
       /\ Sent(n) => RequestHears(n) /\ EarlierEnded(n)
       /\ turn[n].pc = "saved" => \E i \in DOMAIN rows : rows[i].turn = n
  /\ PageHears
  /\ \A i \in DOMAIN rows : RowFits(rows[i])

\* The type invariant in the names above.
LEMMA HistoryTypes ==
  History!TypeOK <=> /\ chat \in ChatStates /\ turn \in [History!Turns -> TurnRecords]
                     /\ rows \in Seq(HistoryRows) /\ clock \in 0..MaxTicks
BY DEF History!TypeOK, History!Messages, SavedMessages, TurnRecords, HistoryRows, ChatStates

\* The types of the fields.
LEMMA HistoryFields ==
  ASSUME History!TypeOK
  PROVE  /\ \A n \in History!Turns :
              /\ turn[n] \in TurnRecords
              /\ turn[n].pc \in {"off", "streaming", "saving", "saved", "ended"}
              /\ turn[n].session \in 0..MaxTurns /\ turn[n].repeats \in 0..MaxTurns
              /\ turn[n].payload \in SavedMessages /\ turn[n].asked \in 0..MaxTicks
              /\ turn[n].over \subseteq History!Turns /\ turn[n].coming \subseteq History!Turns
              /\ turn[n].told \in BOOLEAN
         /\ \A i \in DOMAIN rows :
              /\ rows[i] \in HistoryRows
              /\ rows[i].stream \in History!Turns /\ rows[i].turn \in History!Turns
              /\ rows[i].ms \in 0..MaxTicks /\ rows[i].messages \in SavedMessages
         /\ chat.messages \in SavedMessages /\ chat.session \in 0..MaxTurns
         /\ clock \in 0..MaxTicks
<1>1. /\ chat \in ChatStates /\ turn \in [History!Turns -> TurnRecords]
      /\ rows \in Seq(HistoryRows) /\ clock \in 0..MaxTicks
  BY HistoryTypes
<1>2. \A n \in History!Turns : turn[n] \in TurnRecords
  BY <1>1
<1>3. \A i \in DOMAIN rows : rows[i] \in HistoryRows
  <2>1. DOMAIN rows = 1..Len(rows)
    BY <1>1
  <2>. QED  BY <1>1, <2>1, ElementOfSeq
<1>4. ASSUME NEW q \in TurnRecords
      PROVE  /\ q.pc \in {"off", "streaming", "saving", "saved", "ended"}
             /\ q.session \in 0..MaxTurns /\ q.repeats \in 0..MaxTurns
             /\ q.payload \in SavedMessages /\ q.asked \in 0..MaxTicks
             /\ q.over \subseteq History!Turns /\ q.coming \subseteq History!Turns
             /\ q.told \in BOOLEAN
  BY DEF TurnRecords
<1>5. ASSUME NEW q \in HistoryRows
      PROVE  /\ q.stream \in History!Turns /\ q.turn \in History!Turns
             /\ q.ms \in 0..MaxTicks /\ q.messages \in SavedMessages
  BY DEF HistoryRows
<1>6. chat.messages \in SavedMessages /\ chat.session \in 0..MaxTurns
  BY <1>1 DEF ChatStates
<1>. QED  BY <1>1, <1>2, <1>3, <1>4, <1>5, <1>6

\* A message that is appended is heard, and what was heard still is.
LEMMA AppendHears ==
  ASSUME NEW ms \in SavedMessages, NEW x \in {"user", "answer"} \X History!Turns
  PROVE  /\ Append(ms, x) \in SavedMessages
         /\ \A m \in History!Turns : Hears(ms, m) => Hears(Append(ms, x), m)
         /\ \A m \in History!Turns : x = <<"answer", m>> => Hears(Append(ms, x), m)
<1>. DEFINE S == {"user", "answer"} \X History!Turns
<1>1. ms \in Seq(S)
  BY DEF SavedMessages
<1>. HIDE DEF S
<1>2. /\ Append(ms, x) \in Seq(S) /\ Len(Append(ms, x)) = Len(ms) + 1
      /\ \A i \in 1..Len(ms) : Append(ms, x)[i] = ms[i]
      /\ Append(ms, x)[Len(ms) + 1] = x
  BY <1>1, AppendProperties DEF S
<1>3. Len(ms) \in Nat /\ DOMAIN ms = 1..Len(ms) /\ DOMAIN Append(ms, x) = 1..Len(ms) + 1
  BY <1>1, <1>2
<1>. DEFINE new == Append(ms, x)
<1>4. \A i \in DOMAIN ms : i \in DOMAIN new /\ new[i] = ms[i]
  BY <1>2, <1>3
<1>5. Len(ms) + 1 \in DOMAIN new /\ new[Len(ms) + 1] = x
  BY <1>2, <1>3
<1>6. new \in SavedMessages
  BY <1>2 DEF SavedMessages, S
<1>. HIDE DEF new
<1>7. ASSUME NEW m \in History!Turns PROVE Hears(ms, m) => Hears(new, m)
  BY <1>4 DEF Hears, History!Range
<1>8. ASSUME NEW m \in History!Turns, x = <<"answer", m>> PROVE Hears(new, m)
  BY <1>5, <1>8 DEF Hears, History!Range
<1>. QED  BY <1>6, <1>7, <1>8 DEF new

\* A set of naturals has a least element.
LEMMA LeastNat ==
  ASSUME NEW S \in SUBSET Nat, S # {}
  PROVE  \E x \in S : \A y \in S : x <= y
<1>1. \E x \in S : \A y \in S : ~ (<<y, x>> \in OpToRel(<, Nat))
  BY WFMin, NatLessThanWellFounded
<1>2. PICK x \in S : \A y \in S : ~ (<<y, x>> \in OpToRel(<, Nat))
  BY <1>1
<1>3. ASSUME NEW y \in S PROVE x <= y
  <2>1. y < x => <<y, x>> \in OpToRel(<, Nat)
    BY DEF OpToRel
  <2>2. x \in Nat /\ y \in Nat
    OBVIOUS
  <2>3. ~(y < x)
    BY <1>2, <2>1, Zenon
  <2>. QED  BY <2>2, <2>3
<1>. QED  BY <1>3

\* The row that is shown of a session is a newest one of it.
LEMMA ShownNewest ==
  ASSUME History!TypeOK, NEW s \in History!Streams
  PROVE  /\ History!Shown(s) \in DOMAIN rows /\ rows[History!Shown(s)].stream = s
         /\ \A j \in DOMAIN rows : rows[j].stream = s => rows[j].ms <= rows[History!Shown(s)].ms
<1>. DEFINE own == {i \in DOMAIN rows : rows[i].stream = s}
            ages == {MaxTicks - rows[i].ms : i \in own}
            newest == {i \in own : \A j \in own : rows[j].ms <= rows[i].ms}
<1>1. \A i \in own : rows[i].ms \in 0..MaxTicks
  BY HistoryFields
<1>2. own # {} /\ own \subseteq Nat
  <2>1. rows \in Seq(HistoryRows)
    BY HistoryTypes
  <2>2. DOMAIN rows = 1..Len(rows) /\ Len(rows) \in Nat
    BY <2>1
  <2>. QED  BY <2>2 DEF History!Streams
<1>3. \E i \in own : \A j \in own : rows[j].ms <= rows[i].ms
  <2>1. ages \subseteq Nat /\ ages # {}
    BY <1>1, <1>2, PlatformAssumption
  <2>2. PICK x \in ages : \A y \in ages : x <= y
    BY <2>1, LeastNat
  <2>3. PICK i \in own : x = MaxTicks - rows[i].ms
    BY <2>2
  <2>4. ASSUME NEW j \in own PROVE rows[j].ms <= rows[i].ms
    <3>1. MaxTicks - rows[i].ms <= MaxTicks - rows[j].ms
      BY <2>2, <2>3
    <3>. QED  BY <3>1, <1>1, PlatformAssumption
  <2>. QED  BY <2>4
<1>4. newest \in SUBSET Nat /\ newest # {}
  BY <1>2, <1>3
<1>5. History!Shown(s) = History!Min(newest)
  BY DEF History!Shown
<1>. HIDE DEF newest
<1>6. History!Min(newest) \in newest
  BY <1>4, LeastNat DEF History!Min
<1>. QED  BY <1>5, <1>6 DEF newest

\* The first state has the invariant.
LEMMA HistoryInit == History!Init => HistoryInv
<1>. SUFFICES ASSUME History!Init PROVE HistoryInv
  OBVIOUS
<1>1. <<>> \in SavedMessages /\ rows \in Seq(HistoryRows) /\ DOMAIN rows = {}
  BY DEF History!Init, SavedMessages
<1>2. History!TypeOK
  <2>1. History!NoTurn \in TurnRecords
    BY <1>1, PlatformAssumption DEF TurnRecords, History!NoTurn
  <2>2. chat \in ChatStates
    BY <1>1, PlatformAssumption DEF ChatStates, History!Init
  <2>. QED  BY <1>1, <2>1, <2>2, HistoryTypes, PlatformAssumption DEF History!Init
<1>3. \A n \in History!Turns : /\ turn[n].pc = "off" /\ turn[n].line = "none" /\ ~turn[n].told
                               /\ chat.session # n
  BY DEF History!Init, History!NoTurn, History!Turns
<1>. QED  BY <1>1, <1>2, <1>3 DEF HistoryInv, TurnFits, Sent, PageHears

-----------------------------------------------------------------------------
\* The steps.  What a request was stays.
SameRequest(n) ==
  /\ turn'[n].session = turn[n].session /\ turn'[n].payload = turn[n].payload
  /\ turn'[n].asked = turn[n].asked /\ turn'[n].over = turn[n].over
  /\ turn'[n].coming = turn[n].coming /\ turn'[n].repeats = turn[n].repeats

\* The page leaves its session, or it keeps what it has.
PageKeeps ==
  \/ chat'.session = 0
  \/ /\ chat'.session = chat.session
     /\ \A m \in History!Turns : Hears(chat.messages, m) => Hears(chat'.messages, m)

\* A turn goes on without a row; a turn that is told is heard.
GoesOn(n) ==
  /\ SameRequest(n)
  /\ turn'[n].pc # turn[n].pc =>
       turn[n].pc \in {"streaming", "saving"} /\ turn'[n].pc \in {"saving", "ended"}
  /\ turn[n].pc = "off" /\ turn[n].line = "none" => turn'[n].line = "none"
  /\ \/ turn'[n].told = turn[n].told
     \/ turn[n].pc = "streaming" /\ turn'[n].pc = "saving" /\ Hears(chat'.messages, n)

\* No turn begins and no row is made.
LEMMA HistoryGoesOn ==
  ASSUME HistoryInv, History!TypeOK', \A n \in History!Turns : GoesOn(n), PageKeeps,
         rows' = rows, clock <= clock'
  PROVE  HistoryInv'
<1>0. History!TypeOK
  BY DEF HistoryInv
<1>1. ASSUME NEW n \in History!Turns PROVE TurnFits(n)'
  <2>1. TurnFits(n)
    BY DEF HistoryInv
  <2>2. \A m \in History!Turns : Sent(m)' <=> Sent(m)
    BY DEF GoesOn, Sent
  <2>3. turn'[n].told => turn'[n].pc \in {"saving", "saved", "ended"}
    BY <2>1 DEF TurnFits, GoesOn
  <2>4. chat'.session = n => Sent(n)
    BY <2>1 DEF TurnFits, PageKeeps, History!Turns
  <2>5. ~Sent(n)' => turn'[n].line = "none"
    BY <2>1 DEF TurnFits, GoesOn, Sent
  <2>. QED  BY <2>1, <2>2, <2>3, <2>4, <2>5 DEF TurnFits, GoesOn, SameRequest
<1>2. ASSUME NEW n \in History!Turns, Sent(n)' PROVE RequestHears(n)'
  <2>1. RequestHears(n)
    BY <1>2 DEF HistoryInv, Sent, GoesOn
  <2>2. Origin(n)' = Origin(n)
    BY DEF Origin, GoesOn, SameRequest
  <2>3. ASSUME NEW m \in History!Turns, m < Origin(n)
        PROVE  /\ turn'[m].pc = "streaming" => m \in turn'[n].coming
               /\ turn'[m].told /\ turn'[m].session = turn'[n].session =>
                    m \in turn'[n].coming \/ Hears(turn'[n].payload, m)
    BY <2>1, <2>3 DEF RequestHears, GoesOn, SameRequest
  <2>. QED  BY <2>2, <2>3 DEF RequestHears
<1>3. ASSUME NEW n \in History!Turns, Sent(n)' PROVE EarlierEnded(n)'
  <2>1. EarlierEnded(n)
    BY <1>3 DEF HistoryInv, Sent, GoesOn
  <2>. QED  BY <2>1 DEF EarlierEnded, GoesOn, SameRequest
<1>4. ASSUME NEW n \in History!Turns, turn'[n].pc = "saved"
      PROVE  \E i \in DOMAIN rows' : rows'[i].turn = n
  BY <1>4 DEF HistoryInv, GoesOn
<1>5. PageHears'
  BY DEF HistoryInv, PageHears, PageKeeps, GoesOn, SameRequest
<1>6. ASSUME NEW i \in DOMAIN rows' PROVE RowFits(rows[i])'
  <2>1. RowFits(rows[i]) /\ rows[i].turn \in History!Turns
    BY <1>0, <1>6, HistoryFields DEF HistoryInv
  <2>2. rows[i].ms <= clock'
    <3>1. rows[i].ms \in Nat /\ clock \in Nat /\ rows[i].ms <= clock
      BY <1>0, <1>6, <2>1, HistoryFields DEF RowFits
    <3>2. clock' \in Nat
      BY DEF History!TypeOK
    <3>. QED  BY <3>1, <3>2
  <2>. QED  BY <2>1, <2>2 DEF RowFits, GoesOn, SameRequest
<1>. QED  BY <1>1, <1>2, <1>3, <1>4, <1>5, <1>6 DEF HistoryInv

\* A request is free only after those before it, and none after it is sent.
LEMMA FreeIsNext ==
  ASSUME HistoryInv, NEW n \in History!Turns, History!Free(n)
  PROVE  \A m \in History!Turns : Sent(m) <=> m < n
<1>1. \A m \in History!Turns : m < n => Sent(m)
  BY DEF History!Free, Sent
<1>2. ASSUME NEW m \in History!Turns, Sent(m) PROVE m < n
  <2>1. n < m => Sent(n)
    BY <1>2 DEF HistoryInv, TurnFits
  <2>2. n # m /\ ~Sent(n)
    BY <1>2 DEF History!Free, Sent
  <2>. QED  BY <2>1, <2>2 DEF History!Turns
<1>. QED  BY <1>1, <1>2

\* A turn begins with what a request of its session must have.
LEMMA HistoryBegins ==
  ASSUME HistoryInv, History!TypeOK', NEW n \in History!Turns, History!Free(n),
         \A m \in History!Turns \ {n} :
           /\ SameRequest(m) /\ turn'[m].pc = turn[m].pc /\ turn'[m].told = turn[m].told
           /\ turn[m].line = "none" => turn'[m].line = "none",
         turn'[n].pc = "streaming", ~turn'[n].told,
         turn'[n].session \in 1..n, turn'[n].repeats < n,
         turn'[n].asked = clock, turn'[n].over = History!Pending,
         \A m \in History!Turns : m < Origin(n)' =>
           /\ turn[m].pc = "streaming" => m \in turn'[n].coming
           /\ turn[m].told /\ turn[m].session = turn'[n].session =>
                m \in turn'[n].coming \/ Hears(turn'[n].payload, m),
         PageKeeps \/ (chat'.session = n /\ chat.session = 0),
         rows' = rows, clock' = clock
  PROVE  HistoryInv'
<1>0. History!TypeOK
  BY DEF HistoryInv
<1>1. \A m \in History!Turns : Sent(m) <=> m < n
  BY FreeIsNext
<1>2. \A m \in History!Turns : Sent(m)' <=> m < n \/ m = n
  BY <1>1 DEF Sent
<1>3. ASSUME NEW k \in History!Turns PROVE TurnFits(k)'
  <2>1. TurnFits(k)
    BY DEF HistoryInv
  <2>2. \A m \in History!Turns : m < k /\ Sent(k)' => Sent(m)'
    BY <1>2 DEF History!Turns
  <2>3. CASE k = n
    <3>1. Sent(n)' /\ turn'[n].session \in 1..n /\ turn'[n].repeats < n /\ ~turn'[n].told
      BY DEF Sent
    <3>. QED  BY <2>2, <2>3, <3>1 DEF TurnFits
  <2>4. CASE k # n
    <3>1. Sent(k)' <=> Sent(k)
      BY <2>4 DEF Sent
    <3>2. chat'.session = k => Sent(k)
      BY <2>1, <2>4 DEF TurnFits, PageKeeps, History!Turns
    <3>. QED  BY <2>1, <2>2, <2>4, <3>1, <3>2 DEF TurnFits, SameRequest
  <2>. QED  BY <2>3, <2>4
<1>4. ASSUME NEW k \in History!Turns, k # n, Sent(k)'
      PROVE  Origin(k)' = Origin(k) /\ Origin(k) <= k /\ k < n
  <2>1. Sent(k) /\ k < n
    BY <1>1, <1>2, <1>4
  <2>2. turn[k].repeats < k
    BY <2>1 DEF HistoryInv, TurnFits
  <2>3. turn[k].repeats \in 0..MaxTurns
    BY <1>0, HistoryFields
  <2>. QED  BY <1>4, <2>1, <2>2, <2>3 DEF Origin, SameRequest, History!Turns
<1>5. ASSUME NEW k \in History!Turns, Sent(k)' PROVE RequestHears(k)'
  <2>1. CASE k = n
    <3>1. Origin(n)' <= n
      <4>1. turn'[n].repeats < n /\ turn'[n].repeats \in 0..MaxTurns
        BY DEF History!TypeOK
      <4>. QED  BY <4>1 DEF Origin, History!Turns
    <3>2. Origin(n)' \in Int /\ n \in Int /\ \A m \in History!Turns : m \in Int
      <4>1. turn'[n].repeats \in 0..MaxTurns
        BY DEF History!TypeOK
      <4>. QED  BY <4>1 DEF Origin, History!Turns
    <3>3. ASSUME NEW m \in History!Turns, m < Origin(n)'
          PROVE  /\ turn'[m].pc = "streaming" => m \in turn'[n].coming
                 /\ turn'[m].told /\ turn'[m].session = turn'[n].session =>
                      m \in turn'[n].coming \/ Hears(turn'[n].payload, m)
      <4>1. m # n
        BY <3>1, <3>2, <3>3
      <4>. QED  BY <3>3, <4>1 DEF SameRequest
    <3>. QED  BY <2>1, <3>3 DEF RequestHears
  <2>2. CASE k # n
    <3>1. RequestHears(k)
      BY <1>1, <1>5, <1>4, <2>2 DEF HistoryInv
    <3>2. ASSUME NEW m \in History!Turns, m < Origin(k)
          PROVE  /\ turn'[m].pc = "streaming" => m \in turn'[k].coming
                 /\ turn'[m].told /\ turn'[m].session = turn'[k].session =>
                      m \in turn'[k].coming \/ Hears(turn'[k].payload, m)
      <4>0. Origin(k) \in Int
        <5>1. turn[k].repeats \in 0..MaxTurns
          BY <1>0, HistoryFields
        <5>. QED  BY <5>1 DEF Origin, History!Turns
      <4>1. m # n
        BY <1>4, <1>5, <2>2, <3>2, <4>0 DEF History!Turns
      <4>. QED  BY <2>2, <3>1, <3>2, <4>1 DEF SameRequest, RequestHears
    <3>. QED  BY <1>4, <1>5, <2>2, <3>2 DEF RequestHears
  <2>. QED  BY <2>1, <2>2
<1>6. ASSUME NEW k \in History!Turns, Sent(k)' PROVE EarlierEnded(k)'
  <2>0. ASSUME NEW m \in History!Turns, m < k PROVE m # n /\ (k = n => Sent(m))
    BY <1>1, <1>2, <1>6, <2>0 DEF History!Turns
  <2>1. CASE k = n
    <3>1. ASSUME NEW m \in History!Turns, m < n
          PROVE  \/ m \in turn'[n].over
                 \/ /\ turn'[m].pc \in {"saved", "ended"}
                    /\ \A i \in DOMAIN rows : rows[i].turn = m => rows[i].ms <= turn'[n].asked
      <4>1. m # n /\ Sent(m)
        BY <2>0, <2>1, <3>1
      <4>2. turn[m].pc \in {"streaming", "saving"} => m \in History!Pending
        BY DEF History!Pending
      <4>3. turn[m].pc \in {"streaming", "saving", "saved", "ended"}
        BY <1>0, <4>1, HistoryFields DEF Sent
      <4>4. \A i \in DOMAIN rows : rows[i].ms <= clock
        BY DEF HistoryInv, RowFits
      <4>. QED  BY <4>1, <4>2, <4>3, <4>4
    <3>. QED  BY <2>1, <3>1 DEF EarlierEnded
  <2>2. CASE k # n
    <3>1. EarlierEnded(k)
      BY <1>1, <1>4, <1>6, <2>2 DEF HistoryInv
    <3>. QED  BY <2>0, <2>2, <3>1 DEF EarlierEnded, SameRequest
  <2>. QED  BY <2>1, <2>2
<1>7. ASSUME NEW k \in History!Turns, turn'[k].pc = "saved"
      PROVE  \E i \in DOMAIN rows' : rows'[i].turn = k
  BY <1>7 DEF HistoryInv
<1>8. PageHears'
  <2>1. ASSUME NEW m \in History!Turns, turn'[m].told, chat'.session # 0,
               turn'[m].session = chat'.session
        PROVE  Hears(chat'.messages, m)
    <3>1. m # n /\ turn[m].told /\ turn[m].session = chat'.session
      BY <2>1 DEF SameRequest
    <3>2. Sent(m) /\ turn[m].session \in 1..m
      <4>1. TurnFits(m)
        BY DEF HistoryInv
      <4>. QED  BY <3>1, <4>1 DEF TurnFits, Sent
    <3>3. chat'.session # n
      BY <1>1, <3>1, <3>2 DEF History!Turns
    <3>. QED  BY <2>1, <3>1, <3>3 DEF HistoryInv, PageHears, PageKeeps
  <2>. QED  BY <2>1 DEF PageHears
<1>9. ASSUME NEW i \in DOMAIN rows' PROVE RowFits(rows[i])'
  <2>1. RowFits(rows[i]) /\ rows[i].turn \in History!Turns
    BY <1>0, <1>9, HistoryFields DEF HistoryInv
  <2>2. rows[i].turn # n
    BY <2>1 DEF RowFits, History!Free
  <2>. QED  BY <2>1, <2>2 DEF RowFits, SameRequest
<1>. QED  BY <1>3, <1>5, <1>6, <1>7, <1>8, <1>9 DEF HistoryInv

\* A row is made of a turn that is saved after it was asked.
LEMMA HistoryInsert ==
  ASSUME HistoryInv, NEW n \in History!Turns, History!Insert(n)
  PROVE  HistoryInv'
<1>. DEFINE made == [stream |-> turn[n].session, turn |-> n, ms |-> clock,
                     messages |-> Append(turn[n].payload, <<"answer", n>>)]
<1>0. History!TypeOK
  BY DEF HistoryInv
<1>1. /\ turn[n].pc = "saving" /\ clock > turn[n].asked /\ rows' = Append(rows, made)
      /\ turn' = [turn EXCEPT ![n].pc = "saved"] /\ chat' = chat /\ clock' = clock
  BY DEF History!Insert
<1>2. /\ turn'[n].pc = "saved" /\ turn'[n].told = turn[n].told
      /\ turn'[n].line = turn[n].line /\ SameRequest(n)
      /\ \A m \in History!Turns \ {n} : turn'[m] = turn[m]
  BY <1>0, <1>1, HistoryTypes DEF SameRequest, TurnRecords
<1>3. TurnFits(n) /\ Sent(n)
  BY <1>1 DEF HistoryInv, Sent
<1>4. made \in HistoryRows
  <2>1. <<"answer", n>> \in {"user", "answer"} \X History!Turns
    OBVIOUS
  <2>2. Append(turn[n].payload, <<"answer", n>>) \in SavedMessages
    BY <1>0, <2>1, HistoryFields, AppendHears
  <2>3. turn[n].session \in History!Turns
    BY <1>3, PlatformAssumption DEF TurnFits, History!Turns
  <2>4. clock \in 0..MaxTicks
    BY <1>0, HistoryFields
  <2>5. ASSUME NEW p \in SavedMessages, NEW s \in History!Turns, NEW c \in 0..MaxTicks
        PROVE  [stream |-> s, turn |-> n, ms |-> c, messages |-> p] \in HistoryRows
    BY DEF HistoryRows
  <2>. QED  BY <2>2, <2>3, <2>4, <2>5
<1>5. rows \in Seq(HistoryRows)
  BY <1>0, HistoryTypes
<1>. DEFINE k == Len(rows) + 1
<1>6. /\ rows' \in Seq(HistoryRows) /\ DOMAIN rows' = DOMAIN rows \cup {k} /\ k \notin DOMAIN rows
      /\ rows'[k] = made /\ \A i \in DOMAIN rows : rows'[i] = rows[i]
  <2>. HIDE DEF made
  <2>1. Len(rows) \in Nat /\ DOMAIN rows = 1..Len(rows)
    BY <1>5
  <2>2. /\ rows' \in Seq(HistoryRows) /\ Len(rows') = Len(rows) + 1
        /\ \A i \in 1..Len(rows) : rows'[i] = rows[i]
        /\ rows'[Len(rows) + 1] = made
    BY <1>1, <1>4, <1>5, AppendProperties
  <2>3. DOMAIN rows' = 1..(Len(rows) + 1)
    BY <2>2
  <2>. QED  BY <2>1, <2>2, <2>3
<1>. HIDE DEF made, k
<1>7. made.stream = turn[n].session /\ made.turn = n /\ made.ms = clock
      /\ made.messages = Append(turn[n].payload, <<"answer", n>>)
  BY DEF made
<1>8. History!TypeOK'
  <2>1. turn' \in [History!Turns -> TurnRecords]
    <3>. DEFINE saved == [turn[n] EXCEPT !.pc = "saved"]
    <3>1. turn \in [History!Turns -> TurnRecords]
      BY <1>0, HistoryTypes
    <3>2. turn' = [turn EXCEPT ![n] = saved]
      BY <1>1
    <3>3. saved \in TurnRecords
      BY <3>1 DEF TurnRecords
    <3>. HIDE DEF saved
    <3>. QED  BY <3>1, <3>2, <3>3
  <2>2. chat' \in ChatStates /\ rows' \in Seq(HistoryRows) /\ clock' \in 0..MaxTicks
    <3>1. /\ chat \in ChatStates /\ clock \in 0..MaxTicks
          /\ chat' = chat /\ clock' = clock
      BY <1>0, <1>1, HistoryTypes
    <3>. QED  BY <1>6, <3>1
  <2>. QED  BY <2>1, <2>2
            DEF History!TypeOK, History!Messages, SavedMessages, TurnRecords, HistoryRows,
                ChatStates
<1>9. ASSUME NEW m \in History!Turns PROVE TurnFits(m)'
  <2>1. TurnFits(m)
    BY DEF HistoryInv
  <2>2. \A i \in History!Turns : Sent(i)' <=> Sent(i)
    BY <1>1, <1>2 DEF Sent
  <2>. QED  BY <1>1, <1>2, <1>3, <2>1, <2>2 DEF TurnFits, SameRequest
<1>10. ASSUME NEW m \in History!Turns, Sent(m)' PROVE RequestHears(m)' /\ EarlierEnded(m)'
  <2>1. RequestHears(m) /\ EarlierEnded(m) /\ SameRequest(m)
    BY <1>1, <1>2, <1>10 DEF HistoryInv, Sent, SameRequest
  <2>2. Origin(m)' = Origin(m)
    BY <2>1 DEF Origin, SameRequest
  <2>3. RequestHears(m)'
    <3>1. \A i \in History!Turns : /\ turn'[i].pc = "streaming" => turn[i].pc = "streaming"
                                   /\ turn'[i].told = turn[i].told
                                   /\ turn'[i].session = turn[i].session
      BY <1>2 DEF SameRequest
    <3>. QED  BY <2>1, <2>2, <3>1 DEF RequestHears, SameRequest
  <2>4. EarlierEnded(m)'
    <3>1. ASSUME NEW i \in History!Turns, i < m
          PROVE  \/ i \in turn'[m].over
                 \/ /\ turn'[i].pc \in {"saved", "ended"}
                    /\ \A j \in DOMAIN rows' : rows'[j].turn = i => rows'[j].ms <= turn'[m].asked
      <4>1. CASE i \in turn[m].over
        BY <2>1, <4>1 DEF SameRequest
      <4>2. CASE i \notin turn[m].over
        <5>1. turn[i].pc \in {"saved", "ended"} /\ i # n
          BY <1>1, <2>1, <3>1, <4>2 DEF EarlierEnded
        <5>. QED  BY <1>2, <1>6, <1>7, <2>1, <3>1, <4>2, <5>1 DEF EarlierEnded, SameRequest
      <4>. QED  BY <4>1, <4>2
    <3>. QED  BY <3>1 DEF EarlierEnded
  <2>. QED  BY <2>3, <2>4
<1>11. ASSUME NEW m \in History!Turns, turn'[m].pc = "saved"
       PROVE  \E i \in DOMAIN rows' : rows'[i].turn = m
  <2>1. CASE m = n
    BY <1>6, <1>7, <2>1
  <2>2. CASE m # n
    <3>1. PICK i \in DOMAIN rows : rows[i].turn = m
      BY <1>2, <1>11, <2>2 DEF HistoryInv
    <3>. QED  BY <1>6, <3>1
  <2>. QED  BY <2>1, <2>2
<1>12. PageHears'
  BY <1>1, <1>2 DEF HistoryInv, PageHears, SameRequest
<1>13. ASSUME NEW i \in DOMAIN rows' PROVE RowFits(rows[i])'
  <2>1. CASE i = k
    <3>1. rows'[i] = made
      BY <1>6, <2>1
    <3>2. clock \in Nat
      BY <1>0, HistoryFields
    <3>3. turn[n].asked < clock
      BY <1>0, <1>1, HistoryFields
    <3>. QED  BY <1>1, <1>2, <1>7, <3>1, <3>2, <3>3 DEF RowFits, SameRequest
  <2>2. CASE i \in DOMAIN rows
    <3>1. RowFits(rows[i]) /\ rows'[i] = rows[i] /\ rows[i].turn \in History!Turns
      BY <1>0, <1>6, <2>2, HistoryFields DEF HistoryInv
    <3>2. rows[i].turn # n
      BY <1>1, <3>1 DEF RowFits
    <3>. QED  BY <1>1, <1>2, <3>1, <3>2 DEF RowFits
  <2>. QED  BY <1>6, <1>13, <2>1, <2>2
<1>. QED  BY <1>8, <1>9, <1>10, <1>11, <1>12, <1>13 DEF HistoryInv

\* A page of which one field is changed.
LEMMA PageFields ==
  ASSUME NEW c \in ChatStates
  PROVE  /\ \A x \in 0..MaxTurns : /\ [c EXCEPT !.session = x] \in ChatStates
                                   /\ [c EXCEPT !.session = x].session = x
                                   /\ [c EXCEPT !.session = x].messages = c.messages
         /\ \A x \in SavedMessages : /\ [c EXCEPT !.messages = x] \in ChatStates
                                     /\ [c EXCEPT !.messages = x].session = c.session
                                     /\ [c EXCEPT !.messages = x].messages = x
         /\ \A x \in {"live", "history"} : /\ [c EXCEPT !.view = x] \in ChatStates
                                           /\ [c EXCEPT !.view = x].session = c.session
                                           /\ [c EXCEPT !.view = x].messages = c.messages
         /\ \A x \in BOOLEAN : /\ [c EXCEPT !.streaming = x] \in ChatStates
                               /\ [c EXCEPT !.streaming = x].session = c.session
                               /\ [c EXCEPT !.streaming = x].messages = c.messages
         /\ \A x \in BOOLEAN : /\ [c EXCEPT !.failed = x] \in ChatStates
                               /\ [c EXCEPT !.failed = x].session = c.session
                               /\ [c EXCEPT !.failed = x].messages = c.messages
         /\ \A x \in 0..MaxTurns : /\ [c EXCEPT !.controller = x] \in ChatStates
                                   /\ [c EXCEPT !.controller = x].session = c.session
                                   /\ [c EXCEPT !.controller = x].messages = c.messages
BY DEF ChatStates

\* The socket of an abort begins to close, and its fetch is cut; no more of a turn changes.
LEMMA HungUpKeeps ==
  ASSUME History!TypeOK
  PROVE  /\ History!HungUp \in [History!Turns -> TurnRecords]
         /\ \A n \in History!Turns :
              LET q == History!HungUp[n] IN
              /\ q.pc = turn[n].pc /\ q.told = turn[n].told
              /\ q.session = turn[n].session /\ q.payload = turn[n].payload
              /\ q.asked = turn[n].asked /\ q.over = turn[n].over
              /\ q.coming = turn[n].coming /\ q.repeats = turn[n].repeats
              /\ turn[n].line = "none" => q.line = "none"
<1>1. turn \in [History!Turns -> TurnRecords]
  BY HistoryTypes
<1>2. ASSUME NEW n \in History!Turns
      PROVE  /\ History!HungUp[n] \in TurnRecords
             /\ History!HungUp[n].pc = turn[n].pc /\ History!HungUp[n].told = turn[n].told
             /\ History!HungUp[n].session = turn[n].session
             /\ History!HungUp[n].payload = turn[n].payload
             /\ History!HungUp[n].asked = turn[n].asked /\ History!HungUp[n].over = turn[n].over
             /\ History!HungUp[n].coming = turn[n].coming
             /\ History!HungUp[n].repeats = turn[n].repeats
             /\ turn[n].line = "none" => History!HungUp[n].line = "none"
  <2>1. PICK at \in {"none", "open", "closing", "cut", "gone"} :
          /\ History!HungUp[n] = [turn[n] EXCEPT !.line = at]
          /\ turn[n].line = "none" => at = "none"
    <3>1. turn[n].line \in {"none", "open", "closing", "cut", "gone"}
      BY <1>1 DEF TurnRecords
    <3>. QED  BY <3>1 DEF History!HungUp
  <2>. QED  BY <1>1, <2>1 DEF TurnRecords
<1>3. History!HungUp = [n \in History!Turns |-> History!HungUp[n]]
  BY DEF History!HungUp
<1>. QED  BY <1>2, <1>3

\* The page hangs up, and leaves its session or stays as it is.
LEMMA HistoryAbort ==
  ASSUME HistoryInv, NEW p \in ChatStates, History!Abort(p),
         p.session = 0 \/ (p.session = chat.session /\ p.messages = chat.messages)
  PROVE  HistoryInv'
<1>0. History!TypeOK
  BY DEF HistoryInv
<1>1. /\ turn' = History!HungUp /\ rows' = rows /\ clock' = clock
      /\ chat' = [p EXCEPT !.streaming = FALSE, !.controller = 0]
  BY DEF History!Abort
<1>2. chat' \in ChatStates /\ chat'.session = p.session /\ chat'.messages = p.messages
  <2>1. PICK c \in ChatStates : /\ c = [p EXCEPT !.streaming = FALSE]
                                /\ c.session = p.session /\ c.messages = p.messages
    BY PageFields, Zenon
  <2>2. chat' = [c EXCEPT !.controller = 0]
    BY <1>1, <2>1, Zenon
  <2>3. 0 \in 0..MaxTurns
    BY PlatformAssumption
  <2>. QED  BY <2>1, <2>2, <2>3, PageFields, Zenon
<1>3. History!TypeOK'
  BY <1>0, <1>1, <1>2, HungUpKeeps, HistoryTypes
     DEF History!TypeOK, History!Messages, SavedMessages, TurnRecords, HistoryRows, ChatStates
<1>4. \A n \in History!Turns : GoesOn(n)
  BY <1>0, <1>1, HungUpKeeps DEF GoesOn, SameRequest
<1>5. PageKeeps
  BY <1>2 DEF PageKeeps
<1>6. clock <= clock'
  BY <1>0, <1>1, HistoryFields
<1>. QED  BY <1>1, <1>3, <1>4, <1>5, <1>6, HistoryGoesOn

\* AbortButton, NewChat and loadHistorySession.
LEMMA HistoryLeaves ==
  ASSUME HistoryInv,
         History!AbortButton \/ History!NewChat \/ \E s \in History!Streams : History!LoadHistory(s)
  PROVE  HistoryInv'
<1>0. History!TypeOK
  BY DEF HistoryInv
<1>1. chat \in ChatStates
  BY <1>0, HistoryTypes
<1>2. CASE History!AbortButton
  BY <1>1, <1>2, HistoryAbort DEF History!AbortButton
<1>3. CASE History!NewChat
  <2>. DEFINE p == [chat EXCEPT !.session = 0, !.messages = <<>>, !.view = "live", !.failed = FALSE]
  <2>1. <<>> \in SavedMessages
    BY DEF SavedMessages
  <2>2. p \in ChatStates /\ p.session = 0
    <3>1. 0 \in 0..MaxTurns /\ "live" \in {"live", "history"} /\ FALSE \in BOOLEAN
      BY PlatformAssumption
    <3>2. PICK a \in ChatStates : a = [chat EXCEPT !.session = 0] /\ a.session = 0
      BY <1>1, <3>1, PageFields, Zenon
    <3>3. PICK b \in ChatStates : b = [a EXCEPT !.messages = <<>>] /\ b.session = a.session
      BY <2>1, <3>2, PageFields, Zenon
    <3>4. PICK c \in ChatStates : c = [b EXCEPT !.view = "live"] /\ c.session = b.session
      BY <3>1, <3>3, PageFields, Zenon
    <3>5. p = [c EXCEPT !.failed = FALSE]
      BY <3>2, <3>3, <3>4, Zenon
    <3>. HIDE DEF p
    <3>6. p \in ChatStates /\ p.session = c.session
      BY <3>1, <3>5, PageFields, Zenon
    <3>. QED  BY <3>2, <3>3, <3>4, <3>6
  <2>. QED  BY <1>3, <2>2, HistoryAbort DEF History!NewChat
<1>4. ASSUME NEW s \in History!Streams, History!LoadHistory(s) PROVE HistoryInv'
  <2>1. PICK ms \in SavedMessages : ms = rows[History!Shown(s)].messages
    BY <1>0, ShownNewest, HistoryFields
  <2>. DEFINE p == [chat EXCEPT !.session = 0, !.messages = ms, !.view = "history",
                                !.failed = FALSE]
  <2>2. p \in ChatStates /\ p.session = 0
    <3>1. 0 \in 0..MaxTurns /\ "history" \in {"live", "history"} /\ FALSE \in BOOLEAN
      BY PlatformAssumption
    <3>2. PICK a \in ChatStates : a = [chat EXCEPT !.session = 0] /\ a.session = 0
      BY <1>1, <3>1, PageFields, Zenon
    <3>3. PICK b \in ChatStates : b = [a EXCEPT !.messages = ms] /\ b.session = a.session
      BY <3>2, PageFields, Zenon
    <3>4. PICK c \in ChatStates : c = [b EXCEPT !.view = "history"] /\ c.session = b.session
      BY <3>1, <3>3, PageFields, Zenon
    <3>5. p = [c EXCEPT !.failed = FALSE]
      BY <3>2, <3>3, <3>4, Zenon
    <3>. HIDE DEF p
    <3>6. p \in ChatStates /\ p.session = c.session
      BY <3>1, <3>5, PageFields, Zenon
    <3>. QED  BY <3>2, <3>3, <3>4, <3>6
  <2>3. History!Abort(p)
    BY <1>4, <2>1 DEF History!LoadHistory
  <2>. QED  BY <2>2, <2>3, HistoryAbort
<1>. QED  BY <1>2, <1>3, <1>4

\* The page or the server changes one turn, which goes on.
LEMMA HistoryOneTurn ==
  ASSUME HistoryInv, NEW n \in History!Turns, NEW q \in TurnRecords,
         turn' = [turn EXCEPT ![n] = q], GoesOn(n), PageKeeps, chat' \in ChatStates,
         rows' = rows, clock' = clock
  PROVE  HistoryInv'
<1>0. History!TypeOK
  BY DEF HistoryInv
<1>1. /\ turn \in [History!Turns -> TurnRecords] /\ rows \in Seq(HistoryRows)
      /\ clock \in 0..MaxTicks
  BY <1>0, HistoryTypes
<1>2. History!TypeOK'
  <2>1. turn' \in [History!Turns -> TurnRecords]
    BY <1>1
  <2>. QED  BY <1>1, <2>1
            DEF History!TypeOK, History!Messages, SavedMessages, TurnRecords, HistoryRows, ChatStates
<1>3. ASSUME NEW m \in History!Turns, m # n PROVE GoesOn(m)
  <2>1. turn'[m] = turn[m]
    BY <1>1, <1>3
  <2>. QED  BY <2>1 DEF GoesOn, SameRequest
<1>4. clock <= clock'
  BY <1>1
<1>. QED  BY <1>2, <1>3, <1>4, HistoryGoesOn

\* What a turn has been asked with.
Same(q, c) ==
  /\ q.session = c.session /\ q.payload = c.payload /\ q.asked = c.asked
  /\ q.over = c.over /\ q.coming = c.coming /\ q.repeats = c.repeats

\* A turn of which one field is changed.
LEMMA TurnFields ==
  ASSUME NEW c \in TurnRecords
  PROVE  /\ \A x \in {"off", "streaming", "saving", "saved", "ended"} :
              /\ [c EXCEPT !.pc = x] \in TurnRecords /\ Same([c EXCEPT !.pc = x], c)
              /\ [c EXCEPT !.pc = x].pc = x /\ [c EXCEPT !.pc = x].line = c.line
              /\ [c EXCEPT !.pc = x].told = c.told
         /\ \A x \in {"none", "open", "closing", "cut", "gone"} :
              /\ [c EXCEPT !.line = x] \in TurnRecords /\ Same([c EXCEPT !.line = x], c)
              /\ [c EXCEPT !.line = x].line = x /\ [c EXCEPT !.line = x].pc = c.pc
              /\ [c EXCEPT !.line = x].told = c.told
         /\ \A x \in BOOLEAN :
              /\ [c EXCEPT !.told = x] \in TurnRecords /\ Same([c EXCEPT !.told = x], c)
              /\ [c EXCEPT !.told = x].told = x /\ [c EXCEPT !.told = x].pc = c.pc
              /\ [c EXCEPT !.told = x].line = c.line
BY DEF TurnRecords, Same

\* A turn that goes on to another place and line.
Moved(c, x, y) == [c EXCEPT !.pc = x, !.line = y]

LEMMA TurnMoves ==
  ASSUME NEW c \in TurnRecords, NEW x \in {"off", "streaming", "saving", "saved", "ended"},
         NEW y \in {"none", "open", "closing", "cut", "gone"}
  PROVE  /\ Moved(c, x, y) \in TurnRecords /\ Same(Moved(c, x, y), c)
         /\ Moved(c, x, y).pc = x /\ Moved(c, x, y).line = y /\ Moved(c, x, y).told = c.told
<1>. DEFINE b == [c EXCEPT !.pc = x]
<1>1. b \in TurnRecords /\ b.pc = x /\ b.told = c.told /\ Same(b, c)
  BY DEF TurnRecords, Same
<1>2. Moved(c, x, y) = [b EXCEPT !.line = y]
  BY Zenon DEF Moved
<1>. HIDE DEF b
<1>. DEFINE q == [b EXCEPT !.line = y]
<1>3. q \in TurnRecords /\ q.pc = b.pc /\ q.line = y /\ q.told = b.told /\ Same(q, b)
  BY <1>1 DEF TurnRecords, Same
<1>. HIDE DEF q
<1>4. q \in TurnRecords /\ q.pc = x /\ q.line = y /\ q.told = c.told /\ Same(q, c)
  BY <1>1, <1>3 DEF Same
<1>. QED  BY <1>2, <1>4 DEF q

\* One turn goes on, and what the page has is the same.
LEMMA HistoryMoves ==
  ASSUME HistoryInv, NEW n \in History!Turns,
         NEW x \in {"off", "streaming", "saving", "saved", "ended"},
         NEW y \in {"none", "open", "closing", "cut", "gone"},
         turn' = [turn EXCEPT ![n] = Moved(turn[n], x, y)],
         x # turn[n].pc => turn[n].pc \in {"streaming", "saving"} /\ x \in {"saving", "ended"},
         turn[n].line = "none" => y = "none",
         chat' \in ChatStates, chat'.session = chat.session, chat'.messages = chat.messages,
         rows' = rows, clock' = clock
  PROVE  HistoryInv'
<1>0. History!TypeOK
  BY DEF HistoryInv
<1>1. turn \in [History!Turns -> TurnRecords] /\ turn[n] \in TurnRecords
  BY <1>0, HistoryTypes
<1>2. PICK q \in TurnRecords : /\ q = Moved(turn[n], x, y)
                               /\ q.pc = x /\ q.line = y /\ q.told = turn[n].told
                               /\ Same(q, turn[n])
  BY <1>1, TurnMoves
<1>3. turn' = [turn EXCEPT ![n] = q] /\ turn'[n] = q
  BY <1>1, <1>2
<1>4. GoesOn(n)
  BY <1>2, <1>3 DEF GoesOn, SameRequest, Same
<1>5. PageKeeps
  BY DEF PageKeeps
<1>. QED  BY <1>2, <1>3, <1>4, <1>5, HistoryOneTurn

\* A page that stops streaming.
Stopped(c, f) == [c EXCEPT !.streaming = FALSE, !.failed = f, !.controller = 0]

LEMMA PageStops ==
  ASSUME NEW c \in ChatStates, NEW f \in BOOLEAN
  PROVE  /\ Stopped(c, f) \in ChatStates
         /\ Stopped(c, f).session = c.session /\ Stopped(c, f).messages = c.messages
<1>1. 0 \in 0..MaxTurns /\ FALSE \in BOOLEAN
  BY PlatformAssumption
<1>2. PICK a \in ChatStates : /\ a = [c EXCEPT !.streaming = FALSE]
                              /\ a.session = c.session /\ a.messages = c.messages
  BY <1>1, PageFields, Zenon
<1>3. PICK b \in ChatStates : /\ b = [a EXCEPT !.failed = f]
                              /\ b.session = a.session /\ b.messages = a.messages
  BY PageFields, Zenon
<1>4. PICK d \in ChatStates : /\ d = [b EXCEPT !.controller = 0]
                              /\ d.session = b.session /\ d.messages = b.messages
  <2>1. /\ [b EXCEPT !.controller = 0] \in ChatStates
        /\ [b EXCEPT !.controller = 0].session = b.session
        /\ [b EXCEPT !.controller = 0].messages = b.messages
    BY <1>1, PageFields, ZenonT(30)
  <2>. QED  BY <2>1
<1>5. d = Stopped(c, f)
  BY <1>2, <1>3, <1>4, Zenon DEF Stopped
<1>. QED  BY <1>2, <1>3, <1>4, <1>5

\* One turn goes on to another place.
LEMMA HistoryPlace ==
  ASSUME HistoryInv, NEW n \in History!Turns, NEW x \in {"saving", "ended"},
         turn[n].pc \in {"streaming", "saving"}, turn' = [turn EXCEPT ![n].pc = x],
         chat' = chat, rows' = rows, clock' = clock
  PROVE  HistoryInv'
<1>0. History!TypeOK
  BY DEF HistoryInv
<1>1. chat \in ChatStates /\ turn \in [History!Turns -> TurnRecords] /\ turn[n] \in TurnRecords
  BY <1>0, HistoryTypes
<1>. DEFINE q == [turn[n] EXCEPT !.pc = x]
<1>2. /\ q \in TurnRecords /\ Same(q, turn[n]) /\ q.pc = x
      /\ q.line = turn[n].line /\ q.told = turn[n].told
  <2>1. ASSUME NEW c \in TurnRecords
        PROVE  /\ [c EXCEPT !.pc = x] \in TurnRecords /\ Same([c EXCEPT !.pc = x], c)
               /\ [c EXCEPT !.pc = x].pc = x /\ [c EXCEPT !.pc = x].line = c.line
               /\ [c EXCEPT !.pc = x].told = c.told
    BY DEF TurnRecords, Same
  <2>. QED  BY <1>1, <2>1
<1>. HIDE DEF q
<1>3. turn' = [turn EXCEPT ![n] = q] /\ turn'[n] = q
  BY <1>1 DEF q
<1>4. GoesOn(n) /\ PageKeeps
  BY <1>2, <1>3 DEF GoesOn, SameRequest, Same, PageKeeps
<1>. QED  BY <1>1, <1>2, <1>3, <1>4, HistoryOneTurn

\* The steps of a request that is running.
LEMMA HistoryRuns ==
  ASSUME HistoryInv, NEW n \in History!Turns,
         \/ History!Fails(n) \/ History!Break(n) \/ History!InsertFails(n) \/ History!Unwind(n)
  PROVE  HistoryInv'
<1>0. History!TypeOK
  BY DEF HistoryInv
<1>1. chat \in ChatStates /\ turn \in [History!Turns -> TurnRecords] /\ turn[n] \in TurnRecords
  BY <1>0, HistoryTypes
<1>2. /\ turn[n].pc \in {"off", "streaming", "saving", "saved", "ended"}
      /\ turn[n].line \in {"none", "open", "closing", "cut", "gone"}
  BY <1>1 DEF TurnRecords
<1>3. CASE History!Fails(n)
  <2>1. PICK x \in {turn[n].pc, "ended"} :
          /\ turn[n].pc = "streaming" \/ x = turn[n].pc
          /\ turn' = [turn EXCEPT ![n] = Moved(turn[n], x, "gone")]
    BY <1>3, Zenon DEF History!Fails, Moved
  <2>2. /\ turn[n].line = "open" /\ rows' = rows /\ clock' = clock
        /\ chat' = Stopped(chat, TRUE)
    BY <1>3, Zenon DEF History!Fails, Stopped
  <2>3. chat' \in ChatStates /\ chat'.session = chat.session /\ chat'.messages = chat.messages
    BY <1>1, <2>2, PageStops
  <2>4. x \in {"off", "streaming", "saving", "saved", "ended"}
    BY <1>2
  <2>. QED  BY <2>1, <2>2, <2>3, <2>4, HistoryMoves
<1>4. CASE History!Break(n) \/ History!InsertFails(n)
  BY <1>4, HistoryPlace DEF History!Break, History!InsertFails
<1>5. CASE History!Unwind(n)
  <2>1. /\ turn[n].line = "cut" /\ rows' = rows /\ clock' = clock
        /\ chat' = [chat EXCEPT !.streaming = FALSE, !.controller = 0]
        /\ turn' = [turn EXCEPT ![n].line = "gone"]
    BY <1>5 DEF History!Unwind
  <2>. DEFINE q == [turn[n] EXCEPT !.line = "gone"]
  <2>2. /\ q \in TurnRecords /\ Same(q, turn[n]) /\ q.line = "gone"
        /\ q.pc = turn[n].pc /\ q.told = turn[n].told
    BY <1>1, TurnFields
  <2>. HIDE DEF q
  <2>3. turn' = [turn EXCEPT ![n] = q] /\ turn'[n] = q
    BY <1>1, <2>1 DEF q
  <2>4. /\ chat' \in ChatStates /\ chat'.session = chat.session
        /\ chat'.messages = chat.messages
    <3>1. 0 \in 0..MaxTurns /\ FALSE \in BOOLEAN
      BY PlatformAssumption
    <3>2. PICK a \in ChatStates : /\ a = [chat EXCEPT !.streaming = FALSE]
                                  /\ a.session = chat.session /\ a.messages = chat.messages
      BY <1>1, <3>1, PageFields, Zenon
    <3>3. PICK c \in ChatStates : /\ c = [a EXCEPT !.controller = 0]
                                  /\ c.session = a.session /\ c.messages = a.messages
      BY <3>1, PageFields, Zenon
    <3>4. chat' = c
      BY <2>1, <3>2, <3>3, Zenon
    <3>. QED  BY <3>2, <3>3, <3>4
  <2>5. GoesOn(n) /\ PageKeeps
    BY <2>1, <2>2, <2>3, <2>4 DEF GoesOn, SameRequest, Same, PageKeeps
  <2>. QED  BY <2>1, <2>2, <2>3, <2>4, <2>5, HistoryOneTurn
<1>. QED  BY <1>3, <1>4, <1>5

\* The clock.
LEMMA HistoryTick == ASSUME HistoryInv, History!Tick PROVE HistoryInv'
<1>0. History!TypeOK
  BY DEF HistoryInv
<1>1. /\ clock < MaxTicks /\ clock' = clock + 1 /\ UNCHANGED <<chat, turn, rows>>
      /\ clock \in 0..MaxTicks
  BY <1>0, HistoryFields DEF History!Tick
<1>2. clock' \in 0..MaxTicks /\ clock <= clock'
  BY <1>1, PlatformAssumption
<1>3. History!TypeOK'
  BY <1>0, <1>1, <1>2 DEF History!TypeOK
<1>4. PageKeeps /\ \A n \in History!Turns : GoesOn(n)
  BY <1>1 DEF PageKeeps, GoesOn, SameRequest
<1>. QED  BY <1>1, <1>2, <1>3, <1>4, HistoryGoesOn

\* The answer ends, and the page may hear it.
LEMMA HistoryFinish ==
  ASSUME HistoryInv, NEW n \in History!Turns, History!Finish(n)
  PROVE  HistoryInv'
<1>0. History!TypeOK
  BY DEF HistoryInv
<1>1. chat \in ChatStates /\ turn \in [History!Turns -> TurnRecords] /\ turn[n] \in TurnRecords
  BY <1>0, HistoryTypes
<1>2. turn[n].pc = "streaming" /\ rows' = rows /\ clock' = clock
  BY DEF History!Finish
<1>3. CASE turn' = [turn EXCEPT ![n].pc = "saving"] /\ chat' = chat
  BY <1>2, <1>3, HistoryPlace
<1>. DEFINE Told(c) == [c EXCEPT !.pc = "saving", !.line = "gone", !.told = TRUE]
            heard == Append(chat.messages, <<"answer", n>>)
<1>4. CASE /\ turn' = [turn EXCEPT ![n] = Told(turn[n])]
           /\ chat' = [chat EXCEPT !.messages = heard, !.streaming = FALSE, !.failed = FALSE,
                                   !.controller = 0]
  <2>. DEFINE c == Moved(turn[n], "saving", "gone")
              q == [c EXCEPT !.told = TRUE]
              p == [chat EXCEPT !.messages = heard]
  <2>1. /\ c \in TurnRecords /\ c.pc = "saving" /\ Same(c, turn[n])
    BY <1>1, TurnMoves
  <2>2. Told(turn[n]) = q
    BY Zenon DEF Moved
  <2>. HIDE DEF c
  <2>3. q \in TurnRecords /\ Same(q, c) /\ q.pc = c.pc /\ q.told = TRUE
    BY <2>1, TurnFields
  <2>. HIDE DEF q
  <2>4. Same(q, turn[n]) /\ q.pc = "saving"
    BY <2>1, <2>3 DEF Same
  <2>5. turn' = [turn EXCEPT ![n] = q] /\ turn'[n] = q
    BY <1>1, <1>4, <2>2
  <2>6. heard \in SavedMessages /\ Hears(heard, n)
        /\ \A m \in History!Turns : Hears(chat.messages, m) => Hears(heard, m)
    <3>1. <<"answer", n>> \in {"user", "answer"} \X History!Turns
      OBVIOUS
    <3>. QED  BY <1>0, <3>1, HistoryFields, AppendHears
  <2>7. chat' = Stopped(p, FALSE)
    BY <1>4, Zenon DEF Stopped
  <2>. HIDE DEF heard, Told
  <2>8. p \in ChatStates /\ p.session = chat.session /\ p.messages = heard
    BY <1>1, <2>6, PageFields
  <2>. HIDE DEF p
  <2>9. chat' \in ChatStates /\ chat'.session = chat.session /\ chat'.messages = heard
    BY <2>7, <2>8, PageStops
  <2>10. PageKeeps
    BY <2>6, <2>9 DEF PageKeeps
  <2>11. GoesOn(n)
    BY <1>2, <2>3, <2>4, <2>5, <2>6, <2>9 DEF GoesOn, SameRequest, Same
  <2>. QED  BY <1>2, <2>3, <2>5, <2>9, <2>10, <2>11, HistoryOneTurn
<1>. QED  BY <1>3, <1>4, Zenon DEF History!Finish

\* A request of a session is one of the turns.
LEMMA RequestFits ==
  ASSUME HistoryInv, NEW n \in History!Turns, NEW via \in {"ws", "sse"}, NEW sid \in 1..n,
         NEW payload \in SavedMessages, NEW coming \in SUBSET History!Turns,
         NEW repeats \in 0..MaxTurns
  PROVE  LET q == History!Request(via, sid, payload, coming, repeats) IN
         /\ q \in TurnRecords /\ q.pc = "streaming" /\ ~q.told /\ q.session = sid
         /\ q.payload = payload /\ q.asked = clock /\ q.over = History!Pending
         /\ q.coming = coming /\ q.repeats = repeats
<1>1. clock \in 0..MaxTicks /\ History!Pending \subseteq History!Turns /\ sid \in 0..MaxTurns
  BY HistoryFields, PlatformAssumption DEF HistoryInv, History!Pending, History!Turns
<1>. QED  BY <1>1 DEF History!Request, TurnRecords

\* startChat sends a question with the messages of the page.
LEMMA HistoryStart ==
  ASSUME HistoryInv, NEW n \in History!Turns, NEW payload \in SavedMessages,
         \A m \in History!Turns : Hears(chat.messages, m) => Hears(payload, m),
         History!Start(n, payload), chat' \in ChatStates,
         PageKeeps \/ (chat'.session = n /\ chat.session = 0)
  PROVE  HistoryInv'
<1>0. History!TypeOK
  BY DEF HistoryInv
<1>. DEFINE sid == IF chat.session = 0 THEN n ELSE chat.session
            q == History!Request("ws", sid, payload, History!Streaming, 0)
<1>1. History!Free(n) /\ turn' = [History!HungUp EXCEPT ![n] = q] /\ rows' = rows /\ clock' = clock
  BY DEF History!Start
<1>2. \A m \in History!Turns : Sent(m) <=> m < n
  BY <1>1, FreeIsNext
<1>3. sid \in 1..n
  <2>1. chat.session \in 0..MaxTurns
    BY <1>0, HistoryFields
  <2>2. chat.session # 0 => chat.session \in History!Turns /\ Sent(chat.session)
    BY <2>1 DEF HistoryInv, TurnFits, History!Turns
  <2>. QED  BY <1>2, <2>1, <2>2 DEF History!Turns
<1>4. History!Streaming \in SUBSET History!Turns /\ 0 \in 0..MaxTurns /\ "ws" \in {"ws", "sse"}
  BY PlatformAssumption DEF History!Streaming
<1>. HIDE DEF sid
<1>5. /\ q \in TurnRecords /\ q.pc = "streaming" /\ ~q.told /\ q.session = sid
      /\ q.payload = payload /\ q.asked = clock /\ q.over = History!Pending
      /\ q.coming = History!Streaming /\ q.repeats = 0
  BY <1>3, <1>4, RequestFits
<1>. HIDE DEF q
<1>6. /\ turn' \in [History!Turns -> TurnRecords] /\ turn'[n] = q
      /\ \A m \in History!Turns \ {n} : turn'[m] = History!HungUp[m]
  BY <1>0, <1>1, <1>5, HungUpKeeps
<1>7. History!TypeOK'
  <2>1. rows \in Seq(HistoryRows) /\ clock \in 0..MaxTicks
    BY <1>0, HistoryTypes
  <2>2. rows' \in Seq(HistoryRows) /\ clock' \in 0..MaxTicks
    BY <1>1, <2>1
  <2>3. turn' \in [History!Turns -> TurnRecords] /\ chat' \in ChatStates
    BY <1>6
  <2>. QED  BY <2>2, <2>3
            DEF History!TypeOK, History!Messages, SavedMessages, TurnRecords, HistoryRows, ChatStates
<1>8. \A m \in History!Turns \ {n} :
        /\ SameRequest(m) /\ turn'[m].pc = turn[m].pc /\ turn'[m].told = turn[m].told
        /\ turn[m].line = "none" => turn'[m].line = "none"
  BY <1>0, <1>6, HungUpKeeps DEF SameRequest
<1>9. ASSUME NEW m \in History!Turns, m < n
      PROVE  /\ turn[m].pc = "streaming" => m \in History!Streaming
             /\ turn[m].told /\ turn[m].session = sid => Hears(payload, m)
  <2>1. turn[m].session \in 1..m
    BY <1>2, <1>9 DEF HistoryInv, TurnFits
  <2>2. turn[m].session = sid => sid = chat.session /\ chat.session # 0
    BY <1>9, <2>1 DEF sid, History!Turns
  <2>. QED  BY <2>2 DEF HistoryInv, PageHears, History!Streaming
<1>10. Origin(n)' = n
  BY <1>5, <1>6 DEF Origin
<1>11. turn'[n].repeats < n
  BY <1>5, <1>6 DEF History!Turns
<1>12. \A m \in History!Turns : m < Origin(n)' =>
         /\ turn[m].pc = "streaming" => m \in turn'[n].coming
         /\ turn[m].told /\ turn[m].session = turn'[n].session =>
              m \in turn'[n].coming \/ Hears(turn'[n].payload, m)
  BY <1>5, <1>6, <1>9, <1>10
<1>13. turn'[n].pc = "streaming" /\ ~turn'[n].told /\ turn'[n].session \in 1..n
       /\ turn'[n].asked = clock /\ turn'[n].over = History!Pending
  BY <1>3, <1>5, <1>6
<1>. QED  BY <1>1, <1>7, <1>8, <1>11, <1>12, <1>13, HistoryBegins

\* A question, or one again.
LEMMA HistoryAsks ==
  ASSUME HistoryInv, NEW n \in History!Turns, History!Ask(n) \/ History!Retry(n)
  PROVE  HistoryInv'
<1>0. History!TypeOK
  BY DEF HistoryInv
<1>1. chat \in ChatStates /\ chat.messages \in SavedMessages /\ chat.session \in 0..MaxTurns
  BY <1>0, HistoryTypes, HistoryFields
<1>2. 0 \in 0..MaxTurns /\ n \in 0..MaxTurns
  BY PlatformAssumption DEF History!Turns
<1>3. TRUE \in BOOLEAN /\ FALSE \in BOOLEAN
  OBVIOUS
\* The page of a question that is being answered.
<1>4. ASSUME NEW c \in ChatStates
      PROVE  /\ [c EXCEPT !.streaming = TRUE, !.failed = FALSE, !.controller = 0] \in ChatStates
             /\ [c EXCEPT !.streaming = TRUE, !.failed = FALSE, !.controller = 0].session
                  = c.session
             /\ [c EXCEPT !.streaming = TRUE, !.failed = FALSE, !.controller = 0].messages
                  = c.messages
  <2>1. PICK a \in ChatStates : /\ a = [c EXCEPT !.streaming = TRUE]
                                /\ a.session = c.session /\ a.messages = c.messages
    BY <1>3, PageFields, Zenon
  <2>2. PICK b \in ChatStates : /\ b = [a EXCEPT !.failed = FALSE]
                                /\ b.session = a.session /\ b.messages = a.messages
    BY <1>3, PageFields, Zenon
  <2>3. PICK d \in ChatStates : /\ d = [b EXCEPT !.controller = 0]
                                /\ d.session = b.session /\ d.messages = b.messages
    <3>1. /\ [b EXCEPT !.controller = 0] \in ChatStates
          /\ [b EXCEPT !.controller = 0].session = b.session
          /\ [b EXCEPT !.controller = 0].messages = b.messages
      BY <1>2, PageFields, ZenonT(30)
    <3>. QED  BY <3>1
  <2>4. d = [c EXCEPT !.streaming = TRUE, !.failed = FALSE, !.controller = 0]
    BY <2>1, <2>2, <2>3, Zenon
  <2>5. d.session = c.session /\ d.messages = c.messages
    BY <2>1, <2>2, <2>3
  <2>. QED  BY <2>4, <2>5, Zenon
<1>5. CASE History!Ask(n)
  <2>. DEFINE payload == Append(chat.messages, <<"user", n>>)
              s == IF chat.session = 0 THEN n ELSE chat.session
              a == [chat EXCEPT !.session = s]
              b == [a EXCEPT !.messages = payload]
              d == [b EXCEPT !.streaming = TRUE, !.failed = FALSE, !.controller = 0]
  <2>1. /\ payload \in SavedMessages
        /\ \A m \in History!Turns : Hears(chat.messages, m) => Hears(payload, m)
    <3>1. <<"user", n>> \in {"user", "answer"} \X History!Turns
      OBVIOUS
    <3>. QED  BY <1>1, <3>1, AppendHears
  <2>2. History!Start(n, payload) /\ chat' = d
    BY <1>5, Zenon DEF History!Ask
  <2>3. s \in 0..MaxTurns
    BY <1>1, <1>2
  <2>. HIDE DEF payload, s
  <2>4. a \in ChatStates /\ a.session = s
    BY <1>1, <2>3, PageFields
  <2>. HIDE DEF a
  <2>5. b \in ChatStates /\ b.session = a.session /\ b.messages = payload
    BY <2>1, <2>4, PageFields
  <2>. HIDE DEF b
  <2>6. d \in ChatStates /\ d.session = b.session /\ d.messages = b.messages
    BY <1>4, <2>5, Zenon
  <2>. HIDE DEF d
  <2>7. chat' \in ChatStates /\ chat'.session = s /\ chat'.messages = payload
    BY <2>2, <2>4, <2>5, <2>6
  <2>8. PageKeeps \/ (chat'.session = n /\ chat.session = 0)
    BY <2>1, <2>7 DEF PageKeeps, s
  <2>. QED  BY <2>1, <2>2, <2>7, <2>8, HistoryStart
<1>6. CASE History!Retry(n)
  <2>. DEFINE d == [chat EXCEPT !.streaming = TRUE, !.failed = FALSE, !.controller = 0]
  <2>1. History!Start(n, chat.messages) /\ chat' = d
    BY <1>6, Zenon DEF History!Retry
  <2>2. d \in ChatStates /\ d.session = chat.session /\ d.messages = chat.messages
    BY <1>1, <1>4, Zenon
  <2>. HIDE DEF d
  <2>3. PageKeeps
    BY <2>1, <2>2 DEF PageKeeps
  <2>. QED  BY <1>1, <2>1, <2>2, <2>3, HistoryStart
<1>. QED  BY <1>5, <1>6

\* A request is sent again.
LEMMA HistoryAgain ==
  ASSUME HistoryInv, NEW n \in History!Turns, NEW m \in History!Turns, History!SendAgain(m, n)
  PROVE  HistoryInv'
<1>0. History!TypeOK
  BY DEF HistoryInv
<1>. DEFINE first == IF turn[m].repeats = 0 THEN m ELSE turn[m].repeats
            q == History!Request("sse", turn[m].session, turn[m].payload, turn[m].coming, first)
            g == [turn[m] EXCEPT !.line = "gone"]
<1>1. /\ History!Free(n) /\ turn[m].line # "none" /\ rows' = rows /\ clock' = clock
      /\ chat' = [chat EXCEPT !.controller = n]
      /\ turn' = [turn EXCEPT ![m] = g, ![n] = q]
  BY DEF History!SendAgain
<1>2. \A k \in History!Turns : Sent(k) <=> k < n
  BY <1>1, FreeIsNext
<1>3. Sent(m) /\ m < n /\ m # n
  <2>1. Sent(m)
    BY <1>1 DEF HistoryInv, TurnFits
  <2>. QED  BY <1>2, <2>1 DEF History!Turns
<1>4. turn[m].session \in 1..m /\ turn[m].repeats < m /\ RequestHears(m)
  BY <1>3 DEF HistoryInv, TurnFits
<1>5. /\ chat \in ChatStates /\ turn \in [History!Turns -> TurnRecords]
      /\ rows \in Seq(HistoryRows) /\ clock \in 0..MaxTicks
  BY <1>0, HistoryTypes
<1>6. /\ turn[m].session \in 1..n /\ first \in 0..MaxTurns /\ first # 0 /\ first <= m
      /\ turn[m].payload \in SavedMessages /\ turn[m].coming \in SUBSET History!Turns
  <2>1. turn[m].repeats \in 0..MaxTurns
    BY <1>0, HistoryFields
  <2>2. turn[m].payload \in SavedMessages /\ turn[m].coming \in SUBSET History!Turns
    BY <1>0, HistoryFields
  <2>. QED  BY <1>3, <1>4, <2>1, <2>2 DEF History!Turns
<1>7. first = Origin(m)
  BY DEF Origin
<1>. HIDE DEF first
<1>8. /\ q \in TurnRecords /\ q.pc = "streaming" /\ ~q.told /\ q.session = turn[m].session
      /\ q.payload = turn[m].payload /\ q.asked = clock /\ q.over = History!Pending
      /\ q.coming = turn[m].coming /\ q.repeats = first
  <2>1. "sse" \in {"ws", "sse"}
    OBVIOUS
  <2>. QED  BY <1>6, <2>1, RequestFits
<1>. HIDE DEF q
<1>9. g \in TurnRecords /\ Same(g, turn[m]) /\ g.line = "gone" /\ g.pc = turn[m].pc
      /\ g.told = turn[m].told
  BY <1>5, TurnFields
<1>. HIDE DEF g
<1>10. /\ turn' \in [History!Turns -> TurnRecords] /\ turn'[n] = q /\ turn'[m] = g
       /\ \A k \in History!Turns \ {m, n} : turn'[k] = turn[k]
  BY <1>1, <1>3, <1>5, <1>8, <1>9
<1>11. chat' \in ChatStates /\ chat'.session = chat.session /\ chat'.messages = chat.messages
  <2>1. n \in 0..MaxTurns
    BY PlatformAssumption DEF History!Turns
  <2>. QED  BY <1>1, <1>5, <2>1, PageFields
<1>12. History!TypeOK'
  BY <1>1, <1>5, <1>10, <1>11
     DEF History!TypeOK, History!Messages, SavedMessages, TurnRecords, HistoryRows, ChatStates
<1>13. ASSUME NEW k \in History!Turns \ {n}
       PROVE  /\ SameRequest(k) /\ turn'[k].pc = turn[k].pc /\ turn'[k].told = turn[k].told
              /\ turn[k].line = "none" => turn'[k].line = "none"
  <2>1. CASE k = m
    BY <1>1, <1>9, <1>10, <2>1 DEF SameRequest, Same
  <2>2. CASE k # m
    BY <1>10, <1>13, <2>2 DEF SameRequest
  <2>. QED  BY <2>1, <2>2
<1>14. Origin(n)' = Origin(m)
  BY <1>6, <1>7, <1>8, <1>10 DEF Origin
<1>15. \A k \in History!Turns : k < Origin(n)' =>
         /\ turn[k].pc = "streaming" => k \in turn'[n].coming
         /\ turn[k].told /\ turn[k].session = turn'[n].session =>
              k \in turn'[n].coming \/ Hears(turn'[n].payload, k)
  BY <1>4, <1>8, <1>10, <1>14 DEF RequestHears
<1>16. turn'[n].repeats < n
  BY <1>3, <1>6, <1>8, <1>10 DEF History!Turns
<1>17. PageKeeps
  BY <1>11 DEF PageKeeps
<1>18. turn'[n].pc = "streaming" /\ ~turn'[n].told /\ turn'[n].session \in 1..n
       /\ turn'[n].asked = clock /\ turn'[n].over = History!Pending
  BY <1>6, <1>8, <1>10
<1>. QED  BY <1>1, <1>12, <1>13, <1>15, <1>16, <1>17, <1>18, HistoryBegins

\* Every step keeps the invariant.
LEMMA HistoryNext == HistoryInv /\ [History!Next]_histories => HistoryInv'
<1>. SUFFICES ASSUME HistoryInv, [History!Next]_histories PROVE HistoryInv'
  OBVIOUS
<1>1. CASE UNCHANGED histories
  <2>1. chat' = chat /\ turn' = turn /\ rows' = rows /\ clock' = clock
    BY <1>1 DEF histories
  <2>2. History!TypeOK /\ clock \in 0..MaxTicks
    BY HistoryFields DEF HistoryInv
  <2>3. History!TypeOK'
    BY <2>1, <2>2 DEF History!TypeOK
  <2>4. PageKeeps /\ \A n \in History!Turns : GoesOn(n)
    BY <2>1 DEF PageKeeps, GoesOn, SameRequest
  <2>5. clock <= clock'
    BY <2>1, <2>2
  <2>. QED  BY <2>1, <2>3, <2>4, <2>5, HistoryGoesOn
<1>2. CASE History!Next
  BY <1>2, HistoryAsks, HistoryFinish, HistoryRuns, HistoryInsert, HistoryAgain, HistoryLeaves,
     HistoryTick DEF History!Next
<1>. QED  BY <1>1, <1>2

\* Of the rows that are shown, the invariant says what the history promises.
LEMMA HistoryInvFollows == HistoryInv => History!HistoryKeepsAnswers
<1>. SUFFICES ASSUME HistoryInv, NEW s \in History!Streams, NEW m \in History!Turns,
                     turn[m].pc = "saved", turn[m].session = s, turn[m].told
              PROVE  LET row == rows[History!Shown(s)] IN
                     \/ <<"answer", m>> \in History!Range(row.messages)
                     \/ row.turn \in turn[m].over
                     \/ m \in turn[row.turn].coming
                     \/ turn[row.turn].repeats \in 1..m
  BY DEF History!HistoryKeepsAnswers
<1>0. History!TypeOK
  BY DEF HistoryInv
<1>1. PICK k \in DOMAIN rows : /\ k = History!Shown(s) /\ rows[k].stream = s
                               /\ \A j \in DOMAIN rows : rows[j].stream = s => rows[j].ms <= rows[k].ms
  BY <1>0, ShownNewest
<1>2. PICK n \in History!Turns : n = rows[k].turn
  BY <1>0, HistoryFields
<1>3. PICK i \in DOMAIN rows : rows[i].turn = m
  BY DEF HistoryInv
<1>4. rows[i].ms <= rows[k].ms /\ turn[m].asked < rows[i].ms
  BY <1>1, <1>3 DEF HistoryInv, RowFits
<1>5. /\ turn[n].pc = "saved" /\ turn[n].session = s
      /\ rows[k].messages = Append(turn[n].payload, <<"answer", n>>)
  BY <1>1, <1>2 DEF HistoryInv, RowFits
<1>6. RequestHears(n) /\ EarlierEnded(m) /\ turn[n].repeats \in 0..MaxTurns
  BY <1>0, <1>5, HistoryFields DEF HistoryInv, Sent
<1>7. /\ \A x \in History!Turns : Hears(turn[n].payload, x) => Hears(rows[k].messages, x)
      /\ Hears(rows[k].messages, n)
  <2>1. <<"answer", n>> \in {"user", "answer"} \X History!Turns
    OBVIOUS
  <2>. QED  BY <1>0, <1>5, <2>1, HistoryFields, AppendHears
<1>8. CASE n = m
  BY <1>1, <1>7, <1>8 DEF Hears
<1>9. CASE m < n /\ m < Origin(n)
  BY <1>1, <1>2, <1>5, <1>6, <1>7, <1>9 DEF RequestHears, Hears
<1>10. CASE m < n /\ ~(m < Origin(n))
  BY <1>1, <1>2, <1>6, <1>10 DEF Origin, History!Turns
<1>11. CASE n < m
  <2>1. n \in turn[m].over \/ rows[k].ms <= turn[m].asked
    BY <1>2, <1>6, <1>11 DEF EarlierEnded
  <2>2. rows[k].ms \in Nat /\ rows[i].ms \in Nat /\ turn[m].asked \in Nat
    BY <1>0, HistoryFields
  <2>. QED  BY <1>1, <1>2, <1>4, <2>1, <2>2
<1>12. n = m \/ m < n \/ n < m
  BY DEF History!Turns
<1>. QED  BY <1>8, <1>9, <1>10, <1>11, <1>12

\* A behaviour of the platform is one of the history.
LEMMA JointHistory ==
  [JointNext]_<<part, vars, voice, chatPage, histories, uploads, webhooks, limits, provider,
                adminPages, texts, pages>>
    => [History!Next]_histories
  BY DEF JointNext, Others

\* For any number of requests and milliseconds: the row that the history shows of a
\* session has every answer that was saved for it and that the page had, but for the
\* rows of requests that overlap an answer's, repeat a question of before it, or were
\* asked while it was coming.
THEOREM HistoryKept == JointSpec => []History!HistoryKeepsAnswers
<1>1. JointInit => HistoryInv
  BY HistoryInit DEF JointInit
<1>. QED  BY <1>1, HistoryInvFollows, HistoryNext, JointHistory, PTL DEF JointSpec

-----------------------------------------------------------------------------
(***************************************************************************)
(* ChatPage.  The text of the draft and the queue of characters after it   *)
(* are one stream, which a frame moves along and only a removal of the     *)
(* draft cuts, at its beginning.  Of a delivery that goes on, the stream   *)
(* has a stretch of chunks up to the one that came last; and of one that   *)
(* is done, up to the last chunk of all.  An answer takes the text when    *)
(* nothing is queued.                                                      *)
(***************************************************************************)

Pieces == Page!Runs \X {"ws", "sse"} \X (1..MaxChunks)
PageMessages ==
  [role : {"user", "old", "draft", "answer"}, text : Seq(Pieces), failed : BOOLEAN,
   by : Page!Channels \cup {<<0, "none">>}]
PageRuns == [pc : {"off", "ws", "sse", "draining", "ended"}, ws : {"none", "open", "closing"},
             got : -1..MaxChunks, aborted : BOOLEAN]
PageDrains == [run : Page!Runs, via : {"ws", "sse"}, kind : {"done", "error"}]

\* The messages are typed, and one of them is the draft.
ListFits(ms) ==
  /\ ms \in Seq(PageMessages)
  /\ \A i, j \in DOMAIN ms : Page!IsDraft(ms[i]) /\ Page!IsDraft(ms[j]) => i = j

DraftText(ms) == IF Page!HasDraft(ms) THEN Page!DraftOf(ms).text ELSE <<>>
AnswersOf(ms) == {m \in PageMessages : m.role = "answer" /\ \E i \in DOMAIN ms : ms[i] = m}

\* A text has of a delivery a stretch of chunks that ends with the n-th.
UpTo(text, d, n) ==
  /\ Page!ReachesTo(text, d, n)
  /\ \A i \in DOMAIN text : Page!Channel(text[i]) = d => text[i][3] <= n

\* What a run has delivered by one of its two ways, as long as that may go on.
Open(q, via) == IF via = "ws" THEN q.pc \in {"off", "ws"} ELSE q.pc # "ended"
Delivered(q, via) ==
  IF q.pc = "off" \/ (via = "sse" /\ q.pc = "ws") THEN -1 ELSE q.got
\* A way by which nothing comes any more.
Shut(q, via) == q.pc \notin {"off", "ws"} /\ (via = "sse" => q.pc # "sse")

Stream == DraftText(messages) \o pending

DeliveriesFit ==
  \A r \in Page!Runs, via \in {"ws", "sse"} :
    Open(run[r], via) => UpTo(Stream, <<r, via>>, Delivered(run[r], via))
DrainsFit ==
  \A i \in DOMAIN drains : drains[i].kind = "done" =>
    /\ Shut(run[drains[i].run], drains[i].via)
    /\ UpTo(Stream, <<drains[i].run, drains[i].via>>, MaxChunks)
AnswersAreTaken ==
  \A m \in AnswersOf(messages) :
    /\ m.by \in Page!Channels /\ Shut(run[m.by[1]], m.by[2])
    /\ UpTo(m.text, m.by, MaxChunks)
    /\ \A k \in DOMAIN pending : Page!Channel(pending[k]) # m.by

PageInv == Page!TypeOK /\ DeliveriesFit /\ DrainsFit /\ AnswersAreTaken

-----------------------------------------------------------------------------
\* Texts.  A suffix of a stream has what the stream has.
LEMMA UpToSuffix ==
  ASSUME NEW a \in Seq(Pieces), NEW b \in Seq(Pieces), NEW d, NEW n, UpTo(a \o b, d, n)
  PROVE  UpTo(b, d, n)
<1>. DEFINE c == a \o b
<1>1. /\ Len(a) \in Nat /\ Len(b) \in Nat /\ DOMAIN b = 1..Len(b)
      /\ DOMAIN c = 1..Len(a) + Len(b)
      /\ \A i \in 1..Len(b) : c[i + Len(a)] = b[i]
  <2>1. /\ c \in Seq(Pieces) /\ Len(c) = Len(a) + Len(b)
        /\ \A i \in 1..Len(a) + Len(b) : c[i] = IF i <= Len(a) THEN a[i] ELSE b[i - Len(a)]
    BY ConcatProperties
  <2>. HIDE DEF c
  <2>2. /\ Len(a) \in Nat /\ Len(b) \in Nat /\ DOMAIN b = 1..Len(b)
        /\ DOMAIN c = 1..Len(a) + Len(b)
    BY <2>1
  <2>3. ASSUME NEW i \in 1..Len(b) PROVE c[i + Len(a)] = b[i]
    <3>1. i + Len(a) \in 1..Len(a) + Len(b) /\ ~(i + Len(a) <= Len(a)) /\ i + Len(a) - Len(a) = i
      BY <2>2
    <3>. QED  BY <2>1, <3>1
  <2>. QED  BY <2>2, <2>3
<1>2. UpTo(c, d, n)
  OBVIOUS
<1>. HIDE DEF c
<1>3. \A i \in DOMAIN b : i + Len(a) \in DOMAIN c /\ c[i + Len(a)] = b[i]
  BY <1>1
<1>4. \A i \in DOMAIN b, j \in DOMAIN c : j > i + Len(a) =>
        j - Len(a) \in DOMAIN b /\ j - Len(a) > i /\ c[j] = b[j - Len(a)]
  <2>1. ASSUME NEW i \in DOMAIN b, NEW j \in DOMAIN c, j > i + Len(a)
        PROVE  j - Len(a) \in DOMAIN b /\ j - Len(a) > i /\ c[j] = b[j - Len(a)]
    <3>1. j - Len(a) \in 1..Len(b) /\ j - Len(a) > i /\ (j - Len(a)) + Len(a) = j
      BY <1>1, <2>1
    <3>. QED  BY <1>1, <3>1
  <2>. QED  BY <2>1
<1>5. ASSUME NEW i \in DOMAIN b, Page!Channel(b[i]) = d
      PROVE  /\ b[i][3] <= n
             /\ b[i][3] = n \/ \E j \in DOMAIN b : j > i /\ b[j] = <<d[1], d[2], b[i][3] + 1>>
             /\ \A j \in DOMAIN b : j > i /\ Page!Channel(b[j]) = d => b[j][3] > b[i][3]
  <2>1. i + Len(a) \in DOMAIN c /\ c[i + Len(a)] = b[i]
    BY <1>3
  <2>2. b[i][3] <= n
    BY <1>2, <1>5, <2>1 DEF UpTo
  <2>3. b[i][3] = n \/ \E j \in DOMAIN b : j > i /\ b[j] = <<d[1], d[2], b[i][3] + 1>>
    <3>1. \/ b[i][3] = n
          \/ \E j \in DOMAIN c : j > i + Len(a) /\ c[j] = <<d[1], d[2], b[i][3] + 1>>
      BY <1>2, <1>5, <2>1 DEF UpTo, Page!ReachesTo
    <3>2. ASSUME NEW j \in DOMAIN c, j > i + Len(a), c[j] = <<d[1], d[2], b[i][3] + 1>>
          PROVE  \E k \in DOMAIN b : k > i /\ b[k] = <<d[1], d[2], b[i][3] + 1>>
      BY <1>4, <3>2
    <3>. QED  BY <3>1, <3>2
  <2>4. ASSUME NEW j \in DOMAIN b, j > i, Page!Channel(b[j]) = d PROVE b[j][3] > b[i][3]
    <3>1. j + Len(a) \in DOMAIN c /\ c[j + Len(a)] = b[j] /\ j + Len(a) > i + Len(a)
      BY <1>1, <1>3, <2>4
    <3>. QED  BY <1>2, <1>5, <2>1, <2>4, <3>1 DEF UpTo, Page!ReachesTo
  <2>. QED  BY <2>2, <2>3, <2>4
<1>. QED  BY <1>5 DEF UpTo, Page!ReachesTo

\* A chunk that is appended: the next one of its delivery, and none of another's.
LEMMA UpToAppend ==
  ASSUME NEW a \in Seq(Pieces), NEW c \in Pieces, NEW d, NEW n \in Int, UpTo(a, d, n)
  PROVE  /\ Page!Channel(c) # d => UpTo(Append(a, c), d, n)
         /\ c = <<d[1], d[2], n + 1>> /\ Page!Channel(c) = d => UpTo(Append(a, c), d, n + 1)
<1>. DEFINE b == Append(a, c)
<1>1. /\ Len(a) \in Nat /\ DOMAIN a = 1..Len(a) /\ DOMAIN b = 1..Len(a) + 1
      /\ \A i \in DOMAIN a : b[i] = a[i]
      /\ b[Len(a) + 1] = c
  BY AppendProperties
<1>2. \A i \in DOMAIN a : a[i][3] \in Int
  <2>1. \A i \in DOMAIN a : a[i] \in Pieces
    BY <1>1, ElementOfSeq
  <2>2. \A p \in Pieces : p[3] \in Int
    BY DEF Pieces
  <2>. QED  BY <2>1, <2>2
<1>. HIDE DEF b
<1>3. ASSUME Page!Channel(c) # d PROVE UpTo(b, d, n)
  <2>1. ASSUME NEW i \in DOMAIN b, Page!Channel(b[i]) = d
        PROVE  /\ b[i][3] <= n
               /\ b[i][3] = n \/ \E j \in DOMAIN b : j > i /\ b[j] = <<d[1], d[2], b[i][3] + 1>>
               /\ \A j \in DOMAIN b : j > i /\ Page!Channel(b[j]) = d => b[j][3] > b[i][3]
    <3>1. i \in DOMAIN a /\ b[i] = a[i] /\ Page!Channel(a[i]) = d
      BY <1>1, <1>3, <2>1
    <3>2. b[i][3] <= n
      BY <3>1 DEF UpTo
    <3>3. b[i][3] = n \/ \E j \in DOMAIN a : j > i /\ a[j] = <<d[1], d[2], b[i][3] + 1>>
      BY <3>1 DEF UpTo, Page!ReachesTo
    <3>4. ASSUME NEW j \in DOMAIN b, j > i, Page!Channel(b[j]) = d PROVE b[j][3] > b[i][3]
      <4>1. j \in DOMAIN a /\ b[j] = a[j]
        BY <1>1, <1>3, <3>4
      <4>. QED  BY <3>1, <3>4, <4>1 DEF UpTo, Page!ReachesTo
    <3>. QED  BY <1>1, <3>2, <3>3, <3>4
  <2>. QED  BY <2>1 DEF UpTo, Page!ReachesTo
<1>4. ASSUME c = <<d[1], d[2], n + 1>>, Page!Channel(c) = d PROVE UpTo(b, d, n + 1)
  <2>0. c[3] = n + 1
    BY <1>4
  <2>1. ASSUME NEW i \in DOMAIN b, Page!Channel(b[i]) = d
        PROVE  /\ b[i][3] <= n + 1
               /\ \/ b[i][3] = n + 1
                  \/ \E j \in DOMAIN b : j > i /\ b[j] = <<d[1], d[2], b[i][3] + 1>>
               /\ \A j \in DOMAIN b : j > i /\ Page!Channel(b[j]) = d => b[j][3] > b[i][3]
    <3>1. CASE i = Len(a) + 1
      <4>1. b[i] = c /\ \A j \in DOMAIN b : ~(j > i)
        BY <1>1, <3>1
      <4>. QED  BY <2>0, <4>1
    <3>2. CASE i \in DOMAIN a
      <4>1. b[i] = a[i] /\ Page!Channel(a[i]) = d /\ a[i][3] \in Int
        BY <1>1, <1>2, <2>1, <3>2
      <4>2. b[i][3] <= n
        BY <3>2, <4>1 DEF UpTo
      <4>3. \/ b[i][3] = n
            \/ \E j \in DOMAIN a : j > i /\ a[j] = <<d[1], d[2], b[i][3] + 1>>
        BY <3>2, <4>1 DEF UpTo, Page!ReachesTo
      <4>4. \E j \in DOMAIN b : j > i /\ b[j] = <<d[1], d[2], b[i][3] + 1>>
        <5>1. Len(a) + 1 \in DOMAIN b /\ Len(a) + 1 > i
          BY <1>1, <3>2
        <5>2. CASE b[i][3] = n
          BY <1>1, <1>4, <5>1, <5>2
        <5>. QED  BY <1>1, <4>3, <5>2
      <4>5. ASSUME NEW j \in DOMAIN b, j > i, Page!Channel(b[j]) = d PROVE b[j][3] > b[i][3]
        <5>1. CASE j \in DOMAIN a
          BY <1>1, <3>2, <4>1, <4>5, <5>1 DEF UpTo, Page!ReachesTo
        <5>2. CASE j = Len(a) + 1
          BY <1>1, <2>0, <4>1, <4>2, <5>2
        <5>. QED  BY <1>1, <5>1, <5>2
      <4>. QED  BY <4>1, <4>2, <4>4, <4>5
    <3>. QED  BY <1>1, <2>1, <3>1, <3>2
  <2>. QED  BY <2>1 DEF UpTo, Page!ReachesTo
<1>. QED  BY <1>3, <1>4 DEF b

\* Before the first chunk there is none.
LEMMA UpToNone ==
  ASSUME NEW a \in Seq(Pieces), NEW d
  PROVE  /\ UpTo(a, d, -1) => UpTo(a, d, 0)
         /\ UpTo(a, d, -1) => \A i \in DOMAIN a : Page!Channel(a[i]) # d
         /\ (\A i \in DOMAIN a : Page!Channel(a[i]) # d) => \A n : UpTo(a, d, n)
<1>1. \A i \in DOMAIN a : a[i][3] \in 1..MaxChunks
  <2>1. DOMAIN a = 1..Len(a) /\ Len(a) \in Nat
    OBVIOUS
  <2>2. \A i \in DOMAIN a : a[i] \in Pieces
    BY <2>1, ElementOfSeq
  <2>3. \A p \in Pieces : p[3] \in 1..MaxChunks
    BY DEF Pieces
  <2>. QED  BY <2>2, <2>3
<1>2. UpTo(a, d, -1) => \A i \in DOMAIN a : Page!Channel(a[i]) # d
  BY <1>1 DEF UpTo
<1>3. (\A i \in DOMAIN a : Page!Channel(a[i]) # d) => \A n : UpTo(a, d, n)
  BY DEF UpTo, Page!ReachesTo
<1>. QED  BY <1>2, <1>3

-----------------------------------------------------------------------------
\* Streams.
LEMMA StreamMoves ==
  ASSUME NEW t \in Seq(Pieces), NEW p \in Seq(Pieces)
  PROVE  /\ <<>> \o p = p /\ t \o <<>> = t
         /\ t \o p \in Seq(Pieces)
         /\ \A c \in Pieces : t \o Append(p, c) = Append(t \o p, c)
         /\ p # <<>> => /\ Head(p) \in Pieces /\ Tail(p) \in Seq(Pieces)
                        /\ Append(t, Head(p)) \in Seq(Pieces)
                        /\ Append(t, Head(p)) \o Tail(p) = t \o p
                        /\ (Len(p) > 1 <=> Tail(p) # <<>>)
<1>1. <<>> \o p = p /\ t \o <<>> = t /\ t \o p \in Seq(Pieces)
  BY ConcatEmptySeq, ConcatProperties
<1>2. ASSUME NEW c \in Pieces PROVE t \o Append(p, c) = Append(t \o p, c)
  OBVIOUS
<1>3. ASSUME p # <<>>
      PROVE  /\ Head(p) \in Pieces /\ Tail(p) \in Seq(Pieces)
             /\ Append(t, Head(p)) \in Seq(Pieces)
             /\ Append(t, Head(p)) \o Tail(p) = t \o p
             /\ (Len(p) > 1 <=> Tail(p) # <<>>)
  <2>1. Head(p) \in Pieces /\ Tail(p) \in Seq(Pieces) /\ Len(Tail(p)) = Len(p) - 1
        /\ Len(p) \in Nat \ {0}
    BY <1>3, HeadTailProperties, EmptySeq
  <2>2. Append(t, Head(p)) \in Seq(Pieces)
    BY <2>1
  <2>3. Append(t, Head(p)) \o Tail(p) = t \o p
    <3>. DEFINE h == Append(t, Head(p))
                l == h \o Tail(p)
                r == t \o p
    <3>1. /\ Len(t) \in Nat /\ h \in Seq(Pieces) /\ Len(h) = Len(t) + 1
          /\ \A i \in 1..Len(t) : h[i] = t[i]
          /\ h[Len(t) + 1] = p[1]
      BY <1>3, <2>1, AppendProperties, HeadTailProperties
    <3>2. \A i \in 1..Len(Tail(p)) : Tail(p)[i] = p[i + 1]
      BY <1>3, HeadTailProperties
    <3>3. /\ r \in Seq(Pieces) /\ Len(r) = Len(t) + Len(p)
          /\ \A i \in 1..Len(t) + Len(p) : r[i] = IF i <= Len(t) THEN t[i] ELSE p[i - Len(t)]
      BY ConcatProperties
    <3>. HIDE DEF h, r
    <3>4. /\ l \in Seq(Pieces) /\ Len(l) = Len(h) + Len(Tail(p))
          /\ \A i \in 1..Len(h) + Len(Tail(p)) :
               l[i] = IF i <= Len(h) THEN h[i] ELSE Tail(p)[i - Len(h)]
      BY <2>1, <3>1, ConcatProperties
    <3>. HIDE DEF l
    <3>5. Len(l) = Len(r) /\ Len(r) = Len(t) + Len(p)
      BY <2>1, <3>1, <3>3, <3>4
    <3>6. ASSUME NEW i \in 1..Len(t) + Len(p) PROVE l[i] = r[i]
      <4>1. i \in 1..Len(h) + Len(Tail(p))
        BY <2>1, <3>1
      <4>2. CASE i <= Len(t)
        <5>1. i \in 1..Len(t) /\ i <= Len(h)
          BY <3>1, <4>2
        <5>2. l[i] = h[i] /\ r[i] = t[i]
          BY <3>3, <3>4, <4>1, <4>2, <5>1
        <5>. QED  BY <3>1, <5>1, <5>2
      <4>3. CASE i = Len(t) + 1
        <5>1. i - Len(t) = 1 /\ ~(i <= Len(t)) /\ i <= Len(h)
          BY <3>1, <4>3
        <5>. QED  BY <3>1, <3>3, <3>4, <4>1, <4>3, <5>1
      <4>4. CASE i > Len(t) + 1
        <5>1. /\ i - Len(h) \in 1..Len(Tail(p)) /\ (i - Len(h)) + 1 = i - Len(t)
              /\ ~(i <= Len(h)) /\ ~(i <= Len(t))
          BY <2>1, <3>1, <4>4
        <5>. QED  BY <3>2, <3>3, <3>4, <4>1, <5>1
      <4>. QED  BY <3>1, <4>2, <4>3, <4>4
    <3>7. l = r
      <4>1. \A i \in 1..Len(l) : l[i] = r[i]
        BY <3>5, <3>6
      <4>. QED  BY <3>3, <3>4, <3>5, <4>1, SeqEqual
    <3>. QED  BY <3>7 DEF h, l, r
  <2>4. Len(p) > 1 <=> Tail(p) # <<>>
    <3>1. Tail(p) # <<>> => Len(Tail(p)) \in Nat \ {0}
      BY <2>1, EmptySeq
    <3>2. Tail(p) = <<>> => Len(Tail(p)) = 0
      BY EmptySeq
    <3>. QED  BY <2>1, <3>1, <3>2
  <2>. QED  BY <2>1, <2>2, <2>3, <2>4
<1>. QED  BY <1>1, <1>2, <1>3

-----------------------------------------------------------------------------
\* Lists of messages.
Marked(m, failed) == [m EXCEPT !.failed = failed]
Grown(m, c) == [m EXCEPT !.text = Append(@, c), !.failed = FALSE]
Answered(m, d) == [m EXCEPT !.role = "answer", !.by = <<d.run, d.via>>]

LEMMA MessagesStayTyped ==
  ASSUME NEW m \in PageMessages
  PROVE  /\ \A b \in BOOLEAN : /\ Marked(m, b) \in PageMessages
                               /\ Marked(m, b).role = m.role /\ Marked(m, b).text = m.text
         /\ \A c \in Pieces : /\ Grown(m, c) \in PageMessages
                              /\ Grown(m, c).role = m.role /\ Grown(m, c).text = Append(m.text, c)
         /\ \A d \in PageDrains : /\ Answered(m, d) \in PageMessages
                                  /\ Answered(m, d).role = "answer"
                                  /\ Answered(m, d).text = m.text
                                  /\ Answered(m, d).by = <<d.run, d.via>>
<1>1. ASSUME NEW b \in BOOLEAN
      PROVE  /\ Marked(m, b) \in PageMessages
             /\ Marked(m, b).role = m.role /\ Marked(m, b).text = m.text
  BY DEF Marked, PageMessages
<1>2. ASSUME NEW c \in Pieces
      PROVE  /\ Grown(m, c) \in PageMessages
             /\ Grown(m, c).role = m.role /\ Grown(m, c).text = Append(m.text, c)
  <2>. DEFINE t == Append(m.text, c)
              b == [m EXCEPT !.text = t]
  <2>1. t \in Seq(Pieces)
    BY DEF PageMessages
  <2>2. Grown(m, c) = [b EXCEPT !.failed = FALSE]
    BY Zenon DEF Grown
  <2>. HIDE DEF t
  <2>3. b \in PageMessages /\ b.role = m.role /\ b.text = t
    BY <2>1 DEF PageMessages
  <2>. HIDE DEF b
  <2>4. /\ [b EXCEPT !.failed = FALSE] \in PageMessages
        /\ [b EXCEPT !.failed = FALSE].role = b.role /\ [b EXCEPT !.failed = FALSE].text = b.text
    BY <2>3 DEF PageMessages
  <2>. QED  BY <2>2, <2>3, <2>4 DEF t
<1>3. ASSUME NEW d \in PageDrains
      PROVE  /\ Answered(m, d) \in PageMessages
             /\ Answered(m, d).role = "answer" /\ Answered(m, d).text = m.text
             /\ Answered(m, d).by = <<d.run, d.via>>
  <2>. DEFINE e == <<d.run, d.via>>
              b == [m EXCEPT !.role = "answer"]
  <2>1. e \in Page!Channels
    BY DEF PageDrains, Page!Channels
  <2>2. Answered(m, d) = [b EXCEPT !.by = e]
    BY Zenon DEF Answered
  <2>. HIDE DEF e
  <2>3. b \in PageMessages /\ b.role = "answer" /\ b.text = m.text
    BY DEF PageMessages
  <2>. HIDE DEF b
  <2>4. /\ [b EXCEPT !.by = e] \in PageMessages /\ [b EXCEPT !.by = e].by = e
        /\ [b EXCEPT !.by = e].role = b.role /\ [b EXCEPT !.by = e].text = b.text
    BY <2>1, <2>3 DEF PageMessages
  <2>. QED  BY <2>2, <2>3, <2>4 DEF e
<1>. QED  BY <1>1, <1>2, <1>3

LEMMA DraftIsThere ==
  ASSUME NEW ms, ListFits(ms), Page!HasDraft(ms)
  PROVE  /\ Page!DraftAt(ms) \in DOMAIN ms /\ Page!DraftOf(ms) \in PageMessages
         /\ Page!IsDraft(Page!DraftOf(ms))
         /\ \A i \in DOMAIN ms : Page!IsDraft(ms[i]) => i = Page!DraftAt(ms)
<1>1. Page!DraftAt(ms) \in DOMAIN ms /\ Page!IsDraft(ms[Page!DraftAt(ms)])
  BY Zenon DEF Page!HasDraft, Page!DraftAt
<1>2. DOMAIN ms = 1..Len(ms) /\ ms \in Seq(PageMessages)
  BY LenProperties DEF ListFits
<1>3. ms[Page!DraftAt(ms)] \in PageMessages
  BY <1>1, <1>2, ElementOfSeq
<1>. QED  BY <1>1, <1>3 DEF ListFits, Page!DraftOf

\* The only draft of a list has its text.
LEMMA DraftTextIs ==
  ASSUME NEW ms, ListFits(ms)
  PROVE  /\ DraftText(ms) \in Seq(Pieces)
         /\ \A i \in DOMAIN ms : Page!IsDraft(ms[i]) =>
              Page!HasDraft(ms) /\ Page!DraftOf(ms) = ms[i] /\ DraftText(ms) = ms[i].text
         /\ ~Page!HasDraft(ms) => DraftText(ms) = <<>>
<1>1. ASSUME NEW i \in DOMAIN ms, Page!IsDraft(ms[i])
      PROVE  Page!HasDraft(ms) /\ Page!DraftOf(ms) = ms[i] /\ DraftText(ms) = ms[i].text
  <2>1. Page!HasDraft(ms)
    BY <1>1 DEF Page!HasDraft
  <2>2. i = Page!DraftAt(ms)
    BY <1>1, <2>1, DraftIsThere
  <2>. QED  BY <2>1, <2>2 DEF Page!DraftOf, DraftText
<1>2. DraftText(ms) \in Seq(Pieces)
  <2>1. CASE Page!HasDraft(ms)
    <3>1. Page!DraftOf(ms) \in PageMessages
      BY <2>1, DraftIsThere
    <3>. QED  BY <2>1, <3>1 DEF PageMessages, DraftText
  <2>2. CASE ~Page!HasDraft(ms)
    BY <2>2, EmptySeq DEF DraftText
  <2>. QED  BY <2>1, <2>2
<1>3. ~Page!HasDraft(ms) => DraftText(ms) = <<>>
  BY DEF DraftText
<1>. QED  BY <1>1, <1>2, <1>3

\* A message is put at the end of the list.
LEMMA ListAppends ==
  ASSUME NEW ms, ListFits(ms), NEW x \in PageMessages, Page!IsDraft(x) => ~Page!HasDraft(ms)
  PROVE  /\ ListFits(Append(ms, x))
         /\ DraftText(Append(ms, x)) = IF Page!IsDraft(x) THEN x.text ELSE DraftText(ms)
         /\ x.role # "answer" => AnswersOf(Append(ms, x)) = AnswersOf(ms)
         /\ Page!HasDraft(Append(ms, x)) <=> Page!HasDraft(ms) \/ Page!IsDraft(x)
<1>. DEFINE ns == Append(ms, x)
<1>1. /\ ms \in Seq(PageMessages) /\ ns \in Seq(PageMessages)
      /\ Len(ms) \in Nat /\ DOMAIN ms = 1..Len(ms) /\ DOMAIN ns = 1..Len(ms) + 1
      /\ \A i \in DOMAIN ms : ns[i] = ms[i]
      /\ ns[Len(ms) + 1] = x
  BY AppendProperties DEF ListFits
<1>. HIDE DEF ns
<1>2. \A i \in DOMAIN ns : i \in DOMAIN ms \/ i = Len(ms) + 1
  BY <1>1
<1>3. \A i \in DOMAIN ms : i \in DOMAIN ns
  BY <1>1
<1>4. Len(ms) + 1 \in DOMAIN ns
  BY <1>1
<1>5. ListFits(ns)
  <2>1. ASSUME NEW i \in DOMAIN ns, NEW j \in DOMAIN ns,
               Page!IsDraft(ns[i]), Page!IsDraft(ns[j])
        PROVE  i = j
    BY <1>1, <1>2, <2>1, Zenon DEF ListFits, Page!HasDraft
  <2>. QED  BY <1>1, <2>1 DEF ListFits
<1>6. Page!HasDraft(ns) <=> Page!HasDraft(ms) \/ Page!IsDraft(x)
  BY <1>1, <1>2, <1>3, <1>4, Zenon DEF Page!HasDraft
<1>7. DraftText(ns) = IF Page!IsDraft(x) THEN x.text ELSE DraftText(ms)
  <2>1. CASE Page!IsDraft(x)
    BY <1>1, <1>4, <1>5, <2>1, DraftTextIs
  <2>2. CASE ~Page!IsDraft(x) /\ Page!HasDraft(ms)
    <3>1. /\ Page!DraftAt(ms) \in DOMAIN ms /\ Page!IsDraft(ms[Page!DraftAt(ms)])
          /\ DraftText(ms) = ms[Page!DraftAt(ms)].text
      BY <2>2, DraftIsThere DEF DraftText, Page!DraftOf
    <3>. QED  BY <1>1, <1>3, <1>5, <2>2, <3>1, DraftTextIs
  <2>3. CASE ~Page!IsDraft(x) /\ ~Page!HasDraft(ms)
    BY <1>6, <2>3 DEF DraftText
  <2>. QED  BY <2>1, <2>2, <2>3
<1>8. x.role # "answer" => AnswersOf(ns) = AnswersOf(ms)
  <2>1. ASSUME x.role # "answer", NEW m \in PageMessages, m.role = "answer"
        PROVE  (\E i \in DOMAIN ns : ns[i] = m) <=> (\E i \in DOMAIN ms : ms[i] = m)
    BY <1>1, <1>2, <1>3, <2>1, Zenon
  <2>. QED  BY <2>1 DEF AnswersOf
<1>. QED  BY <1>5, <1>6, <1>7, <1>8 DEF ns

\* Another message takes the draft's place.
LEMMA DraftReplaced ==
  ASSUME NEW ms, ListFits(ms), NEW x, Page!HasDraft(ms) => x \in PageMessages
  PROVE  /\ ListFits(Page!OnDraft(ms, x))
         /\ ~Page!HasDraft(ms) => Page!OnDraft(ms, x) = ms
         /\ Page!HasDraft(ms) /\ Page!IsDraft(x) =>
              /\ DraftText(Page!OnDraft(ms, x)) = x.text /\ Page!HasDraft(Page!OnDraft(ms, x))
              /\ AnswersOf(Page!OnDraft(ms, x)) \subseteq AnswersOf(ms)
         /\ Page!HasDraft(ms) /\ ~Page!IsDraft(x) =>
              /\ DraftText(Page!OnDraft(ms, x)) = <<>>
              /\ AnswersOf(Page!OnDraft(ms, x)) \subseteq AnswersOf(ms) \cup {x}
<1>. DEFINE ns == Page!OnDraft(ms, x)
<1>1. /\ DOMAIN ns = DOMAIN ms
      /\ \A i \in DOMAIN ms : ns[i] = IF Page!IsDraft(ms[i]) THEN x ELSE ms[i]
  BY DEF Page!OnDraft
<1>2. ms \in Seq(PageMessages) /\ DOMAIN ms = 1..Len(ms) /\ Len(ms) \in Nat
  BY LenProperties DEF ListFits
<1>3. ~Page!HasDraft(ms) => ns = ms
  <2>1. ASSUME ~Page!HasDraft(ms) PROVE ns = [i \in DOMAIN ms |-> ms[i]]
    BY <2>1 DEF Page!HasDraft, Page!OnDraft
  <2>2. ms = [i \in DOMAIN ms |-> ms[i]]
    BY <1>2, LenProperties, Zenon
  <2>. QED  BY <2>1, <2>2
<1>4. Page!HasDraft(ms) => ns \in Seq(PageMessages)
  <2>1. ASSUME Page!HasDraft(ms), NEW i \in 1..Len(ms)
        PROVE  (IF Page!IsDraft(ms[i]) THEN x ELSE ms[i]) \in PageMessages
    BY <1>2, <2>1, ElementOfSeq
  <2>. QED  BY <1>2, <2>1, IsASeq DEF Page!OnDraft
<1>. HIDE DEF ns
<1>5. ListFits(ns)
  <2>1. CASE ~Page!HasDraft(ms)
    BY <1>3, <2>1
  <2>2. CASE Page!HasDraft(ms)
    <3>1. ASSUME NEW i \in DOMAIN ns, NEW j \in DOMAIN ns,
                 Page!IsDraft(ns[i]), Page!IsDraft(ns[j])
          PROVE  i = j
      BY <1>1, <3>1, Zenon DEF ListFits
    <3>. QED  BY <1>4, <2>2, <3>1 DEF ListFits
  <2>. QED  BY <2>1, <2>2
<1>6. ASSUME Page!HasDraft(ms), Page!IsDraft(x)
      PROVE  /\ DraftText(ns) = x.text /\ Page!HasDraft(ns)
             /\ AnswersOf(ns) \subseteq AnswersOf(ms)
  <2>1. PICK i \in DOMAIN ms : Page!IsDraft(ms[i])
    BY <1>6 DEF Page!HasDraft
  <2>2. ns[i] = x /\ i \in DOMAIN ns
    BY <1>1, <2>1
  <2>3. x.role # "answer"
    BY <1>6 DEF Page!IsDraft
  <2>4. AnswersOf(ns) \subseteq AnswersOf(ms)
    BY <1>1, <2>3, Zenon DEF AnswersOf
  <2>. QED  BY <1>5, <1>6, <2>2, <2>4, DraftTextIs
<1>7. ASSUME Page!HasDraft(ms), ~Page!IsDraft(x)
      PROVE  DraftText(ns) = <<>> /\ AnswersOf(ns) \subseteq AnswersOf(ms) \cup {x}
  <2>1. ~Page!HasDraft(ns)
    BY <1>1, <1>7 DEF Page!HasDraft
  <2>2. AnswersOf(ns) \subseteq AnswersOf(ms) \cup {x}
    BY <1>1, Zenon DEF AnswersOf
  <2>. QED  BY <2>1, <2>2 DEF DraftText
<1>. QED  BY <1>3, <1>5, <1>6, <1>7 DEF ns

LEMMA NewMessages ==
  /\ Page!User \in PageMessages /\ Page!User.role = "user"
  /\ Page!Old \in PageMessages /\ Page!Old.role = "old"
  /\ \A t \in Seq(Pieces) :
       Page!Draft(t) \in PageMessages /\ Page!Draft(t).role = "draft" /\ Page!Draft(t).text = t
<1>1. <<>> \in Seq(Pieces)
  BY EmptySeq
<1>2. Page!User \in PageMessages /\ Page!User.role = "user"
  BY <1>1 DEF PageMessages, Page!User
<1>3. Page!Old \in PageMessages /\ Page!Old.role = "old"
  BY <1>1 DEF PageMessages, Page!User, Page!Old
<1>4. ASSUME NEW t \in Seq(Pieces)
      PROVE  Page!Draft(t) \in PageMessages /\ Page!Draft(t).role = "draft"
             /\ Page!Draft(t).text = t
  <2>. DEFINE b == [Page!User EXCEPT !.role = "draft"]
  <2>1. Page!Draft(t) = [b EXCEPT !.text = t]
    BY Zenon DEF Page!Draft
  <2>2. b \in PageMessages /\ b.role = "draft"
    BY <1>2 DEF PageMessages
  <2>. HIDE DEF b
  <2>. QED  BY <2>1, <2>2 DEF PageMessages
<1>. QED  BY <1>2, <1>3, <1>4

LEMMA DraftEnsured ==
  ASSUME NEW ms, ListFits(ms)
  PROVE  /\ ListFits(Page!EnsureDraft(ms)) /\ Page!HasDraft(Page!EnsureDraft(ms))
         /\ DraftText(Page!EnsureDraft(ms)) = DraftText(ms)
         /\ AnswersOf(Page!EnsureDraft(ms)) = AnswersOf(ms)
<1>1. CASE Page!HasDraft(ms)
  BY <1>1 DEF Page!EnsureDraft
<1>2. CASE ~Page!HasDraft(ms)
  <2>. DEFINE x == Page!Draft(<<>>)
  <2>1. x \in PageMessages /\ x.role = "draft" /\ x.text = <<>> /\ Page!IsDraft(x)
    BY NewMessages, EmptySeq DEF Page!IsDraft
  <2>2. Page!EnsureDraft(ms) = Append(ms, x) /\ DraftText(ms) = <<>>
    BY <1>2 DEF Page!EnsureDraft, DraftText
  <2>. HIDE DEF x
  <2>. QED  BY <1>2, <2>1, <2>2, ListAppends
<1>. QED  BY <1>1, <1>2

\* The text of the draft goes with it.
LEMMA DraftRemoved ==
  ASSUME NEW ms, ListFits(ms)
  PROVE  /\ ListFits(Page!WithoutDraft(ms)) /\ ~Page!HasDraft(Page!WithoutDraft(ms))
         /\ AnswersOf(Page!WithoutDraft(ms)) \subseteq AnswersOf(ms)
<1>1. CASE ~Page!HasDraft(ms)
  BY <1>1 DEF Page!WithoutDraft
<1>2. CASE Page!HasDraft(ms)
  <2>. DEFINE k == Page!DraftAt(ms)
              ns == Page!WithoutDraft(ms)
  <2>1. /\ k \in DOMAIN ms /\ ms \in Seq(PageMessages) /\ DOMAIN ms = 1..Len(ms)
        /\ Len(ms) \in Nat /\ k \in 1..Len(ms)
        /\ \A i \in DOMAIN ms : Page!IsDraft(ms[i]) => i = k
    BY <1>2, DraftIsThere, LenProperties DEF ListFits
  <2>. DEFINE lo == SubSeq(ms, 1, k - 1)
              hi == SubSeq(ms, k + 1, Len(ms))
  <2>2. ns = lo \o hi
    BY <1>2 DEF Page!WithoutDraft, Page!RemoveAt
  <2>. HIDE DEF k, ns
  <2>3. k \in Int /\ k - 1 \in Int /\ k + 1 \in Int /\ Len(ms) \in Int /\ k >= 1
    BY <2>1
  <2>4. /\ \A i \in 1..k - 1 : ms[i] \in PageMessages /\ i \in DOMAIN ms /\ i # k
        /\ \A i \in k + 1..Len(ms) : ms[i] \in PageMessages /\ i \in DOMAIN ms /\ i # k
    <3>1. \A i \in DOMAIN ms : ms[i] \in PageMessages
      BY <2>1, ElementOfSeq
    <3>2. /\ \A i \in 1..k - 1 : i \in DOMAIN ms /\ i # k
          /\ \A i \in k + 1..Len(ms) : i \in DOMAIN ms /\ i # k
      BY <2>1
    <3>. QED  BY <3>1, <3>2
  <2>5. /\ lo \in Seq(PageMessages) /\ hi \in Seq(PageMessages)
        /\ \A i \in 1..Len(lo) : \E j \in DOMAIN ms : j # k /\ lo[i] = ms[j]
        /\ \A i \in 1..Len(hi) : \E j \in DOMAIN ms : j # k /\ hi[i] = ms[j]
    <3>1. /\ lo \in Seq(PageMessages) /\ Len(lo) = k - 1
          /\ \A i \in 1..k - 1 - 1 + 1 : lo[i] = ms[1 + i - 1]
      <4>1. /\ lo \in Seq(PageMessages) /\ Len(lo) = IF 1 <= k - 1 THEN k - 1 - 1 + 1 ELSE 0
            /\ \A i \in 1..k - 1 - 1 + 1 : lo[i] = ms[1 + i - 1]
        BY <2>3, <2>4, SubSeqProperties
      <4>. HIDE DEF lo
      <4>. QED  BY <2>3, <4>1
    <3>2. /\ hi \in Seq(PageMessages)
          /\ Len(hi) = IF k + 1 <= Len(ms) THEN Len(ms) - (k + 1) + 1 ELSE 0
          /\ \A i \in 1..Len(ms) - (k + 1) + 1 : hi[i] = ms[k + 1 + i - 1]
      BY <2>3, <2>4, SubSeqProperties
    <3>. HIDE DEF lo, hi
    <3>3. ASSUME NEW i \in 1..Len(lo) PROVE \E j \in DOMAIN ms : j # k /\ lo[i] = ms[j]
      <4>1. i \in 1..k - 1 /\ i \in 1..k - 1 - 1 + 1 /\ 1 + i - 1 = i
        BY <2>3, <3>1
      <4>2. lo[i] = ms[i] /\ i \in DOMAIN ms /\ i # k
        BY <2>4, <3>1, <4>1
      <4>. QED  BY <4>2
    <3>4. ASSUME NEW i \in 1..Len(hi) PROVE \E j \in DOMAIN ms : j # k /\ hi[i] = ms[j]
      <4>1. /\ i \in 1..Len(ms) - (k + 1) + 1 /\ k + 1 + i - 1 = k + i
            /\ k + i \in k + 1..Len(ms)
        BY <2>3, <3>2
      <4>2. hi[i] = ms[k + i] /\ k + i \in DOMAIN ms /\ k + i # k
        BY <2>4, <3>2, <4>1
      <4>. QED  BY <4>2
    <3>. QED  BY <3>1, <3>2, <3>3, <3>4
  <2>. HIDE DEF lo, hi
  <2>a. /\ ns \in Seq(PageMessages) /\ DOMAIN ns = 1..Len(ns) /\ Len(ns) = Len(lo) + Len(hi)
        /\ Len(lo) \in Nat /\ Len(hi) \in Nat
        /\ \A i \in 1..Len(lo) + Len(hi) :
             ns[i] = IF i <= Len(lo) THEN lo[i] ELSE hi[i - Len(lo)]
    BY <2>2, <2>5, ConcatProperties, LenProperties
  <2>6. ASSUME NEW i \in DOMAIN ns
        PROVE  \E j \in DOMAIN ms : j # k /\ ns[i] = ms[j]
    <3>1. CASE i <= Len(lo)
      <4>1. i \in 1..Len(lo) /\ ns[i] = lo[i]
        BY <2>a, <2>6, <3>1
      <4>. QED  BY <2>5, <4>1
    <3>2. CASE ~(i <= Len(lo))
      <4>1. i - Len(lo) \in 1..Len(hi) /\ ns[i] = hi[i - Len(lo)]
        BY <2>a, <2>6, <3>2
      <4>. QED  BY <2>5, <4>1
    <3>. QED  BY <3>1, <3>2
  <2>7. \A i \in DOMAIN ns : ~Page!IsDraft(ns[i])
    BY <2>1, <2>6
  <2>8. AnswersOf(ns) \subseteq AnswersOf(ms)
    BY <2>6 DEF AnswersOf
  <2>. QED  BY <2>a, <2>7, <2>8 DEF ListFits, Page!HasDraft, ns
<1>. QED  BY <1>1, <1>2

LEMMA DraftMarked ==
  ASSUME NEW ms, ListFits(ms), NEW b \in BOOLEAN,
         NEW ns, ns = Page!OnDraft(ms, Marked(Page!DraftOf(ms), b))
  PROVE  /\ ListFits(ns) /\ DraftText(ns) = DraftText(ms)
         /\ AnswersOf(ns) \subseteq AnswersOf(ms)
<1>. DEFINE m == Page!DraftOf(ms)
            x == Marked(m, b)
<1>1. Page!HasDraft(ms) =>
        m \in PageMessages /\ Page!IsDraft(m) /\ m.text = DraftText(ms)
  BY DraftIsThere DEF DraftText
<1>2. Page!HasDraft(ms) => x \in PageMessages /\ Page!IsDraft(x) /\ x.text = DraftText(ms)
  <2>. HIDE DEF m
  <2>. QED  BY <1>1, MessagesStayTyped DEF Page!IsDraft
<1>3. ns = Page!OnDraft(ms, x)
  OBVIOUS
<1>. HIDE DEF x
<1>. QED  BY <1>2, <1>3, DraftReplaced

LEMMA DraftFails ==
  ASSUME NEW ms, ListFits(ms)
  PROVE  /\ ListFits(Page!DraftError(ms)) /\ DraftText(Page!DraftError(ms)) = DraftText(ms)
         /\ AnswersOf(Page!DraftError(ms)) \subseteq AnswersOf(ms)
<1>1. Page!DraftError(ms) = Page!OnDraft(ms, Marked(Page!DraftOf(ms), TRUE))
  BY Zenon DEF Page!DraftError, Marked
<1>. QED  BY <1>1, DraftMarked

\* The draft becomes an answer, with the text that it has.
LEMMA DraftAnswers ==
  ASSUME NEW ms, ListFits(ms), NEW d \in PageDrains
  PROVE  /\ ListFits(Page!Finalize(ms, d))
         /\ DraftText(Page!Finalize(ms, d)) = <<>>
         /\ \A m \in AnswersOf(Page!Finalize(ms, d)) :
              m \in AnswersOf(ms) \/ (m.text = DraftText(ms) /\ m.by = <<d.run, d.via>>)
<1>. DEFINE dm == Page!DraftOf(ms)
            x == Answered(dm, d)
            ns == Page!Finalize(ms, d)
<1>1. ns = Page!OnDraft(ms, x)
  BY Zenon DEF Page!Finalize, Answered
<1>2. Page!HasDraft(ms) => dm \in PageMessages /\ dm.text = DraftText(ms)
  BY DraftIsThere DEF DraftText
<1>3. Page!HasDraft(ms) => /\ x \in PageMessages /\ ~Page!IsDraft(x)
                           /\ x.text = DraftText(ms) /\ x.by = <<d.run, d.via>>
  <2>. HIDE DEF dm
  <2>. QED  BY <1>2, MessagesStayTyped DEF Page!IsDraft
<1>. HIDE DEF x, ns
<1>4. ListFits(ns)
  BY <1>1, <1>3, DraftReplaced
<1>5. CASE Page!HasDraft(ms)
  <2>1. DraftText(ns) = <<>> /\ AnswersOf(ns) \subseteq AnswersOf(ms) \cup {x}
    BY <1>1, <1>3, <1>5, DraftReplaced
  <2>. QED  BY <1>3, <1>4, <1>5, <2>1 DEF ns
<1>6. CASE ~Page!HasDraft(ms)
  <2>1. ns = ms
    BY <1>1, <1>6, DraftReplaced
  <2>. QED  BY <1>4, <1>6, <2>1 DEF ns, DraftText
<1>. QED  BY <1>5, <1>6

\* A chunk goes over from the queue to the draft.
LEMMA DraftGrows ==
  ASSUME NEW ms, ListFits(ms), NEW c \in Pieces
  PROVE  /\ ListFits(Page!Show(ms, c)) /\ DraftText(Page!Show(ms, c)) = Append(DraftText(ms), c)
         /\ AnswersOf(Page!Show(ms, c)) \subseteq AnswersOf(ms)
<1>. DEFINE ns == Page!Show(ms, c)
<1>1. CASE Page!HasDraft(ms)
  <2>. DEFINE dm == Page!DraftOf(ms)
              x == Grown(dm, c)
  <2>1. dm \in PageMessages /\ Page!IsDraft(dm) /\ dm.text = DraftText(ms)
    BY <1>1, DraftIsThere DEF DraftText
  <2>2. ns = Page!OnDraft(ms, x)
    BY <1>1, Zenon DEF Page!Show, Grown
  <2>3. x \in PageMessages /\ Page!IsDraft(x) /\ x.text = Append(DraftText(ms), c)
    <3>. HIDE DEF dm
    <3>. QED  BY <2>1, MessagesStayTyped DEF Page!IsDraft
  <2>. HIDE DEF x, ns
  <2>4. /\ ListFits(ns) /\ DraftText(ns) = Append(DraftText(ms), c)
        /\ AnswersOf(ns) \subseteq AnswersOf(ms)
    BY <1>1, <2>2, <2>3, DraftReplaced
  <2>. QED  BY <2>4 DEF ns
<1>2. CASE ~Page!HasDraft(ms)
  <2>. DEFINE t == <<c>>
              x == Page!Draft(t)
  <2>1. t \in Seq(Pieces) /\ t = Append(<<>>, c)
    OBVIOUS
  <2>2. ns = Append(ms, x) /\ DraftText(ms) = <<>>
    BY <1>2, Zenon DEF Page!Show, DraftText
  <2>. HIDE DEF t
  <2>3. x \in PageMessages /\ Page!IsDraft(x) /\ x.text = t /\ x.role # "answer"
    BY <2>1, NewMessages DEF Page!IsDraft
  <2>. HIDE DEF x, ns
  <2>4. /\ ListFits(ns) /\ DraftText(ns) = Append(DraftText(ms), c)
        /\ AnswersOf(ns) \subseteq AnswersOf(ms)
    BY <1>2, <2>1, <2>2, <2>3, ListAppends
  <2>. QED  BY <2>4 DEF ns
<1>. QED  BY <1>1, <1>2

\* An answer is an old one, or the draft that a done ended.
TakenBy(ns, ms, ds) ==
  /\ ListFits(ns) /\ DraftText(ns) \in {DraftText(ms), <<>>}
  /\ \A m \in AnswersOf(ns) :
       \/ m \in AnswersOf(ms)
       \/ /\ m.text = DraftText(ms)
          /\ \E d \in ds : d.kind = "done" /\ m.by = <<d.run, d.via>>

LEMMA DrainTakes ==
  ASSUME NEW ms, ListFits(ms), NEW d \in PageDrains
  PROVE  TakenBy(Page!AfterDrain(ms, d), ms, {d})
<1>1. CASE d.kind = "done"
  <2>1. Page!AfterDrain(ms, d) = Page!Finalize(ms, d)
    BY <1>1 DEF Page!AfterDrain
  <2>. QED  BY <1>1, <2>1, DraftAnswers DEF TakenBy
<1>2. CASE d.kind # "done"
  <2>1. Page!AfterDrain(ms, d) = Page!DraftError(ms)
    BY <1>2 DEF Page!AfterDrain
  <2>. QED  BY <2>1, DraftFails DEF TakenBy
<1>. QED  BY <1>1, <1>2

LEMMA DrainsTake ==
  ASSUME NEW ms, ListFits(ms), NEW ds \in Seq(PageDrains)
  PROVE  TakenBy(Page!AfterDrains(ms, ds), ms, {ds[i] : i \in DOMAIN ds})
<1>. DEFINE done == {i \in DOMAIN ds : ds[i].kind = "done"}
            ns == Page!AfterDrains(ms, ds)
<1>1. DOMAIN ds = 1..Len(ds) /\ \A i \in DOMAIN ds : ds[i] \in PageDrains
  BY ElementOfSeq, LenProperties
<1>2. ns = IF ds = <<>> THEN ms
           ELSE IF done = {} THEN Page!DraftError(ms)
           ELSE Page!Finalize(IF Page!Min(done) > 1 THEN Page!DraftError(ms) ELSE ms,
                              ds[Page!Min(done)])
  BY DEF Page!AfterDrains
<1>. HIDE DEF ns
<1>3. CASE ds = <<>>
  BY <1>2, <1>3 DEF TakenBy, ns
<1>4. CASE ds # <<>> /\ done = {}
  BY <1>2, <1>4, DraftFails DEF TakenBy, ns
<1>5. CASE ds # <<>> /\ done # {}
  <2>. DEFINE k == Page!Min(done)
              ms1 == IF k > 1 THEN Page!DraftError(ms) ELSE ms
  <2>1. k \in done
    <3>1. done \in SUBSET Nat
      BY <1>1
    <3>2. \E x \in done : \A y \in done : x <= y
      BY <1>5, <3>1, LeastNat
    <3>. QED  BY <3>2, Zenon DEF Page!Min
  <2>2. k \in DOMAIN ds /\ ds[k] \in PageDrains /\ ds[k].kind = "done"
    BY <1>1, <2>1
  <2>3. ns = Page!Finalize(ms1, ds[k])
    BY <1>2, <1>5
  <2>. HIDE DEF k, done
  <2>4. /\ ListFits(ms1) /\ DraftText(ms1) = DraftText(ms)
        /\ AnswersOf(ms1) \subseteq AnswersOf(ms)
    BY DraftFails
  <2>. HIDE DEF ms1
  <2>. DEFINE d == ds[k]
  <2>. HIDE DEF d
  <2>5. /\ ListFits(ns) /\ DraftText(ns) = <<>>
        /\ \A m \in AnswersOf(ns) :
             m \in AnswersOf(ms1) \/ (m.text = DraftText(ms1) /\ m.by = <<d.run, d.via>>)
    BY <2>2, <2>3, <2>4, DraftAnswers DEF d
  <2>6. d \in {ds[i] : i \in DOMAIN ds} /\ d.kind = "done"
    BY <2>2 DEF d
  <2>7. TakenBy(ns, ms, {ds[i] : i \in DOMAIN ds})
    BY <2>4, <2>5, <2>6, Zenon DEF TakenBy
  <2>. QED  BY <2>7 DEF ns
<1>. QED  BY <1>3, <1>4, <1>5

-----------------------------------------------------------------------------
\* Runs.  What a way has delivered stays so or begins, and no way comes back.
RunGoesOn(q, p) ==
  \A via \in {"ws", "sse"} :
    /\ Open(p, via) =>
         /\ Open(q, via)
         /\ \/ Delivered(p, via) = Delivered(q, via)
            \/ Delivered(q, via) = -1 /\ Delivered(p, via) = 0
    /\ Shut(q, via) => Shut(p, via)
RunsGoOn == /\ run' \in [Page!Runs -> PageRuns]
            /\ \A r \in Page!Runs : RunGoesOn(run[r], run'[r])

Halted(q, w, b) == [q EXCEPT !.ws = w, !.aborted = b]
Ended(q, w) == [q EXCEPT !.pc = "ended", !.ws = w]
Sending(pc0, w) == [pc |-> pc0, ws |-> w, got |-> -1, aborted |-> FALSE]

LEMMA RunHalts ==
  ASSUME NEW q \in PageRuns, NEW w \in {"none", "open", "closing"}, NEW b \in BOOLEAN
  PROVE  /\ Halted(q, w, b) \in PageRuns
         /\ Halted(q, w, b).pc = q.pc /\ Halted(q, w, b).got = q.got
<1>. DEFINE p == [q EXCEPT !.ws = w]
<1>1. Halted(q, w, b) = [p EXCEPT !.aborted = b]
  BY Zenon DEF Halted
<1>2. p \in PageRuns /\ p.pc = q.pc /\ p.got = q.got
  BY DEF PageRuns
<1>. HIDE DEF p
<1>3. /\ [p EXCEPT !.aborted = b] \in PageRuns
      /\ [p EXCEPT !.aborted = b].pc = p.pc /\ [p EXCEPT !.aborted = b].got = p.got
  BY <1>2 DEF PageRuns
<1>. QED  BY <1>1, <1>2, <1>3

LEMMA RunEnds ==
  ASSUME NEW q \in PageRuns, NEW w \in {"none", "open", "closing"}
  PROVE  Ended(q, w) \in PageRuns /\ Ended(q, w).pc = "ended"
<1>. DEFINE p == [q EXCEPT !.pc = "ended"]
<1>1. Ended(q, w) = [p EXCEPT !.ws = w]
  BY Zenon DEF Ended
<1>2. p \in PageRuns /\ p.pc = "ended"
  BY DEF PageRuns
<1>. HIDE DEF p
<1>3. [p EXCEPT !.ws = w] \in PageRuns /\ [p EXCEPT !.ws = w].pc = p.pc
  BY <1>2 DEF PageRuns
<1>. QED  BY <1>1, <1>2, <1>3

\* When a run is asked again by the other way, or for the first time.
LEMMA RunSends ==
  ASSUME NEW q \in PageRuns, NEW w \in {"none", "open", "closing"}
  PROVE  /\ Sending("sse", w) \in PageRuns
         /\ q.pc = "ws" => RunGoesOn(q, Sending("sse", w))
         /\ Sending("ws", "open") \in PageRuns
         /\ q.pc = "off" => RunGoesOn(q, Sending("ws", "open"))
<1>1. \A v : /\ Sending(v, w).pc = v /\ Sending(v, w).got = -1
             /\ Sending(v, "open").pc = v
  BY DEF Sending
<1>2. -1 \in -1..MaxChunks
  BY PlatformAssumption
<1>3. Sending("sse", w) \in PageRuns /\ Sending("ws", "open") \in PageRuns
  BY <1>2 DEF Sending, PageRuns
<1>4. q.pc = "ws" => RunGoesOn(q, Sending("sse", w))
  BY <1>1 DEF RunGoesOn, Open, Delivered, Shut
<1>5. q.pc = "off" => RunGoesOn(q, Sending("ws", "open"))
  BY DEF RunGoesOn, Open, Delivered, Shut, Sending
<1>. QED  BY <1>3, <1>4, <1>5

LEMMA RunsOfPage ==
  ASSUME run \in [Page!Runs -> PageRuns], NEW r \in Page!Runs, NEW q \in PageRuns,
         RunGoesOn(run[r], q), run' = [run EXCEPT ![r] = q]
  PROVE  RunsGoOn /\ run'[r] = q /\ \A s \in Page!Runs \ {r} : run'[s] = run[s]
<1>1. run' \in [Page!Runs -> PageRuns] /\ run'[r] = q
      /\ \A s \in Page!Runs \ {r} : run'[s] = run[s]
  OBVIOUS
<1>2. \A p : RunGoesOn(p, p)
  BY DEF RunGoesOn
<1>3. \A s \in Page!Runs : RunGoesOn(run[s], run'[s])
  <2>1. ASSUME NEW s \in Page!Runs PROVE RunGoesOn(run[s], run'[s])
    <3>1. CASE s = r
      BY <1>1, <3>1
    <3>2. CASE s # r
      BY <1>1, <1>2, <3>2
    <3>. QED  BY <3>1, <3>2
  <2>. QED  BY <2>1
<1>. QED  BY <1>1, <1>3 DEF RunsGoOn

\* abort leaves what was delivered.
LEMMA RunsAreHalted ==
  ASSUME run \in [Page!Runs -> PageRuns]
  PROVE  /\ Page!Aborted \in [Page!Runs -> PageRuns]
         /\ \A r \in Page!Runs : /\ RunGoesOn(run[r], Page!Aborted[r])
                                 /\ Page!Aborted[r].pc = run[r].pc
<1>. DEFINE w(r) == IF r = socketRef /\ run[r].ws = "open" THEN "closing" ELSE run[r].ws
            b(r) == run[r].aborted \/ r = controllerRef
            h(r) == Halted(run[r], w(r), b(r))
<1>1. Page!Aborted = [r \in Page!Runs |-> h(r)]
  BY Zenon DEF Page!Aborted, Halted
<1>2. ASSUME NEW r \in Page!Runs
      PROVE  /\ h(r) \in PageRuns /\ h(r).pc = run[r].pc /\ h(r).got = run[r].got
  <2>1. run[r] \in PageRuns
    OBVIOUS
  <2>2. w(r) \in {"none", "open", "closing"} /\ b(r) \in BOOLEAN
    BY <2>1 DEF PageRuns
  <2>. HIDE DEF w, b
  <2>. QED  BY <2>1, <2>2, RunHalts
<1>. HIDE DEF h
<1>3. ASSUME NEW r \in Page!Runs PROVE RunGoesOn(run[r], h(r))
  BY <1>2 DEF RunGoesOn, Open, Delivered, Shut
<1>. QED  BY <1>1, <1>2, <1>3

-----------------------------------------------------------------------------
\* Steps.
PageTypes ==
  /\ page \in {"chat", "upload"} /\ view \in {"live", "history"}
  /\ ListFits(messages) /\ pending \in Seq(Pieces) /\ drains \in Seq(PageDrains)
  /\ frame = (pending # <<>>) /\ (drains # <<>> => frame)
  /\ socketRef \in {0} \cup Page!Runs /\ controllerRef \in {0} \cup Page!Runs
  /\ streaming \in BOOLEAN
  /\ run \in [Page!Runs -> PageRuns]

LEMMA PageTyped == (Page!TypeOK <=> PageTypes) /\ (Page!TypeOK' <=> PageTypes')
BY Zenon DEF Page!TypeOK, PageTypes, ListFits, Pieces, PageMessages, PageRuns, PageDrains,
             Page!Texts

\* A delivery of which the last chunk has come, and which this step ends.
Completes(d) ==
  /\ d \in PageDrains /\ Open(run[d.run], d.via) /\ Delivered(run[d.run], d.via) = MaxChunks
  /\ Shut(run'[d.run], d.via)

LEMMA StreamIsTyped == PageTypes => DraftText(messages) \in Seq(Pieces) /\ Stream \in Seq(Pieces)
BY DraftTextIs, ConcatProperties DEF PageTypes, Stream

LEMMA CompleteIsUpTo ==
  ASSUME DeliveriesFit, NEW d, Completes(d)
  PROVE  /\ UpTo(Stream, <<d.run, d.via>>, MaxChunks)
         /\ <<d.run, d.via>> \in Page!Channels
<1>1. d.run \in Page!Runs /\ d.via \in {"ws", "sse"}
  BY DEF Completes, PageDrains
<1>2. UpTo(Stream, <<d.run, d.via>>, Delivered(run[d.run], d.via))
  BY <1>1 DEF Completes, DeliveriesFit
<1>. QED  BY <1>1, <1>2 DEF Completes, Page!Channels

\* What a stream has of each delivery fits the runs as they go on.
LEMMA DeliveriesStayFit ==
  ASSUME DeliveriesFit, RunsGoOn, Stream' \in Seq(Pieces),
         \A d, n : UpTo(Stream, d, n) => UpTo(Stream', d, n)
  PROVE  DeliveriesFit'
<1>1. ASSUME NEW r \in Page!Runs, NEW via \in {"ws", "sse"}, Open(run'[r], via)
      PROVE  UpTo(Stream', <<r, via>>, Delivered(run'[r], via))
  <2>1. /\ Open(run[r], via)
        /\ \/ Delivered(run'[r], via) = Delivered(run[r], via)
           \/ Delivered(run[r], via) = -1 /\ Delivered(run'[r], via) = 0
    BY <1>1, Zenon DEF RunsGoOn, RunGoesOn
  <2>2. UpTo(Stream', <<r, via>>, Delivered(run[r], via))
    BY <2>1 DEF DeliveriesFit
  <2>3. CASE Delivered(run'[r], via) = Delivered(run[r], via)
    BY <2>2, <2>3
  <2>4. CASE Delivered(run[r], via) = -1 /\ Delivered(run'[r], via) = 0
    BY <2>2, <2>4, UpToNone
  <2>. QED  BY <2>1, <2>3, <2>4
<1>. QED  BY <1>1, Zenon DEF DeliveriesFit

\* Where nothing is delivered or shown.
LEMMA PageQuiet ==
  ASSUME PageInv, PageTypes', RunsGoOn, pending' = pending,
         DraftText(messages') \in {DraftText(messages), <<>>},
         \A i \in DOMAIN drains' : drains'[i].kind = "done" =>
           (\E j \in DOMAIN drains : drains'[i] = drains[j]) \/ Completes(drains'[i]),
         \A m \in AnswersOf(messages') :
           \/ m \in AnswersOf(messages)
           \/ /\ pending = <<>> /\ m.text = DraftText(messages)
              /\ \E d : Completes(d) /\ m.by = <<d.run, d.via>>
  PROVE  PageInv'
<1>0. PageTypes /\ DeliveriesFit /\ DrainsFit /\ AnswersAreTaken
  BY PageTyped DEF PageInv
<1>1. /\ DraftText(messages) \in Seq(Pieces) /\ pending \in Seq(Pieces) /\ pending' = pending
      /\ Stream = DraftText(messages) \o pending /\ Stream \in Seq(Pieces)
      /\ Stream' = DraftText(messages') \o pending
  BY <1>0, StreamIsTyped DEF Stream, PageTypes
<1>2. Stream' \in Seq(Pieces) /\ \A d, n : UpTo(Stream, d, n) => UpTo(Stream', d, n)
  <2>1. CASE DraftText(messages') = DraftText(messages)
    BY <1>1, <2>1
  <2>2. CASE DraftText(messages') = <<>>
    <3>1. Stream' = pending
      BY <1>1, <2>2, StreamMoves
    <3>. QED  BY <1>1, <3>1, UpToSuffix
  <2>. QED  BY <2>1, <2>2
<1>3. \A d \in PageDrains : Shut(run[d.run], d.via) => Shut(run'[d.run], d.via)
  <2>1. \A d \in PageDrains : d.run \in Page!Runs /\ d.via \in {"ws", "sse"}
    BY DEF PageDrains
  <2>. QED  BY <2>1, Zenon DEF RunsGoOn, RunGoesOn
<1>4. DeliveriesFit'
  BY <1>0, <1>2, DeliveriesStayFit
<1>5. DrainsFit'
  <2>1. ASSUME NEW i \in DOMAIN drains', drains'[i].kind = "done"
        PROVE  /\ Shut(run'[drains'[i].run], drains'[i].via)
               /\ UpTo(Stream', <<drains'[i].run, drains'[i].via>>, MaxChunks)
    <3>1. CASE \E j \in DOMAIN drains : drains'[i] = drains[j]
      <4>1. PICK j \in DOMAIN drains : drains'[i] = drains[j]
        BY <3>1
      <4>2. drains[j] \in PageDrains
        BY <1>0, <4>1, ElementOfSeq, LenProperties DEF PageTypes
      <4>3. /\ Shut(run[drains[j].run], drains[j].via)
            /\ UpTo(Stream, <<drains[j].run, drains[j].via>>, MaxChunks)
        BY <1>0, <2>1, <4>1 DEF DrainsFit
      <4>. QED  BY <1>2, <1>3, <4>1, <4>2, <4>3
    <3>2. CASE Completes(drains'[i])
      BY <1>0, <1>2, <3>2, CompleteIsUpTo DEF Completes
    <3>. QED  BY <2>1, <3>1, <3>2
  <2>. QED  BY <2>1, Zenon DEF DrainsFit
<1>6. AnswersAreTaken'
  <2>1. ASSUME NEW m \in AnswersOf(messages')
        PROVE  /\ m.by \in Page!Channels /\ Shut(run'[m.by[1]], m.by[2])
               /\ UpTo(m.text, m.by, MaxChunks)
               /\ \A k \in DOMAIN pending' : Page!Channel(pending'[k]) # m.by
    <3>1. CASE m \in AnswersOf(messages)
      <4>1. /\ m.by \in Page!Channels /\ Shut(run[m.by[1]], m.by[2])
            /\ UpTo(m.text, m.by, MaxChunks)
            /\ \A k \in DOMAIN pending : Page!Channel(pending[k]) # m.by
        BY <1>0, <3>1 DEF AnswersAreTaken
      <4>2. m.by[1] \in Page!Runs /\ m.by[2] \in {"ws", "sse"}
        BY <4>1 DEF Page!Channels
      <4>3. Shut(run'[m.by[1]], m.by[2])
        BY <4>1, <4>2, Zenon DEF RunsGoOn, RunGoesOn
      <4>. QED  BY <1>1, <4>1, <4>3
    <3>2. ASSUME pending = <<>>, m.text = DraftText(messages), NEW d, Completes(d),
                 m.by = <<d.run, d.via>>
          PROVE  /\ m.by \in Page!Channels /\ Shut(run'[m.by[1]], m.by[2])
                 /\ UpTo(m.text, m.by, MaxChunks)
                 /\ \A k \in DOMAIN pending' : Page!Channel(pending'[k]) # m.by
      <4>1. Stream = m.text
        BY <1>1, <3>2, StreamMoves
      <4>2. UpTo(m.text, m.by, MaxChunks) /\ m.by \in Page!Channels
        BY <1>0, <3>2, <4>1, CompleteIsUpTo
      <4>3. Shut(run'[m.by[1]], m.by[2])
        BY <3>2 DEF Completes
      <4>4. DOMAIN pending' = {}
        BY <3>2
      <4>. QED  BY <4>2, <4>3, <4>4
    <3>. QED  BY <3>1, <3>2
  <2>. QED  BY <2>1, Zenon DEF AnswersAreTaken
<1>. QED  BY <1>4, <1>5, <1>6, PageTyped DEF PageInv

\* handleStreamDone and handleStreamError: at once, or when the queue is empty.
LEMMA PageHandles ==
  ASSUME PageInv, NEW r \in Page!Runs, NEW what \in {"done", "error"}, Page!Handle(r, what),
         what = "done" => Completes([run |-> r, via |-> Page!Via(r), kind |-> what])
  PROVE  /\ ListFits(messages') /\ DraftText(messages') \in {DraftText(messages), <<>>}
         /\ drains' \in Seq(PageDrains)
         /\ frame' = (pending # <<>>) /\ (drains' # <<>> => frame')
         /\ \A i \in DOMAIN drains' : drains'[i].kind = "done" =>
              (\E j \in DOMAIN drains : drains'[i] = drains[j]) \/ Completes(drains'[i])
         /\ \A m \in AnswersOf(messages') :
              \/ m \in AnswersOf(messages)
              \/ /\ pending = <<>> /\ m.text = DraftText(messages)
                 /\ \E d : Completes(d) /\ m.by = <<d.run, d.via>>
<1>. DEFINE e == [run |-> r, via |-> Page!Via(r), kind |-> what]
<1>0. PageTypes
  BY PageTyped DEF PageInv
<1>1. e \in PageDrains /\ e.kind = what
  BY DEF PageDrains, Page!Via
<1>2. /\ Page!Drained => /\ messages' = Page!AfterDrain(messages, e)
                         /\ frame' = frame /\ drains' = drains
      /\ ~Page!Drained => drains' = Append(drains, e) /\ frame' = TRUE /\ messages' = messages
      /\ what = "done" => Completes(e)
  BY DEF Page!Handle
<1>. HIDE DEF e
<1>3. CASE Page!Drained
  <2>1. TakenBy(messages', messages, {e})
    BY <1>0, <1>1, <1>2, <1>3, DrainTakes DEF PageTypes
  <2>2. pending = <<>>
    BY <1>3 DEF Page!Drained
  <2>3. /\ drains' = drains /\ frame' = frame /\ drains \in Seq(PageDrains)
        /\ frame = (pending # <<>>) /\ (drains # <<>> => frame)
    BY <1>0, <1>2, <1>3 DEF PageTypes
  <2>4. \A m \in AnswersOf(messages') :
          \/ m \in AnswersOf(messages)
          \/ /\ m.text = DraftText(messages)
             /\ \E d : Completes(d) /\ m.by = <<d.run, d.via>>
    BY <1>1, <1>2, <2>1, Zenon DEF TakenBy
  <2>. QED  BY <2>1, <2>2, <2>3, <2>4 DEF TakenBy
<1>4. CASE ~Page!Drained
  <2>1. messages' = messages /\ frame' = TRUE /\ drains' = Append(drains, e)
        /\ drains \in Seq(PageDrains) /\ pending # <<>> /\ ListFits(messages)
    BY <1>0, <1>2, <1>4 DEF PageTypes, Page!Drained
  <2>2. drains' \in Seq(PageDrains)
    BY <1>1, <2>1
  <2>3. \A i \in DOMAIN drains' : (i \in DOMAIN drains /\ drains'[i] = drains[i]) \/ drains'[i] = e
    BY <1>1, <2>1, AppendProperties
  <2>4. \A i \in DOMAIN drains' : drains'[i].kind = "done" =>
          (\E j \in DOMAIN drains : drains'[i] = drains[j]) \/ Completes(drains'[i])
    BY <1>1, <1>2, <2>3
  <2>. QED  BY <2>1, <2>2, <2>4
<1>. QED  BY <1>3, <1>4

\* The question, and its button to ask again.
LEMMA PageStarts ==
  ASSUME PageInv, NEW r \in Page!Runs, Page!StartRun(r), ListFits(messages'),
         DraftText(messages') \in {DraftText(messages), <<>>},
         AnswersOf(messages') \subseteq AnswersOf(messages),
         UNCHANGED <<page, view, pending, frame, drains>>
  PROVE  PageInv'
<1>0. PageTypes
  BY PageTyped DEF PageInv
<1>1. /\ run \in [Page!Runs -> PageRuns] /\ run[r].pc = "off"
      /\ run' = [Page!Aborted EXCEPT ![r] = Sending("ws", "open")]
      /\ socketRef' = r /\ controllerRef' = 0 /\ streaming' = TRUE
  BY <1>0, Zenon DEF Page!StartRun, PageTypes, Sending
<1>2. /\ Page!Aborted \in [Page!Runs -> PageRuns]
      /\ \A s \in Page!Runs : RunGoesOn(run[s], Page!Aborted[s])
  BY <1>1, RunsAreHalted
<1>3. Sending("ws", "open") \in PageRuns /\ RunGoesOn(run[r], Sending("ws", "open"))
  <2>1. run[r] \in PageRuns
    BY <1>1
  <2>. QED  BY <1>1, <2>1, RunSends
<1>4. RunsGoOn
  <2>1. /\ run' \in [Page!Runs -> PageRuns] /\ run'[r] = Sending("ws", "open")
        /\ \A s \in Page!Runs \ {r} : run'[s] = Page!Aborted[s]
    BY <1>1, <1>2, <1>3
  <2>2. \A s \in Page!Runs : RunGoesOn(run[s], run'[s])
    BY <1>2, <1>3, <2>1
  <2>. QED  BY <2>1, <2>2 DEF RunsGoOn
<1>5. PageTypes'
  BY <1>0, <1>1, <1>4 DEF PageTypes, RunsGoOn
<1>6. drains' = drains /\ pending' = pending
  OBVIOUS
<1>7. \A i \in DOMAIN drains' : \E j \in DOMAIN drains : drains'[i] = drains[j]
  BY <1>6
<1>. QED  BY <1>4, <1>5, <1>6, <1>7, PageQuiet

LEMMA PageAsk ==
  ASSUME PageInv, NEW r \in Page!Runs, Page!Ask(r)
  PROVE  PageInv'
<1>0. PageTypes
  BY PageTyped DEF PageInv
<1>1. ListFits(messages)
  BY <1>0 DEF PageTypes
<1>2. Page!User \in PageMessages /\ ~Page!IsDraft(Page!User) /\ Page!User.role # "answer"
  BY NewMessages DEF Page!IsDraft
<1>3. /\ ListFits(messages') /\ DraftText(messages') \in {DraftText(messages), <<>>}
      /\ AnswersOf(messages') \subseteq AnswersOf(messages)
  <2>1. CASE page = "upload"
    <3>. DEFINE ms == Append(messages, Page!User)
    <3>1. /\ ListFits(ms) /\ DraftText(ms) = DraftText(messages)
          /\ AnswersOf(ms) = AnswersOf(messages)
      BY <1>1, <1>2, ListAppends
    <3>2. messages' = Page!EnsureDraft(ms)
      BY <2>1 DEF Page!Ask
    <3>. HIDE DEF ms
    <3>. QED  BY <3>1, <3>2, DraftEnsured
  <2>2. CASE page # "upload"
    <3>. DEFINE ms == Page!WithoutDraft(messages)
                t == <<>>
                x == Page!Draft(t)
                ns == Append(ms, Page!User)
    <3>1. x \in PageMessages /\ Page!IsDraft(x) /\ x.role # "answer" /\ x.text = <<>>
      BY NewMessages, EmptySeq DEF Page!IsDraft
    <3>2. /\ ListFits(ms) /\ ~Page!HasDraft(ms)
          /\ AnswersOf(ms) \subseteq AnswersOf(messages)
      BY <1>1, DraftRemoved
    <3>3. messages' = ms \o <<Page!User, x>>
      BY <2>2 DEF Page!Ask
    <3>. HIDE DEF ms, x
    <3>4. messages' = Append(ns, x)
      <4>1. ms \in Seq(PageMessages)
        BY <3>2 DEF ListFits
      <4>. DEFINE u == Page!User
      <4>2. u \in PageMessages
        BY <1>2
      <4>3. messages' = ms \o <<u, x>>
        BY <3>3
      <4>4. Append(ns, x) = Append(Append(ms, u), x)
        OBVIOUS
      <4>. HIDE DEF u, ns
      <4>. QED  BY <3>1, <4>1, <4>2, <4>3, <4>4
    <3>5. ListFits(ns) /\ ~Page!HasDraft(ns) /\ AnswersOf(ns) = AnswersOf(ms)
      BY <1>2, <3>2, ListAppends
    <3>. HIDE DEF ns
    <3>6. /\ ListFits(Append(ns, x)) /\ DraftText(Append(ns, x)) = <<>>
          /\ AnswersOf(Append(ns, x)) = AnswersOf(ns)
      BY <3>1, <3>5, ListAppends
    <3>. QED  BY <3>2, <3>4, <3>5, <3>6
  <2>. QED  BY <2>1, <2>2
<1>. QED  BY <1>3, PageStarts DEF Page!Ask

LEMMA PageRetry ==
  ASSUME PageInv, NEW r \in Page!Runs, Page!Retry(r)
  PROVE  PageInv'
<1>1. ListFits(messages)
  BY PageTyped DEF PageInv, PageTypes
<1>2. messages' = Page!OnDraft(messages, Marked(Page!DraftOf(messages), FALSE))
  BY Zenon DEF Page!Retry, Marked
<1>3. /\ ListFits(messages') /\ DraftText(messages') = DraftText(messages)
      /\ AnswersOf(messages') \subseteq AnswersOf(messages)
  BY <1>1, <1>2, DraftMarked
<1>. QED  BY <1>3, PageStarts DEF Page!Retry

\* stop, a new chat, a session of the history.
LEMMA PageAborts ==
  ASSUME PageInv, Page!Abort, ListFits(messages'),
         DraftText(messages') \in {DraftText(messages), <<>>},
         AnswersOf(messages') \subseteq AnswersOf(messages),
         view' \in {"live", "history"}, UNCHANGED <<page, pending, frame, drains>>
  PROVE  PageInv'
<1>0. PageTypes
  BY PageTyped DEF PageInv
<1>1. /\ run' = Page!Aborted /\ socketRef' = 0 /\ controllerRef' = 0 /\ streaming' = FALSE
      /\ run \in [Page!Runs -> PageRuns]
  BY <1>0 DEF Page!Abort, PageTypes
<1>2. RunsGoOn
  BY <1>1, RunsAreHalted DEF RunsGoOn
<1>3. PageTypes'
  BY <1>0, <1>1, <1>2 DEF PageTypes, RunsGoOn
<1>4. drains' = drains /\ pending' = pending
  OBVIOUS
<1>5. \A i \in DOMAIN drains' : \E j \in DOMAIN drains : drains'[i] = drains[j]
  BY <1>4
<1>. QED  BY <1>2, <1>3, <1>4, <1>5, PageQuiet

LEMMA PageLeaves ==
  ASSUME PageInv, Page!AbortButton \/ Page!NewChat \/ Page!LoadHistory
  PROVE  PageInv'
<1>0. PageTypes /\ ListFits(messages)
  BY PageTyped DEF PageInv, PageTypes
<1>1. CASE Page!AbortButton
  <2>1. messages' = messages /\ view' = view /\ view \in {"live", "history"}
    BY <1>0, <1>1 DEF Page!AbortButton, PageTypes
  <2>. QED  BY <1>0, <1>1, <2>1, PageAborts DEF Page!AbortButton
<1>2. CASE Page!NewChat
  <2>. DEFINE ns == <<>>
  <2>1. messages' = ns /\ view' = "live"
    BY <1>2 DEF Page!NewChat
  <2>2. ns \in Seq(PageMessages) /\ DOMAIN ns = {}
    BY EmptySeq
  <2>. HIDE DEF ns
  <2>3. /\ ListFits(ns) /\ DraftText(ns) = <<>> /\ AnswersOf(ns) = {}
    BY <2>2 DEF ListFits, DraftText, AnswersOf, Page!HasDraft
  <2>. QED  BY <1>2, <2>1, <2>3, PageAborts DEF Page!NewChat
<1>3. CASE Page!LoadHistory
  <2>. DEFINE o == Page!Old
              ns == <<o>>
  <2>1. messages' = ns /\ view' = "history"
    BY <1>3 DEF Page!LoadHistory
  <2>2. o \in PageMessages /\ o.role = "old"
    BY NewMessages
  <2>. HIDE DEF o
  <2>3. ns \in Seq(PageMessages) /\ \A i \in DOMAIN ns : ns[i].role = "old"
    BY <2>2
  <2>. HIDE DEF ns
  <2>4. /\ ListFits(ns) /\ DraftText(ns) = <<>> /\ AnswersOf(ns) = {}
    BY <2>3, Zenon DEF ListFits, DraftText, AnswersOf, Page!HasDraft, Page!IsDraft
  <2>. QED  BY <1>3, <2>1, <2>4, PageAborts DEF Page!LoadHistory
<1>. QED  BY <1>1, <1>2, <1>3

\* onStart and the closing of a connection.
LEMMA PageTurns ==
  ASSUME PageInv, NEW r \in Page!Runs,
         Page!OnStart(r) \/ Page!WsClosed(r) \/ Page!SseAborted(r)
  PROVE  PageInv'
<1>0. PageTypes /\ ListFits(messages) /\ run \in [Page!Runs -> PageRuns] /\ run[r] \in PageRuns
  BY PageTyped DEF PageInv, PageTypes
<1>1. /\ ListFits(messages') /\ DraftText(messages') = DraftText(messages)
      /\ AnswersOf(messages') = AnswersOf(messages)
  <2>1. CASE Page!OnStart(r)
    BY <1>0, <2>1, DraftEnsured DEF Page!OnStart
  <2>2. CASE Page!WsClosed(r) \/ Page!SseAborted(r)
    BY <1>0, <2>2 DEF Page!WsClosed, Page!SseAborted
  <2>. QED  BY <2>1, <2>2
<1>2. /\ page' = page /\ view' = view /\ pending' = pending /\ frame' = frame
      /\ drains' = drains
  BY DEF Page!OnStart, Page!WsClosed, Page!SseAborted, Page!refs
<1>3. /\ socketRef' \in {socketRef, 0} /\ controllerRef' \in {controllerRef, r, 0}
      /\ streaming' \in {streaming, FALSE}
  BY Zenon DEF Page!OnStart, Page!WsClosed, Page!SseAborted, Page!refs, Page!Fallback, Page!EndRun
<1>4. PICK q \in PageRuns : RunGoesOn(run[r], q) /\ run' = [run EXCEPT ![r] = q]
  <2>1. CASE Page!OnStart(r)
    <3>. DEFINE q == [run[r] EXCEPT !.got = 0]
    <3>1. run' = [run EXCEPT ![r] = q] /\ run[r].got = -1
      BY <1>0, <2>1 DEF Page!OnStart
    <3>2. 0 \in -1..MaxChunks
      BY PlatformAssumption
    <3>3. q \in PageRuns /\ q.pc = run[r].pc /\ q.got = 0
      BY <1>0, <3>2 DEF PageRuns
    <3>. HIDE DEF q
    <3>4. RunGoesOn(run[r], q)
      BY <3>1, <3>3 DEF RunGoesOn, Open, Delivered, Shut
    <3>. QED  BY <3>1, <3>3, <3>4
  <2>2. CASE Page!WsClosed(r) /\ run[r].pc = "ws"
    <3>. DEFINE q == Sending("sse", "none")
    <3>1. run' = [run EXCEPT ![r] = q]
      BY <2>2, Zenon DEF Page!WsClosed, Page!Fallback, Sending
    <3>2. q \in PageRuns /\ RunGoesOn(run[r], q)
      BY <1>0, <2>2, RunSends
    <3>. QED  BY <3>1, <3>2
  <2>3. CASE Page!WsClosed(r) /\ run[r].pc # "ws"
    <3>. DEFINE q == [run[r] EXCEPT !.ws = "none"]
    <3>1. run' = [run EXCEPT ![r] = q]
      BY <1>0, <2>3 DEF Page!WsClosed
    <3>2. q \in PageRuns /\ q.pc = run[r].pc /\ q.got = run[r].got
      BY <1>0 DEF PageRuns
    <3>. HIDE DEF q
    <3>3. RunGoesOn(run[r], q)
      BY <3>2 DEF RunGoesOn, Open, Delivered, Shut
    <3>. QED  BY <3>1, <3>2, <3>3
  <2>4. CASE Page!SseAborted(r)
    <3>. DEFINE q == [run[r] EXCEPT !.pc = "ended"]
    <3>1. run' = [run EXCEPT ![r] = q]
      BY <1>0, <2>4 DEF Page!SseAborted, Page!EndRun
    <3>2. q \in PageRuns /\ q.pc = "ended"
      BY <1>0 DEF PageRuns
    <3>. HIDE DEF q
    <3>3. RunGoesOn(run[r], q)
      BY <3>2 DEF RunGoesOn, Open, Shut
    <3>. QED  BY <3>1, <3>2, <3>3
  <2>. QED  BY <2>1, <2>2, <2>3, <2>4
<1>5. RunsGoOn
  BY <1>0, <1>4, RunsOfPage
<1>6. PageTypes'
  BY <1>0, <1>1, <1>2, <1>3, <1>5 DEF PageTypes, RunsGoOn
<1>7. \A i \in DOMAIN drains' : \E j \in DOMAIN drains : drains'[i] = drains[j]
  BY <1>2
<1>. QED  BY <1>1, <1>2, <1>5, <1>6, <1>7, PageQuiet

\* A done or an error.
LEMMA PageEnds ==
  ASSUME PageInv, NEW r \in Page!Runs,
         Page!WsDone(r) \/ Page!WsError(r) \/ Page!SseEnds(r)
  PROVE  PageInv'
<1>0. PageTypes /\ run \in [Page!Runs -> PageRuns] /\ run[r] \in PageRuns
  BY PageTyped DEF PageInv, PageTypes
<1>1. /\ page' = page /\ view' = view /\ pending' = pending /\ socketRef' = socketRef
      /\ controllerRef' \in {controllerRef, r, 0} /\ streaming' \in {streaming, FALSE}
  BY Zenon DEF Page!WsDone, Page!WsError, Page!SseEnds, Page!Fallback, Page!EndRun
<1>2. PICK what \in {"done", "error"}, q \in PageRuns :
        /\ Page!Handle(r, what) /\ RunGoesOn(run[r], q) /\ run' = [run EXCEPT ![r] = q]
        /\ what = "done" => /\ Open(run[r], Page!Via(r)) /\ Shut(q, Page!Via(r))
                            /\ Delivered(run[r], Page!Via(r)) = MaxChunks
  <2>1. CASE Page!WsDone(r)
    <3>. DEFINE q == Ended(run[r], "closing")
    <3>1. run' = [run EXCEPT ![r] = q]
      BY <2>1, Zenon DEF Page!WsDone, Ended
    <3>2. q \in PageRuns /\ q.pc = "ended"
      BY <1>0, RunEnds
    <3>. HIDE DEF q
    <3>3. run[r].pc = "ws" /\ run[r].got = MaxChunks /\ Page!Handle(r, "done")
          /\ Page!Via(r) = "ws"
      BY <2>1 DEF Page!WsDone, Page!Via
    <3>4. RunGoesOn(run[r], q)
      BY <3>2 DEF RunGoesOn, Open, Shut
    <3>5. Open(run[r], "ws") /\ Shut(q, "ws") /\ Delivered(run[r], "ws") = MaxChunks
      BY <3>2, <3>3 DEF Open, Shut, Delivered
    <3>. QED  BY <3>1, <3>2, <3>3, <3>4, <3>5
  <2>2. CASE Page!WsError(r)
    <3>. DEFINE q == Sending("sse", "closing")
    <3>1. run' = [run EXCEPT ![r] = q]
      BY <2>2, Zenon DEF Page!WsError, Page!Fallback, Sending
    <3>2. run[r].pc = "ws" /\ Page!Handle(r, "error")
      BY <2>2 DEF Page!WsError
    <3>3. q \in PageRuns /\ RunGoesOn(run[r], q)
      BY <1>0, <3>2, RunSends
    <3>. QED  BY <3>1, <3>2, <3>3
  <2>3. CASE Page!SseEnds(r)
    <3>. DEFINE v == IF Page!Drained THEN "ended" ELSE "draining"
                q == [run[r] EXCEPT !.pc = v]
    <3>1. run' = [run EXCEPT ![r] = q]
      BY <1>0, <2>3 DEF Page!SseEnds, Page!EndRun
    <3>2. v \in {"ended", "draining"}
      OBVIOUS
    <3>. HIDE DEF v
    <3>3. q \in PageRuns /\ q.pc = v /\ q.got = run[r].got
      BY <1>0, <3>2 DEF PageRuns
    <3>. HIDE DEF q
    <3>4. run[r].pc = "sse" /\ Page!Via(r) = "sse"
      BY <2>3 DEF Page!SseEnds, Page!Via
    <3>5. PICK what \in {"done", "error"} :
            Page!Handle(r, what) /\ (what = "done" => run[r].got = MaxChunks)
      BY <2>3, Zenon DEF Page!SseEnds
    <3>6. RunGoesOn(run[r], q)
      BY <3>2, <3>3, <3>4 DEF RunGoesOn, Open, Delivered, Shut
    <3>7. /\ Open(run[r], "sse") /\ Shut(q, "sse")
          /\ Delivered(run[r], "sse") = run[r].got
      BY <3>2, <3>3, <3>4 DEF Open, Shut, Delivered
    <3>. QED  BY <3>1, <3>3, <3>4, <3>5, <3>6, <3>7
  <2>. QED  BY <2>1, <2>2, <2>3
<1>3. RunsGoOn /\ run'[r] = q
  BY <1>0, <1>2, RunsOfPage
<1>4. what = "done" => Completes([run |-> r, via |-> Page!Via(r), kind |-> what])
  BY <1>2, <1>3 DEF Completes, PageDrains, Page!Via
<1>5. /\ ListFits(messages') /\ DraftText(messages') \in {DraftText(messages), <<>>}
      /\ drains' \in Seq(PageDrains)
      /\ frame' = (pending # <<>>) /\ (drains' # <<>> => frame')
      /\ \A i \in DOMAIN drains' : drains'[i].kind = "done" =>
           (\E j \in DOMAIN drains : drains'[i] = drains[j]) \/ Completes(drains'[i])
      /\ \A m \in AnswersOf(messages') :
           \/ m \in AnswersOf(messages)
           \/ /\ pending = <<>> /\ m.text = DraftText(messages)
              /\ \E d : Completes(d) /\ m.by = <<d.run, d.via>>
  BY <1>2, <1>4, PageHandles
<1>6. PageTypes'
  BY <1>0, <1>1, <1>3, <1>5 DEF PageTypes, RunsGoOn
<1>. QED  BY <1>1, <1>3, <1>5, <1>6, PageQuiet

\* A chunk arrives: the next one of a delivery that goes on.
LEMMA PageGets ==
  ASSUME PageInv, NEW r \in Page!Runs, Page!OnChunk(r)
  PROVE  PageInv'
<1>. DEFINE v == Page!Via(r)
            c == <<r, v, run[r].got + 1>>
            q == [run[r] EXCEPT !.got = run[r].got + 1]
<1>0. /\ PageTypes /\ DeliveriesFit /\ DrainsFit /\ AnswersAreTaken
      /\ run \in [Page!Runs -> PageRuns] /\ run[r] \in PageRuns /\ pending \in Seq(Pieces)
  BY PageTyped DEF PageInv, PageTypes
<1>1. /\ run' = [run EXCEPT ![r] = q] /\ pending' = Append(pending, c) /\ frame' = TRUE
      /\ run[r].got \in 0..MaxChunks - 1
      /\ messages' = messages /\ drains' = drains
      /\ UNCHANGED <<page, view, socketRef, controllerRef, streaming>>
  BY <1>0 DEF Page!OnChunk, Page!refs
<1>2. \/ run[r].pc = "ws" /\ v = "ws"
      \/ run[r].pc = "sse" /\ v = "sse"
  BY DEF Page!OnChunk, Page!Delivering, Page!Via
<1>3. run[r].got \in Int /\ run[r].got + 1 \in 1..MaxChunks /\ run[r].got + 1 \in -1..MaxChunks
  <2>1. MaxChunks \in Nat
    BY PlatformAssumption
  <2>. DEFINE g == run[r].got
  <2>2. g \in 0..MaxChunks - 1
    BY <1>1
  <2>. HIDE DEF g
  <2>3. g \in Int /\ g + 1 \in 1..MaxChunks /\ g + 1 \in -1..MaxChunks
    BY <2>1, <2>2
  <2>. QED  BY <2>3 DEF g
<1>4. q \in PageRuns /\ q.pc = run[r].pc /\ q.got = run[r].got + 1
  BY <1>0, <1>3 DEF PageRuns
<1>5. c \in Pieces /\ Page!Channel(c) = <<r, v>>
  BY <1>2, <1>3 DEF Pieces, Page!Channel
<1>. HIDE DEF q
<1>6. /\ run' \in [Page!Runs -> PageRuns] /\ run'[r] = q
      /\ \A s \in Page!Runs \ {r} : run'[s] = run[s]
  BY <1>0, <1>1, <1>4
<1>7. /\ DraftText(messages) \in Seq(Pieces) /\ Stream \in Seq(Pieces)
      /\ Stream' = Append(Stream, c)
  <2>1. DraftText(messages) \in Seq(Pieces) /\ Stream \in Seq(Pieces)
    BY <1>0, StreamIsTyped
  <2>2. Stream' = DraftText(messages) \o Append(pending, c)
    BY <1>1 DEF Stream
  <2>. HIDE DEF c
  <2>3. DraftText(messages) \o Append(pending, c) = Append(DraftText(messages) \o pending, c)
    BY <1>0, <1>5, <2>1, StreamMoves
  <2>. QED  BY <2>1, <2>2, <2>3 DEF Stream
<1>8. UpTo(Stream', <<r, v>>, run[r].got + 1)
  <2>1. UpTo(Stream, <<r, v>>, run[r].got)
    BY <1>0, <1>2 DEF DeliveriesFit, Open, Delivered
  <2>2. c = <<(<<r, v>>)[1], (<<r, v>>)[2], run[r].got + 1>>
    OBVIOUS
  <2>. HIDE DEF c
  <2>. QED  BY <1>3, <1>5, <1>7, <2>1, <2>2, UpToAppend
<1>9. \A d : \A n \in Int : d # <<r, v>> /\ UpTo(Stream, d, n) => UpTo(Stream', d, n)
  <2>. HIDE DEF c
  <2>. QED  BY <1>5, <1>7, UpToAppend
<1>10. \A s \in Page!Runs, via \in {"ws", "sse"} :
         Shut(run[s], via) => Shut(run'[s], via) /\ <<s, via>> # <<r, v>>
  BY <1>2, <1>4, <1>6 DEF Shut
<1>11. MaxChunks \in Int
  BY PlatformAssumption
<1>12. DeliveriesFit'
  <2>1. ASSUME NEW s \in Page!Runs, NEW via \in {"ws", "sse"}, Open(run'[s], via)
        PROVE  UpTo(Stream', <<s, via>>, Delivered(run'[s], via))
    <3>1. CASE s = r /\ via = v
      <4>1. Delivered(run'[s], via) = run[r].got + 1
        BY <1>2, <1>4, <1>6, <3>1 DEF Delivered
      <4>. QED  BY <1>8, <3>1, <4>1
    <3>2. CASE ~(s = r /\ via = v)
      <4>1. Open(run[s], via) /\ Delivered(run'[s], via) = Delivered(run[s], via)
        <5>1. CASE s # r
          BY <1>6, <2>1, <5>1
        <5>2. CASE s = r
          BY <1>2, <1>4, <1>6, <2>1, <3>2, <5>2 DEF Open, Delivered
        <5>. QED  BY <5>1, <5>2
      <4>2. UpTo(Stream, <<s, via>>, Delivered(run[s], via))
        BY <1>0, <4>1 DEF DeliveriesFit
      <4>3. Delivered(run[s], via) \in Int
        <5>1. run[s] \in PageRuns
          BY <1>0
        <5>. QED  BY <5>1 DEF PageRuns, Delivered
      <4>4. <<s, via>> # <<r, v>>
        BY <3>2
      <4>. QED  BY <1>9, <4>1, <4>2, <4>3, <4>4
    <3>. QED  BY <3>1, <3>2
  <2>. QED  BY <2>1, Zenon DEF DeliveriesFit
<1>13. DrainsFit'
  <2>1. ASSUME NEW i \in DOMAIN drains, drains[i].kind = "done"
        PROVE  /\ Shut(run'[drains[i].run], drains[i].via)
               /\ UpTo(Stream', <<drains[i].run, drains[i].via>>, MaxChunks)
    <3>1. drains[i] \in PageDrains
      BY <1>0, ElementOfSeq, LenProperties DEF PageTypes
    <3>2. drains[i].run \in Page!Runs /\ drains[i].via \in {"ws", "sse"}
      BY <3>1 DEF PageDrains
    <3>3. /\ Shut(run[drains[i].run], drains[i].via)
          /\ UpTo(Stream, <<drains[i].run, drains[i].via>>, MaxChunks)
      BY <1>0, <2>1 DEF DrainsFit
    <3>. QED  BY <1>9, <1>10, <1>11, <3>2, <3>3
  <2>. QED  BY <1>1, <2>1, Zenon DEF DrainsFit
<1>14. AnswersAreTaken'
  <2>1. ASSUME NEW m \in AnswersOf(messages)
        PROVE  /\ m.by \in Page!Channels /\ Shut(run'[m.by[1]], m.by[2])
               /\ UpTo(m.text, m.by, MaxChunks)
               /\ \A k \in DOMAIN pending' : Page!Channel(pending'[k]) # m.by
    <3>1. /\ m.by \in Page!Channels /\ Shut(run[m.by[1]], m.by[2])
          /\ UpTo(m.text, m.by, MaxChunks)
          /\ \A k \in DOMAIN pending : Page!Channel(pending[k]) # m.by
      BY <1>0 DEF AnswersAreTaken
    <3>2. m.by[1] \in Page!Runs /\ m.by[2] \in {"ws", "sse"} /\ m.by = <<m.by[1], m.by[2]>>
      BY <3>1 DEF Page!Channels
    <3>3. Shut(run'[m.by[1]], m.by[2]) /\ m.by # <<r, v>>
      BY <1>10, <3>1, <3>2
    <3>4. \A k \in DOMAIN pending' :
            (k \in DOMAIN pending /\ pending'[k] = pending[k]) \/ pending'[k] = c
      <4>. HIDE DEF c
      <4>. QED  BY <1>0, <1>1, <1>5, AppendProperties
    <3>. QED  BY <1>5, <3>1, <3>3, <3>4
  <2>. QED  BY <1>1, <2>1, Zenon DEF AnswersAreTaken
<1>15. PageTypes'
  <2>1. pending' \in Seq(Pieces) /\ pending' # <<>>
    <3>. HIDE DEF c
    <3>. QED  BY <1>0, <1>1, <1>5
  <2>. QED  BY <1>0, <1>1, <1>6, <2>1 DEF PageTypes
<1>. QED  BY <1>12, <1>13, <1>14, <1>15, PageTyped DEF PageInv

\* A frame: the first of the queue goes over to the draft.
LEMMA PageFlushes ==
  ASSUME PageInv, Page!Flush
  PROVE  PageInv'
<1>. DEFINE c == Head(pending)
            sh == Page!Show(messages, c)
            t == Append(DraftText(messages), c)
            ds == {drains[i] : i \in DOMAIN drains}
            resolved == {drains[i].run : i \in {i \in DOMAIN drains : drains[i].via = "sse"}}
<1>0. /\ PageTypes /\ DeliveriesFit /\ DrainsFit /\ AnswersAreTaken /\ ListFits(messages)
      /\ run \in [Page!Runs -> PageRuns] /\ pending \in Seq(Pieces)
      /\ drains \in Seq(PageDrains)
  BY PageTyped DEF PageInv, PageTypes
<1>1. pending # <<>> /\ pending' = Tail(pending)
  BY <1>0 DEF Page!Flush, PageTypes
<1>2. DraftText(messages) \in Seq(Pieces) /\ Stream \in Seq(Pieces)
      /\ Stream = DraftText(messages) \o pending
  BY <1>0, StreamIsTyped DEF Stream
<1>3. /\ c \in Pieces /\ pending' \in Seq(Pieces) /\ t \in Seq(Pieces)
      /\ t \o pending' = Stream /\ (Len(pending) > 1 <=> pending' # <<>>)
  BY <1>0, <1>1, <1>2, StreamMoves
<1>4. ListFits(sh) /\ DraftText(sh) = t /\ AnswersOf(sh) \subseteq AnswersOf(messages)
  <2>. HIDE DEF c
  <2>. QED  BY <1>0, <1>3, DraftGrows
<1>5. /\ Len(pending) > 1 =>
           messages' = sh /\ UNCHANGED <<frame, drains, run, controllerRef, streaming>>
      /\ ~(Len(pending) > 1) =>
           /\ messages' = Page!AfterDrains(sh, drains)
           /\ drains' = <<>> /\ frame' = FALSE
           /\ run' = [r \in Page!Runs |-> IF r \in resolved THEN [run[r] EXCEPT !.pc = "ended"]
                                          ELSE run[r]]
           /\ controllerRef' \in {controllerRef, 0} /\ streaming' \in {streaming, FALSE}
      /\ page' = page /\ view' = view /\ socketRef' = socketRef
  BY DEF Page!Flush
<1>6. RunsGoOn
  <2>. HIDE DEF resolved
  <2>1. \A p : RunGoesOn(p, p)
    BY DEF RunGoesOn
  <2>2. CASE Len(pending) > 1
    BY <1>0, <1>5, <2>1, <2>2 DEF RunsGoOn
  <2>3. CASE ~(Len(pending) > 1)
    <3>1. ASSUME NEW r \in Page!Runs
          PROVE  /\ [run[r] EXCEPT !.pc = "ended"] \in PageRuns
                 /\ RunGoesOn(run[r], [run[r] EXCEPT !.pc = "ended"])
      <4>. DEFINE q == [run[r] EXCEPT !.pc = "ended"]
      <4>1. run[r] \in PageRuns
        BY <1>0
      <4>2. q \in PageRuns /\ q.pc = "ended"
        BY <4>1 DEF PageRuns
      <4>. HIDE DEF q
      <4>3. RunGoesOn(run[r], q)
        BY <4>2 DEF RunGoesOn, Open, Shut
      <4>. QED  BY <4>2, <4>3 DEF q
    <3>2. \A r \in Page!Runs :
            run'[r] = IF r \in resolved THEN [run[r] EXCEPT !.pc = "ended"] ELSE run[r]
      BY <1>5, <2>3
    <3>3. run' \in [Page!Runs -> PageRuns]
      BY <1>0, <1>5, <2>3, <3>1
    <3>. QED  BY <2>1, <3>1, <3>2, <3>3 DEF RunsGoOn
  <2>. QED  BY <2>2, <2>3
<1>. HIDE DEF c, sh, t, resolved
<1>7. TakenBy(messages', sh, IF Len(pending) > 1 THEN {} ELSE ds)
  <2>1. CASE Len(pending) > 1
    BY <1>4, <1>5, <2>1 DEF TakenBy
  <2>2. CASE ~(Len(pending) > 1)
    BY <1>0, <1>4, <1>5, <2>2, DrainsTake
  <2>. QED  BY <2>1, <2>2
<1>8. Stream' = DraftText(messages') \o pending'
  BY DEF Stream
<1>9. Stream' \in Seq(Pieces) /\ \A d, n : UpTo(Stream, d, n) => UpTo(Stream', d, n)
  <2>1. CASE DraftText(messages') = t
    BY <1>2, <1>3, <1>8, <2>1
  <2>2. CASE DraftText(messages') = <<>>
    <3>1. Stream' = pending'
      BY <1>3, <1>8, <2>2, StreamMoves
    <3>. QED  BY <1>3, <3>1, UpToSuffix
  <2>. QED  BY <1>4, <1>7, <2>1, <2>2 DEF TakenBy
<1>10. DeliveriesFit'
  BY <1>0, <1>6, <1>9, DeliveriesStayFit
<1>11. \A s \in Page!Runs, via \in {"ws", "sse"} : Shut(run[s], via) => Shut(run'[s], via)
  BY <1>6, Zenon DEF RunsGoOn, RunGoesOn
<1>12. \A d \in ds : /\ d \in PageDrains /\ d.run \in Page!Runs /\ d.via \in {"ws", "sse"}
                     /\ d.kind = "done" => /\ Shut(run[d.run], d.via)
                                           /\ UpTo(Stream, <<d.run, d.via>>, MaxChunks)
  <2>1. \A d \in ds : d \in PageDrains
    BY <1>0, ElementOfSeq, LenProperties
  <2>2. \A d \in ds : d.kind = "done" => /\ Shut(run[d.run], d.via)
                                         /\ UpTo(Stream, <<d.run, d.via>>, MaxChunks)
    BY <1>0, Zenon DEF DrainsFit
  <2>3. \A d \in PageDrains : d.run \in Page!Runs /\ d.via \in {"ws", "sse"}
    BY DEF PageDrains
  <2>. QED  BY <2>1, <2>2, <2>3
<1>13. DrainsFit'
  <2>1. CASE Len(pending) > 1
    <3>1. drains' = drains
      BY <1>5, <2>1
    <3>2. ASSUME NEW i \in DOMAIN drains, drains[i].kind = "done"
          PROVE  /\ Shut(run'[drains[i].run], drains[i].via)
                 /\ UpTo(Stream', <<drains[i].run, drains[i].via>>, MaxChunks)
      BY <1>9, <1>11, <1>12, <3>2
    <3>. QED  BY <3>1, <3>2, Zenon DEF DrainsFit
  <2>2. CASE ~(Len(pending) > 1)
    <3>1. DOMAIN drains' = {}
      BY <1>5, <2>2
    <3>. QED  BY <3>1 DEF DrainsFit
  <2>. QED  BY <2>1, <2>2
<1>14. \A k \in DOMAIN pending' : k + 1 \in DOMAIN pending /\ pending'[k] = pending[k + 1]
  BY <1>0, <1>1, HeadTailProperties
<1>15. AnswersAreTaken'
  <2>1. ASSUME NEW m \in AnswersOf(messages')
        PROVE  /\ m.by \in Page!Channels /\ Shut(run'[m.by[1]], m.by[2])
               /\ UpTo(m.text, m.by, MaxChunks)
               /\ \A k \in DOMAIN pending' : Page!Channel(pending'[k]) # m.by
    <3>1. CASE m \in AnswersOf(messages)
      <4>1. /\ m.by \in Page!Channels /\ Shut(run[m.by[1]], m.by[2])
            /\ UpTo(m.text, m.by, MaxChunks)
            /\ \A k \in DOMAIN pending : Page!Channel(pending[k]) # m.by
        BY <1>0, <3>1 DEF AnswersAreTaken
      <4>2. m.by[1] \in Page!Runs /\ m.by[2] \in {"ws", "sse"}
        BY <4>1 DEF Page!Channels
      <4>. QED  BY <1>11, <1>14, <4>1, <4>2
    <3>2. ASSUME ~(Len(pending) > 1), m.text = t, NEW d \in ds, d.kind = "done",
                 m.by = <<d.run, d.via>>
          PROVE  /\ m.by \in Page!Channels /\ Shut(run'[m.by[1]], m.by[2])
                 /\ UpTo(m.text, m.by, MaxChunks)
                 /\ \A k \in DOMAIN pending' : Page!Channel(pending'[k]) # m.by
      <4>1. pending' = <<>> /\ t = Stream
        BY <1>3, <3>2, StreamMoves
      <4>2. /\ d.run \in Page!Runs /\ d.via \in {"ws", "sse"} /\ Shut(run'[d.run], d.via)
            /\ UpTo(Stream, <<d.run, d.via>>, MaxChunks)
        BY <1>11, <1>12, <3>2
      <4>. QED  BY <3>2, <4>1, <4>2 DEF Page!Channels
    <3>3. \/ m \in AnswersOf(messages)
          \/ /\ m.text = t /\ ~(Len(pending) > 1)
             /\ \E d \in ds : d.kind = "done" /\ m.by = <<d.run, d.via>>
      BY <1>4, <1>7, <2>1 DEF TakenBy
    <3>. QED  BY <3>1, <3>2, <3>3
  <2>. QED  BY <2>1, Zenon DEF AnswersAreTaken
<1>16. PageTypes'
  <2>1. ListFits(messages')
    BY <1>7 DEF TakenBy
  <2>2. /\ drains' \in Seq(PageDrains) /\ frame' = (pending' # <<>>) /\ (drains' # <<>> => frame')
        /\ controllerRef' \in {controllerRef, 0} /\ streaming' \in {streaming, FALSE}
    <3>1. <<>> \in Seq(PageDrains)
      BY EmptySeq
    <3>. QED  BY <1>0, <1>1, <1>3, <1>5, <3>1 DEF PageTypes
  <2>. QED  BY <1>0, <1>3, <1>5, <1>6, <2>1, <2>2 DEF PageTypes, RunsGoOn
<1>. QED  BY <1>10, <1>13, <1>15, <1>16, PageTyped DEF PageInv

\* Before the first question nothing has come.
LEMMA PageInit == Page!Init => PageInv
<1>. SUFFICES ASSUME Page!Init PROVE PageInv
  OBVIOUS
<1>. DEFINE e == <<>>
<1>0. /\ page \in {"chat", "upload"} /\ view = "live" /\ frame = FALSE
      /\ messages = e /\ pending = e /\ drains = e
      /\ socketRef = 0 /\ controllerRef = 0 /\ streaming = FALSE
      /\ run = [r \in Page!Runs |-> Page!NoRun]
  BY DEF Page!Init
<1>1. /\ e \in Seq(PageMessages) /\ e \in Seq(Pieces) /\ e \in Seq(PageDrains)
      /\ DOMAIN e = {} /\ e \o e = e
  BY EmptySeq
<1>2. Page!NoRun \in PageRuns /\ Page!NoRun.pc = "off"
  <2>1. -1 \in -1..MaxChunks
    BY PlatformAssumption
  <2>. QED  BY <2>1 DEF Page!NoRun, PageRuns
<1>. HIDE DEF e
<1>3. PageTypes
  <2>1. ListFits(messages)
    BY <1>0, <1>1, Zenon DEF ListFits
  <2>2. frame = (pending # <<>>) /\ (drains # <<>> => frame)
    BY <1>0 DEF e
  <2>3. run \in [Page!Runs -> PageRuns]
    BY <1>0, <1>2
  <2>. QED  BY <1>0, <1>1, <2>1, <2>2, <2>3 DEF PageTypes
<1>4. ~Page!HasDraft(e) /\ AnswersOf(e) = {}
  BY <1>1 DEF Page!HasDraft, AnswersOf
<1>5. Stream = e
  BY <1>0, <1>1, <1>4 DEF Stream, DraftText, e
<1>6. DeliveriesFit
  BY <1>1, <1>5, UpToNone DEF DeliveriesFit
<1>7. DrainsFit /\ AnswersAreTaken
  BY <1>0, <1>1, <1>4 DEF DrainsFit, AnswersAreTaken
<1>. QED  BY <1>3, <1>6, <1>7, PageTyped DEF PageInv

\* Every step keeps the invariant.
LEMMA PageNext == PageInv /\ [Page!Next]_chatPage => PageInv'
<1>. SUFFICES ASSUME PageInv, [Page!Next]_chatPage PROVE PageInv'
  OBVIOUS
<1>1. CASE UNCHANGED chatPage
  <2>0. PageTypes
    BY PageTyped DEF PageInv
  <2>1. /\ page' = page /\ view' = view /\ messages' = messages /\ pending' = pending
        /\ frame' = frame /\ drains' = drains /\ socketRef' = socketRef
        /\ controllerRef' = controllerRef /\ streaming' = streaming /\ run' = run
    BY <1>1 DEF chatPage
  <2>2. PageTypes'
    BY <2>0, <2>1 DEF PageTypes
  <2>3. RunsGoOn
    BY <2>0, <2>1 DEF RunsGoOn, RunGoesOn, PageTypes
  <2>4. \A i \in DOMAIN drains' : \E j \in DOMAIN drains : drains'[i] = drains[j]
    BY <2>1
  <2>. QED  BY <2>1, <2>2, <2>3, <2>4, PageQuiet
<1>2. CASE Page!Next
  BY <1>2, PageAsk, PageRetry, PageTurns, PageGets, PageEnds, PageLeaves, PageFlushes
     DEF Page!Next
<1>. QED  BY <1>1, <1>2

LEMMA PageInvFollows == PageInv => Page!AnswersAreWhole
<1>. SUFFICES ASSUME PageInv, NEW i \in DOMAIN messages, messages[i].role = "answer"
              PROVE  /\ Page!ReachesTo(messages[i].text, messages[i].by, MaxChunks)
                     /\ \A k \in DOMAIN pending : Page!Channel(pending[k]) # messages[i].by
  BY DEF Page!AnswersAreWhole
<1>1. messages \in Seq(PageMessages)
  BY PageTyped DEF PageInv, PageTypes, ListFits
<1>2. messages[i] \in PageMessages
  BY <1>1, ElementOfSeq, LenProperties
<1>3. messages[i] \in AnswersOf(messages)
  BY <1>2 DEF AnswersOf
<1>. QED  BY <1>3 DEF PageInv, AnswersAreTaken, UpTo

\* A behaviour of the platform is one of the page.
LEMMA JointPage ==
  [JointNext]_<<part, vars, voice, chatPage, histories, uploads, webhooks, limits, provider,
                adminPages, texts, pages>>
    => [Page!Next]_chatPage
  BY DEF JointNext, Others

\* For any number of questions and chunks, on both pages: an answer is complete only
\* when all of the delivery that ended it is shown, and nothing of it is queued.
THEOREM AnswersTaken == JointSpec => []Page!AnswersAreWhole
<1>1. JointInit => PageInv
  BY PageInit DEF JointInit
<1>. QED  BY <1>1, PageInvFollows, PageNext, JointPage, PTL DEF JointSpec

\* What both chat pages promise of answers.
THEOREM ChatsWhole == JointSpec => []ChatsAreWhole
<1>1. Page!AnswersAreWhole /\ History!HistoryKeepsAnswers => ChatsAreWhole
  BY DEF ChatsAreWhole
<1>. QED  BY <1>1, AnswersTaken, HistoryKept, PTL

=============================================================================
