------------------------------ MODULE Sessions ------------------------------
(***************************************************************************)
(* Accounts and refresh-token sessions: auth/routes.ts, auth/middleware.ts *)
(* (authenticate, refreshUsingCookie) and the token functions of           *)
(* redis/client.ts.                                                        *)
(*                                                                         *)
(* A request handler runs alone between two awaits and is interleaved with *)
(* every other handler at each await, so a handler is split into one       *)
(* action per awaited Redis or Postgres call.  A Redis MULTI/EXEC is one   *)
(* atomic step; a GET followed by a MULTI is two.                          *)
(*                                                                         *)
(* A refresh JWT is its tokenId.  What the JWT says is in owner; whether   *)
(* Redis still honours it is in store.                                     *)
(***************************************************************************)
EXTENDS FiniteSets

CONSTANTS
  Users,      \* e-mail addresses, which are unique in auth.users
  Tokens,     \* refresh-token ids that randomUUID may return
  Requests,   \* handlers that may be in flight at once
  NoUser,
  NoToken

ASSUME NoUserAssumption == NoUser \notin Users
ASSUME NoTokenAssumption == NoToken \notin Tokens

VARIABLES
  account,    \* user |-> "none", "norole" (row in auth.users only) or "ready"
  owner,      \* token |-> userId claim of the JWT, NoUser until it is minted
  parent,     \* history: token |-> the token it was rotated from
  expired,    \* refresh JWTs past their exp claim
  store,      \* token |-> value of the key refresh_token:<id>
  index,      \* user |-> the set user_tokens:<userId>
  delivered,  \* refresh tokens that reached a client
  req         \* the handlers in flight

vars == <<account, owner, parent, expired, store, index, delivered, req>>

\* Operations behind the authenticate middleware; "other" stands for every
\* route whose handler leaves the session state alone (GET /auth/me, /chat...).
AuthOps == {"logoutAll", "tokens", "revoke", "other"}
Ops == {"none", "register", "login", "refresh", "logout"} \cup AuthOps

\* refreshUsingCookie and POST /auth/refresh share these steps.
RotationPcs == {"verify", "rotateGet", "rotateDel", "store"}
HandlerPcs == {"members", "purge", "exists", "owns", "revokeGet", "revokeDel"}
Pcs == {"idle", "insert", "role", "respond"} \cup RotationPcs \cup HandlerPcs

Request ==
  [op : Ops, pc : Pcs, user : Users \cup {NoUser},
   tok : Tokens \cup {NoToken},      \* the refresh token presented
   new : Tokens \cup {NoToken},      \* the refresh token minted
   target : Tokens \cup {NoToken},   \* the token to revoke
   seen : Users \cup {NoUser},       \* what the last GET returned
   snap : SUBSET Tokens,             \* what SMEMBERS (then EXISTS) returned
   failed : BOOLEAN]                 \* history: a call of the handler rejected

Idle ==
  [op |-> "none", pc |-> "idle", user |-> NoUser, tok |-> NoToken,
   new |-> NoToken, target |-> NoToken, seen |-> NoUser, snap |-> {},
   failed |-> FALSE]

Init ==
  /\ account = [u \in Users |-> "none"]
  /\ owner = [t \in Tokens |-> NoUser]
  /\ parent = [t \in Tokens |-> NoToken]
  /\ expired = {}
  /\ store = [t \in Tokens |-> NoUser]
  /\ index = [u \in Users |-> {}]
  /\ delivered = {}
  /\ req = [r \in Requests |-> Idle]

-----------------------------------------------------------------------------
\* Steps the handlers share.

Redis == <<expired, store, index>>
Jwts == <<owner, parent>>

\* A refresh token verifyToken accepts: a client holds it and it is not past exp.
Presentable == delivered \ expired

\* generateTokenPair: a new tokenId, signed for user u.
Mint(t, u, from) ==
  /\ owner[t] = NoUser
  /\ owner' = [owner EXCEPT ![t] = u]
  /\ parent' = [parent EXCEPT ![t] = from]

\* Tokens minted by a handler that has not stored them yet.
Pending(t) ==
  \E r \in Requests :
    /\ req[r].new = t
    /\ req[r].pc \in {"rotateGet", "rotateDel", "store"}

\* Ids a client can name in DELETE /auth/tokens/:tokenId: random UUIDs are not
\* guessed, they are read off a JWT or off GET /auth/tokens, once stored.
Known == {t \in Tokens : owner[t] # NoUser /\ ~Pending(t)}

\* Where a handler starts once authenticate has called next().
Entry(op) ==
  CASE op \in {"logoutAll", "tokens"} -> "members"
    [] op = "revoke" -> "owns"
    [] OTHER -> "respond"

\* revokeRefreshToken's GET: a key that is gone ends it.
RevokeGet(r, t, from, del, after) ==
  /\ req[r].pc = from
  /\ req' = [req EXCEPT ![r] = [@ EXCEPT
       !.seen = store[t],
       !.pc = IF store[t] = NoUser THEN after ELSE del]]
  /\ UNCHANGED <<account, owner, parent, expired, store, index, delivered>>

\* Mutant of RevokeDel: SREM without the DEL.
RevokeDelKeepsKey(r, t, from, after) ==
  /\ req[r].pc = from
  /\ index' = [index EXCEPT ![req[r].seen] = @ \ {t}]
  /\ req' = [req EXCEPT ![r] = [@ EXCEPT !.pc = after]]
  /\ UNCHANGED <<account, owner, parent, expired, store, delivered>>

\* revokeRefreshToken's MULTI: DEL the key, SREM it from the set of the user read.
RevokeDel(r, t, from, after) ==
  /\ req[r].pc = from
  /\ store' = [store EXCEPT ![t] = NoUser]
  /\ index' = [index EXCEPT ![req[r].seen] = @ \ {t}]
  /\ req' = [req EXCEPT ![r] = [@ EXCEPT !.pc = after]]
  /\ UNCHANGED <<account, owner, parent, expired, delivered>>

-----------------------------------------------------------------------------
\* POST /auth/register and POST /auth/login.

\* findUserByEmail found nobody: hash the password and go on.
StartRegister(r, u) ==
  /\ req[r].pc = "idle"
  /\ account[u] = "none"
  /\ req' = [req EXCEPT ![r] = [Idle EXCEPT
       !.op = "register", !.pc = "insert", !.user = u]]
  /\ UNCHANGED <<account, Jwts, Redis, delivered>>

\* createAuthUser: the unique constraint on email refuses a second row (409).
InsertUser(r) ==
  LET u == req[r].user IN
  /\ req[r].pc = "insert"
  /\ IF account[u] = "none"
       THEN /\ account' = [account EXCEPT ![u] = "norole"]
            /\ req' = [req EXCEPT ![r] = [@ EXCEPT !.pc = "role"]]
       ELSE /\ req' = [req EXCEPT ![r] = Idle]
            /\ UNCHANGED account
  /\ UNCHANGED <<Jwts, Redis, delivered>>

\* assignRoleToUser in a transaction of its own, then generateTokenPair.
AssignRole(r, t) ==
  LET u == req[r].user IN
  /\ req[r].pc = "role"
  /\ account' = [account EXCEPT ![u] = "ready"]
  /\ Mint(t, u, NoToken)
  /\ req' = [req EXCEPT ![r] = [@ EXCEPT !.pc = "store", !.new = t]]
  /\ UNCHANGED <<Redis, delivered>>

\* The password matches; a user without a role row logs in as 'member'.
StartLogin(r, u, t) ==
  /\ req[r].pc = "idle"
  /\ account[u] # "none"
  /\ Mint(t, u, NoToken)
  /\ req' = [req EXCEPT ![r] = [Idle EXCEPT
       !.op = "login", !.pc = "store", !.user = u, !.new = t]]
  /\ UNCHANGED <<account, Redis, delivered>>

-----------------------------------------------------------------------------
\* Rotation: POST /auth/refresh, and refreshUsingCookie inside authenticate.

StartRefresh(r, t) ==
  /\ req[r].pc = "idle"
  /\ t \in Presentable
  /\ req' = [req EXCEPT ![r] = [Idle EXCEPT
       !.op = "refresh", !.pc = "verify", !.user = owner[t], !.tok = t]]
  /\ UNCHANGED <<account, Jwts, Redis, delivered>>

\* A route behind authenticate whose access token is missing or expired: the
\* cookie's refresh token t is rotated first.  target is DELETE's path parameter.
StartWithCookie(r, op, t, target) ==
  /\ req[r].pc = "idle"
  /\ t \in Presentable
  /\ target \in IF op = "revoke" THEN Known ELSE {NoToken}
  /\ req' = [req EXCEPT ![r] = [Idle EXCEPT
       !.op = op, !.pc = "verify", !.user = owner[t], !.tok = t, !.target = target]]
  /\ UNCHANGED <<account, Jwts, Redis, delivered>>

\* The same with a valid access token, which came with some refresh token t.
StartWithAccess(r, op, t, target) ==
  /\ req[r].pc = "idle"
  /\ t \in Presentable
  /\ op # "other"
  /\ target \in IF op = "revoke" THEN Known ELSE {NoToken}
  /\ req' = [req EXCEPT ![r] = [Idle EXCEPT
       !.op = op, !.pc = Entry(op), !.user = owner[t], !.target = target]]
  /\ UNCHANGED <<account, Jwts, Redis, delivered>>

\* Mutant of VerifyStored: the old token is not revoked.
VerifyStoredKeepsParent(r, t) ==
  /\ req[r].pc = "verify"
  /\ store[req[r].tok] = req[r].user
  /\ Mint(t, req[r].user, req[r].tok)
  /\ req' = [req EXCEPT ![r] = [@ EXCEPT !.pc = "store", !.new = t]]
  /\ UNCHANGED <<account, Redis, delivered>>

\* verifyRefreshToken returned the user the JWT names: mint the successor.
VerifyStored(r, t) ==
  /\ req[r].pc = "verify"
  /\ store[req[r].tok] = req[r].user
  /\ Mint(t, req[r].user, req[r].tok)
  /\ req' = [req EXCEPT ![r] = [@ EXCEPT !.pc = "rotateGet", !.new = t]]
  /\ UNCHANGED <<account, Redis, delivered>>

\* The key is gone: 401.
VerifyRefused(r) ==
  /\ req[r].pc = "verify"
  /\ store[req[r].tok] # req[r].user
  /\ req' = [req EXCEPT ![r] = Idle]
  /\ UNCHANGED <<account, Jwts, Redis, delivered>>

RotateGet(r) == RevokeGet(r, req[r].tok, "rotateGet", "rotateDel", "store")

RotateDel(r) == RevokeDel(r, req[r].tok, "rotateDel", "store")

\* Mutants of StoreToken: the value written is the id; the old id is written
\* back; the set is replaced, not added to.
StoreTokenValue(r, value, tok, others) ==
  LET q == req[r] IN
  /\ q.pc = "store"
  /\ store' = [store EXCEPT ![tok] = value]
  /\ index' = [index EXCEPT ![q.user] = others \cup {q.new}]
  /\ req' = [req EXCEPT ![r] = [@ EXCEPT !.pc = Entry(q.op)]]
  /\ UNCHANGED <<account, Jwts, expired, delivered>>
StoreTokenSwapsArguments(r) == StoreTokenValue(r, req[r].new, req[r].new, index[req[r].user])
StoreTokenRestoresOld(r) ==
  StoreTokenValue(r, req[r].user, IF req[r].tok = NoToken THEN req[r].new ELSE req[r].tok,
                  index[req[r].user])
StoreTokenReplacesSet(r) == StoreTokenValue(r, req[r].user, req[r].new, {})

\* storeRefreshToken's MULTI: SETEX the key, SADD it, EXPIRE the set.  Then the
\* middleware calls next(), the other handlers answer.
StoreToken(r) ==
  LET q == req[r] IN
  /\ q.pc = "store"
  /\ store' = [store EXCEPT ![q.new] = q.user]
  /\ index' = [index EXCEPT ![q.user] = @ \cup {q.new}]
  /\ req' = [req EXCEPT ![r] = [@ EXCEPT !.pc = Entry(q.op)]]
  /\ UNCHANGED <<account, Jwts, expired, delivered>>

-----------------------------------------------------------------------------
\* POST /auth/logout, /auth/logout-all, GET and DELETE /auth/tokens.

StartLogout(r, t) ==
  /\ req[r].pc = "idle"
  /\ t \in Presentable
  /\ req' = [req EXCEPT ![r] = [Idle EXCEPT
       !.op = "logout", !.pc = "revokeGet", !.user = owner[t], !.target = t]]
  /\ UNCHANGED <<account, Jwts, Redis, delivered>>

\* DELETE /auth/tokens/:tokenId: a token of somebody else is refused (403); a
\* token that is not there goes on to revokeRefreshToken, which does nothing.
CheckOwner(r) ==
  LET q == req[r] IN
  /\ q.pc = "owns"
  /\ req' = [req EXCEPT ![r] = [@ EXCEPT
       !.pc = IF store[q.target] \in {NoUser, q.user} THEN "revokeGet" ELSE "respond"]]
  /\ UNCHANGED <<account, Jwts, Redis, delivered>>

TargetGet(r) == RevokeGet(r, req[r].target, "revokeGet", "revokeDel", "respond")

TargetDel(r) == RevokeDel(r, req[r].target, "revokeDel", "respond")

\* SMEMBERS, in revokeAllUserTokens and getUserActiveTokens.
Members(r) ==
  LET q == req[r] IN
  /\ q.pc = "members"
  /\ req' = [req EXCEPT ![r] = [@ EXCEPT
       !.snap = index[q.user],
       !.pc = IF q.op = "logoutAll" THEN "purge"
              ELSE IF index[q.user] = {} THEN "respond" ELSE "exists"]]
  /\ UNCHANGED <<account, Jwts, Redis, delivered>>

\* revokeAllUserTokens's MULTI (or DEL of the empty set): the keys that SMEMBERS
\* returned go, and the whole set goes, whatever was added to it since.
Purge(r) ==
  LET q == req[r] IN
  /\ q.pc = "purge"
  /\ store' = [t \in Tokens |-> IF t \in q.snap THEN NoUser ELSE store[t]]
  /\ index' = [index EXCEPT ![q.user] = {}]
  /\ req' = [req EXCEPT ![r] = [@ EXCEPT !.pc = "respond"]]
  /\ UNCHANGED <<account, Jwts, expired, delivered>>

\* getUserActiveTokens's MULTI of EXISTS: the ids still live are listed.
Exists(r) ==
  /\ req[r].pc = "exists"
  /\ req' = [req EXCEPT ![r] = [@ EXCEPT
       !.snap = {t \in req[r].snap : store[t] # NoUser},
       !.pc = "respond"]]
  /\ UNCHANGED <<account, Jwts, Redis, delivered>>

-----------------------------------------------------------------------------
\* Ends of a handler, failures and time.

\* The answer arrives with the cookies setTokenCookies put on it, if any.
Respond(r) ==
  /\ req[r].pc = "respond"
  /\ delivered' = delivered \cup ({req[r].new} \ {NoToken})
  /\ req' = [req EXCEPT ![r] = Idle]
  /\ UNCHANGED <<account, Jwts, Redis>>

\* The answer is lost on the way.
ResponseLost(r) ==
  /\ req[r].pc = "respond"
  /\ req' = [req EXCEPT ![r] = Idle]
  /\ UNCHANGED <<account, Jwts, Redis, delivered>>

\* Handlers that answer although a call rejected: logout's inner catch goes on to
\* its 200; behind authenticate it is a 500 with the cookies it may already carry.
AnswersFailure(op) == op \in AuthOps \cup {"logout"}

\* A call of the handler rejects.  Register, login and refresh answer with an
\* error and no tokens.
CallFails(r) ==
  LET q == req[r] IN
  /\ q.pc \in {"insert", "role"} \cup RotationPcs \cup HandlerPcs
  /\ q.op \in AuthOps => q.pc \in HandlerPcs
  /\ req' = [req EXCEPT ![r] =
       IF AnswersFailure(q.op)
         THEN [q EXCEPT !.pc = "respond", !.snap = {}, !.failed = TRUE]
         ELSE Idle]
  /\ UNCHANGED <<account, Jwts, Redis, delivered>>

\* The process dies: index.ts exits on an unhandled rejection, and Express 4
\* does not catch one of the async middleware authenticate.
Crash ==
  /\ \E r \in Requests : req[r].pc # "idle"
  /\ req' = [r \in Requests |-> Idle]
  /\ UNCHANGED <<account, Jwts, Redis, delivered>>

\* Seven days after it was signed.  A handler does not take that long.
ExpireJwt(t) ==
  /\ owner[t] # NoUser /\ t \notin expired /\ ~Pending(t)
  /\ expired' = expired \cup {t}
  /\ UNCHANGED <<account, Jwts, store, index, delivered, req>>

\* The key is written after the JWT is signed and lives as long.
ExpireKey(t) ==
  /\ t \in expired /\ store[t] # NoUser
  /\ store' = [store EXCEPT ![t] = NoUser]
  /\ UNCHANGED <<account, Jwts, expired, index, delivered, req>>

\* Every SADD renews the set's time to live, so it outlives the keys it lists.
ExpireIndex(u) ==
  /\ index[u] # {} /\ \A t \in index[u] : store[t] = NoUser
  /\ index' = [index EXCEPT ![u] = {}]
  /\ UNCHANGED <<account, Jwts, expired, store, delivered, req>>

Next ==
  \/ \E r \in Requests, u \in Users : StartRegister(r, u)
  \/ \E r \in Requests, u \in Users, t \in Tokens : StartLogin(r, u, t)
  \/ \E r \in Requests, t \in Tokens :
       StartRefresh(r, t) \/ StartLogout(r, t) \/ AssignRole(r, t) \/ VerifyStored(r, t)
  \/ \E r \in Requests, op \in AuthOps, t \in Tokens, target \in Tokens \cup {NoToken} :
       \/ StartWithCookie(r, op, t, target)
       \/ StartWithAccess(r, op, t, target)
  \/ \E r \in Requests :
       \/ InsertUser(r) \/ VerifyRefused(r) \/ RotateGet(r) \/ RotateDel(r)
       \/ StoreToken(r) \/ CheckOwner(r) \/ TargetGet(r) \/ TargetDel(r)
       \/ Members(r) \/ Purge(r) \/ Exists(r)
       \/ Respond(r) \/ ResponseLost(r) \/ CallFails(r)
  \/ Crash
  \/ \E t \in Tokens : ExpireJwt(t) \/ ExpireKey(t)
  \/ \E u \in Users : ExpireIndex(u)

Spec == Init /\ [][Next]_vars

-----------------------------------------------------------------------------
\* Properties.

TypeOK ==
  /\ account \in [Users -> {"none", "norole", "ready"}]
  /\ owner \in [Tokens -> Users \cup {NoUser}]
  /\ parent \in [Tokens -> Tokens \cup {NoToken}]
  /\ expired \in SUBSET Tokens
  /\ store \in [Tokens -> Users \cup {NoUser}]
  /\ index \in [Users -> SUBSET Tokens]
  /\ delivered \in SUBSET Tokens
  /\ req \in [Requests -> Request]

Live(t) == store[t] # NoUser

\* A token and the token it was rotated from are never both honoured, however
\* rotations, logouts and failures interleave: /auth/refresh and
\* refreshUsingCookie revoke before they store.
RotationRetiresParent ==
  \A t \in Tokens : Live(t) /\ parent[t] # NoToken => ~Live(parent[t])

\* When a logout none of whose calls rejected answers, its token is dead and stays
\* so while the answer is on its way; when logout-all answers without an error, so
\* is every token SMEMBERS listed.  A logout whose call rejected answers success
\* all the same (auth/routes.ts:541), and its token may be honoured still, although
\* auth/README.md:682 says "Server deletes refresh token from Redis".
AnsweredLogoutIsEffective ==
  \A r \in Requests : req[r].pc = "respond" /\ ~req[r].failed =>
    /\ req[r].op = "logout" => ~Live(req[r].target)
    /\ req[r].op = "logoutAll" => \A t \in req[r].snap : ~Live(t)

\* Of the registrations of one e-mail that raced past findUserByEmail, one at
\* most gets past createAuthUser, and it is answered with a role assigned.
OneRegistrantPerEmail ==
  \A r \in Requests :
    req[r].op = "register" /\ req[r].pc \in {"role", "store", "respond"} =>
      /\ account[req[r].user] = IF req[r].pc = "role" THEN "norole" ELSE "ready"
      /\ \A s \in Requests \ {r} :
           req[s].op = "register" /\ req[s].user = req[r].user =>
             req[s].pc = "insert"

\* A token a client holds that is no longer honoured is never honoured again.
RevokedStaysRevoked ==
  [][\A t \in delivered : ~Live(t) => ~Live(t)']_vars

\* A key disappears because its time is over or by a step of a handler that
\* acts for the user the token belongs to: DELETE /auth/tokens/:tokenId with
\* somebody else's id takes nothing away.
OnlyOwnerRevokes ==
  [][\A t \in Tokens : Live(t) /\ ~Live(t)' =>
       \/ t \in expired
       \/ \E r \in Requests : req[r].user = owner[t] /\ req'[r] # req[r]]_vars

\* The only step after which a token still honoured is missing from its user's
\* set is a logout-all whose SMEMBERS ran before the token was added.
OnlyRacedTokensLeaveIndex ==
  [][\A u \in Users : \A t \in index[u] :
       t \notin index'[u] /\ Live(t)' =>
         \E r \in Requests :
           /\ req[r].op = "logoutAll" /\ req[r].pc = "purge"
           /\ req[r].user = u /\ t \notin req[r].snap]_vars

\* auth/README.md:692, "Refresh tokens are single-use (rotated on refresh)": no
\* two tokens rotated from the same token are honoured.  Two refreshes that
\* both pass verifyRefreshToken before either revokes break it.
SingleUse ==
  \A s, t \in Tokens :
    s # t /\ parent[s] = parent[t] /\ parent[s] # NoToken => ~(Live(s) /\ Live(t))

=============================================================================
