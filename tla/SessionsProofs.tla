--------------------------- MODULE SessionsProofs ---------------------------
(***************************************************************************)
(* The properties of Sessions for every set of users, token ids and        *)
(* handlers.  They rest on one inductive invariant, Inv, whose parts say    *)
(* what a handler may rely on between two awaits.                          *)
(***************************************************************************)
EXTENDS Sessions, TLAPS

\* Minted tokens that are not stored yet.
Minting == {"rotateGet", "rotateDel", "store"}

\* Redis never says more of a token than its JWT does, and a token is handed
\* out, or rotated, only after it was signed for a user.
Provenance ==
  /\ \A t \in Tokens : store[t] \in {NoUser, owner[t]}
  /\ \A u \in Users : \A t \in index[u] : owner[t] = u
  /\ \A t \in delivered : owner[t] # NoUser
  /\ \A t \in Tokens : parent[t] # NoToken => parent[t] \in delivered

\* The token a handler carries in new is its own, signed for its user.
NewIsOwn ==
  \A r \in Requests : req[r].new # NoToken =>
    /\ req[r].user \in Users
    /\ owner[req[r].new] = req[r].user
    /\ \A s \in Requests \ {r} : req[s].new # req[r].new

\* Until it is stored nobody else knows it.
NewIsFresh ==
  \A r \in Requests : req[r].pc \in Minting =>
    /\ req[r].new # NoToken
    /\ ~Live(req[r].new)
    /\ req[r].new \notin delivered
    /\ \A u \in Users : req[r].new \notin index[u]

\* A rotation acts on a token its client holds, and has revoked it when it stores.
RotationState ==
  \A r \in Requests :
    /\ req[r].tok # NoToken =>
         /\ req[r].tok \in delivered
         /\ owner[req[r].tok] = req[r].user
    /\ req[r].pc \in {"verify", "rotateGet", "rotateDel"} => req[r].tok # NoToken
    /\ req[r].pc \in Minting => parent[req[r].new] = req[r].tok
    /\ req[r].pc = "store" /\ req[r].tok # NoToken => ~Live(req[r].tok)

\* What a revocation may touch: ids that are settled, of the handler's user.
RevocationState ==
  \A r \in Requests :
    /\ req[r].target # NoToken => owner[req[r].target] # NoUser /\ ~Pending(req[r].target)
    /\ req[r].pc \in {"owns", "revokeGet", "revokeDel"} => req[r].target # NoToken
    /\ req[r].pc \in {"revokeGet", "revokeDel"} /\ Live(req[r].target) =>
         owner[req[r].target] = req[r].user
    /\ req[r].pc \in {"owns", "members"} => req[r].user \in Users
    /\ req[r].op = "revoke" => req[r].target # NoToken
    /\ req[r].op = "logout" =>
         /\ req[r].target # NoToken
         /\ req[r].pc \in {"revokeGet", "revokeDel", "respond"}
         /\ req[r].pc = "respond" /\ ~req[r].failed => ~Live(req[r].target)
    /\ \A t \in req[r].snap : owner[t] = req[r].user /\ owner[t] # NoUser /\ ~Pending(t)
    /\ req[r].op = "logoutAll" =>
         /\ req[r].pc # "exists"
         /\ req[r].pc \notin {"purge", "respond"} => req[r].snap = {}
         /\ req[r].pc = "respond" => \A t \in req[r].snap : ~Live(t)

\* Registration walks insert, role, store, respond.
RegisterState ==
  \A r \in Requests :
    /\ req[r].op = "register" =>
         /\ req[r].user \in Users
         /\ req[r].tok = NoToken
         /\ req[r].pc \in {"insert", "role", "store", "respond"}
    /\ req[r].pc \in {"insert", "role"} => req[r].op = "register"
    /\ req[r].pc = "idle" => req[r] = Idle
    /\ req[r].pc = "purge" => req[r].op = "logoutAll"

Inv ==
  /\ TypeOK
  /\ Provenance
  /\ NewIsOwn
  /\ NewIsFresh
  /\ RotationState
  /\ RotationRetiresParent
  /\ RevocationState
  /\ RegisterState
  /\ OneRegistrantPerEmail

-----------------------------------------------------------------------------
\* Types.

\* Every step of the system keeps the types: what revokeRefreshToken reads is a
\* value because the handlers that call it have a token.
LEMMA TypeStep ==
  ASSUME Inv, [Next]_vars
  PROVE  TypeOK'
<1>0. TypeOK /\ \A r \in Requests : req[r] \in Request
  BY DEF Inv, TypeOK
<1>1. Idle \in Request
  BY DEF Idle, Request, Ops, Pcs
<1>2. ASSUME NEW r \in Requests, NEW u \in Users, StartRegister(r, u)
      PROVE  TypeOK'
  <2>1. [Idle EXCEPT !.op = "register", !.pc = "insert", !.user = u] \in Request
    BY DEF Idle, Request, Ops, Pcs
  <2>. QED  BY <1>0, <1>2, <2>1 DEF TypeOK, StartRegister, Redis, Jwts
<1>3. ASSUME NEW r \in Requests, NEW u \in Users, NEW t \in Tokens, StartLogin(r, u, t)
      PROVE  TypeOK'
  <2>1. [Idle EXCEPT !.op = "login", !.pc = "store", !.user = u, !.new = t] \in Request
    BY DEF Idle, Request, Ops, Pcs, RotationPcs
  <2>. QED  BY <1>0, <1>3, <2>1 DEF TypeOK, StartLogin, Mint, Redis
<1>4. ASSUME NEW r \in Requests, NEW t \in Tokens, StartRefresh(r, t)
      PROVE  TypeOK'
  <2>1. [Idle EXCEPT !.op = "refresh", !.pc = "verify", !.user = owner[t], !.tok = t] \in Request
    BY <1>0 DEF TypeOK, Idle, Request, Ops, Pcs, RotationPcs
  <2>. QED  BY <1>0, <1>4, <2>1 DEF TypeOK, StartRefresh, Redis, Jwts
<1>5. ASSUME NEW r \in Requests, NEW t \in Tokens, StartLogout(r, t)
      PROVE  TypeOK'
  <2>1. [Idle EXCEPT !.op = "logout", !.pc = "revokeGet", !.user = owner[t], !.target = t]
          \in Request
    BY <1>0 DEF TypeOK, Idle, Request, Ops, Pcs, HandlerPcs
  <2>. QED  BY <1>0, <1>5, <2>1 DEF TypeOK, StartLogout, Redis, Jwts
<1>6. ASSUME NEW r \in Requests, NEW t \in Tokens, AssignRole(r, t)
      PROVE  TypeOK'
  <2>1. [req[r] EXCEPT !.pc = "store", !.new = t] \in Request
    BY <1>0 DEF Request, Pcs, RotationPcs
  <2>2. req' \in [Requests -> Request]
    BY <1>0, <1>6, <2>1 DEF TypeOK, AssignRole
  <2>. QED  BY <1>0, <1>6, <2>2 DEF TypeOK, AssignRole, Mint, Redis, Request
<1>7. ASSUME NEW r \in Requests, NEW t \in Tokens, VerifyStored(r, t)
      PROVE  TypeOK'
  <2>1. [req[r] EXCEPT !.pc = "rotateGet", !.new = t] \in Request
    BY <1>0 DEF Request, Pcs, RotationPcs
  <2>2. req' \in [Requests -> Request]
    BY <1>0, <1>7, <2>1 DEF TypeOK, VerifyStored
  <2>3. req[r].user \in Users \cup {NoUser} /\ req[r].tok \in Tokens \cup {NoToken}
    BY <1>0 DEF Request
  <2>. QED  BY <1>0, <1>7, <2>2, <2>3 DEF TypeOK, VerifyStored, Mint, Redis
<1>8. ASSUME NEW r \in Requests, NEW op \in AuthOps, NEW t \in Tokens,
             NEW target \in Tokens \cup {NoToken}, StartWithCookie(r, op, t, target)
      PROVE  TypeOK'
  <2>1. [Idle EXCEPT !.op = op, !.pc = "verify", !.user = owner[t], !.tok = t, !.target = target]
          \in Request
    BY <1>0 DEF TypeOK, Idle, Request, Ops, Pcs, RotationPcs
  <2>. QED  BY <1>0, <1>8, <2>1 DEF TypeOK, StartWithCookie, Redis, Jwts
<1>9. ASSUME NEW r \in Requests, NEW op \in AuthOps, NEW t \in Tokens,
             NEW target \in Tokens \cup {NoToken}, StartWithAccess(r, op, t, target)
      PROVE  TypeOK'
  <2>1. [Idle EXCEPT !.op = op, !.pc = Entry(op), !.user = owner[t], !.target = target]
          \in Request
    BY <1>0 DEF TypeOK, Idle, Request, Ops, Entry, Pcs, HandlerPcs
  <2>. QED  BY <1>0, <1>9, <2>1 DEF TypeOK, StartWithAccess, Redis, Jwts
<1>10. ASSUME NEW r \in Requests, InsertUser(r)
       PROVE  TypeOK'
  <2>1. [req[r] EXCEPT !.pc = "role"] \in Request
    BY <1>0 DEF Request, Pcs
  <2>2. req' \in [Requests -> Request]
    BY <1>0, <1>1, <1>10, <2>1 DEF TypeOK, InsertUser
  <2>. QED  BY <1>0, <1>10, <2>2 DEF TypeOK, InsertUser, Redis, Jwts
<1>11. ASSUME NEW r \in Requests,
              VerifyRefused(r) \/ ResponseLost(r) \/ Respond(r)
       PROVE  TypeOK'
  <2>1. req[r].new \in Tokens \cup {NoToken}
    BY <1>0 DEF Request
  <2>. QED  BY <1>0, <1>1, <1>11, <2>1 DEF TypeOK, VerifyRefused, ResponseLost, Respond, Redis,
       Jwts
<1>12. ASSUME NEW r \in Requests, RotateGet(r) \/ TargetGet(r)
       PROVE  TypeOK'
  <2>1. PICK t \in Tokens, del \in Pcs, after \in Pcs :
          req' = [req EXCEPT ![r] = [@ EXCEPT
                   !.seen = store[t], !.pc = IF store[t] = NoUser THEN after ELSE del]]
    <3>1. CASE RotateGet(r)
      <4>1. req[r].tok \in Tokens
        BY <1>0, <3>1 DEF Inv, RotationState, RotateGet, RevokeGet, Request
      <4>. QED  BY <3>1, <4>1 DEF RotateGet, RevokeGet, Pcs, RotationPcs
    <3>2. CASE TargetGet(r)
      <4>1. req[r].target \in Tokens
        BY <1>0, <3>2 DEF Inv, RevocationState, TargetGet, RevokeGet, Request
      <4>. QED  BY <3>2, <4>1 DEF TargetGet, RevokeGet, Pcs, HandlerPcs
    <3>. QED  BY <1>12, <3>1, <3>2
  <2>2. [req[r] EXCEPT !.seen = store[t], !.pc = IF store[t] = NoUser THEN after ELSE del]
          \in Request
    BY <1>0 DEF TypeOK, Request
  <2>3. req' \in [Requests -> Request]
    BY <1>0, <2>1, <2>2 DEF TypeOK
  <2>. QED  BY <1>0, <1>12, <2>3 DEF TypeOK, RotateGet, TargetGet, RevokeGet
<1>13. ASSUME NEW r \in Requests, RotateDel(r) \/ TargetDel(r)
       PROVE  TypeOK'
  <2>1. PICK t \in Tokens \cup {NoToken}, after \in Pcs :
          /\ req' = [req EXCEPT ![r] = [@ EXCEPT !.pc = after]]
          /\ store' = [store EXCEPT ![t] = NoUser]
          /\ index' = [index EXCEPT ![req[r].seen] = @ \ {t}]
    BY <1>0, <1>13 DEF RotateDel, TargetDel, RevokeDel, Request, Pcs, RotationPcs
  <2>2. [req[r] EXCEPT !.pc = after] \in Request
    BY <1>0 DEF Request
  <2>3. req' \in [Requests -> Request]
    BY <1>0, <2>1, <2>2 DEF TypeOK
  <2>4. store' \in [Tokens -> Users \cup {NoUser}] /\ index' \in [Users -> SUBSET Tokens]
    BY <1>0, <2>1 DEF TypeOK
  <2>. QED  BY <1>0, <1>13, <2>3 DEF TypeOK, RotateDel, TargetDel, RevokeDel
<1>14. ASSUME NEW r \in Requests, StoreToken(r)
       PROVE  TypeOK'
  <2>1. [req[r] EXCEPT !.pc = Entry(req[r].op)] \in Request
    BY <1>0 DEF Request, Entry, Pcs, HandlerPcs
  <2>2. req' \in [Requests -> Request]
    BY <1>0, <1>14, <2>1 DEF TypeOK, StoreToken
  <2>3. req[r].user \in Users /\ req[r].new \in Tokens
    BY <1>0, <1>14 DEF Inv, NewIsOwn, NewIsFresh, Minting, StoreToken, Request
  <2>4. store' \in [Tokens -> Users \cup {NoUser}]
    BY <1>0, <1>14, <2>3 DEF TypeOK, StoreToken
  <2>5. index' \in [Users -> SUBSET Tokens]
    BY <1>0, <1>14, <2>3 DEF TypeOK, StoreToken
  <2>. QED  BY <1>0, <1>14, <2>2, <2>5 DEF TypeOK, StoreToken, Jwts
<1>15. ASSUME NEW r \in Requests, CheckOwner(r)
       PROVE  TypeOK'
  <2>1. \A pc \in Pcs : [req[r] EXCEPT !.pc = pc] \in Request
    BY <1>0 DEF Request
  <2>2. req' \in [Requests -> Request]
    BY <1>0, <1>15, <2>1 DEF TypeOK, CheckOwner, Pcs, HandlerPcs
  <2>. QED  BY <1>0, <1>15, <2>2 DEF TypeOK, CheckOwner, Redis, Jwts
<1>16. ASSUME NEW r \in Requests, Members(r) \/ Exists(r)
       PROVE  TypeOK'
  <2>1. \A pc \in Pcs, S \in SUBSET Tokens : [req[r] EXCEPT !.snap = S, !.pc = pc] \in Request
    BY <1>0 DEF Request
  <2>2. PICK pc \in Pcs, S \in SUBSET Tokens :
          req' = [req EXCEPT ![r] = [@ EXCEPT !.snap = S, !.pc = pc]]
    <3>1. CASE Members(r)
      <4>1. index[req[r].user] \in SUBSET Tokens
        BY <1>0, <3>1 DEF Inv, TypeOK, RevocationState, Members
      <4>. QED  BY <3>1, <4>1 DEF Members, Pcs, HandlerPcs
    <3>2. CASE Exists(r)
      <4>1. {t \in req[r].snap : store[t] # NoUser} \in SUBSET Tokens
        BY <1>0 DEF Request
      <4>. QED  BY <3>2, <4>1 DEF Exists, Pcs
    <3>. QED  BY <1>16, <3>1, <3>2
  <2>3. req' \in [Requests -> Request]
    BY <1>0, <2>1, <2>2 DEF TypeOK
  <2>. QED  BY <1>0, <1>16, <2>3 DEF TypeOK, Members, Exists, Redis, Jwts
<1>17. ASSUME NEW r \in Requests, Purge(r)
       PROVE  TypeOK'
  <2>1. [req[r] EXCEPT !.pc = "respond"] \in Request
    BY <1>0 DEF Request, Pcs
  <2>2. req' \in [Requests -> Request]
    BY <1>0, <1>17, <2>1 DEF TypeOK, Purge
  <2>. QED  BY <1>0, <1>17, <2>2 DEF TypeOK, Purge, Jwts
<1>18. ASSUME NEW r \in Requests, CallFails(r)
       PROVE  TypeOK'
  <2>1. [req[r] EXCEPT !.pc = "respond", !.snap = {}, !.failed = TRUE] \in Request
    BY <1>0 DEF Request, Pcs
  <2>2. req' \in [Requests -> Request]
    BY <1>0, <1>1, <1>18, <2>1 DEF TypeOK, CallFails
  <2>. QED  BY <1>0, <1>18, <2>2 DEF TypeOK, CallFails, Redis, Jwts
<1>19. ASSUME Crash \/ (\E t \in Tokens : ExpireJwt(t) \/ ExpireKey(t))
              \/ (\E u \in Users : ExpireIndex(u)) \/ UNCHANGED vars
       PROVE  TypeOK'
  BY <1>0, <1>1, <1>19 DEF TypeOK, Crash, ExpireJwt, ExpireKey, ExpireIndex, Redis, Jwts, vars
<1>. QED
  BY <1>2, <1>3, <1>4, <1>5, <1>6, <1>7, <1>8, <1>9, <1>10, <1>11, <1>12, <1>13, <1>14, <1>15,
     <1>16, <1>17, <1>18, <1>19 DEF Next

-----------------------------------------------------------------------------
\* One lemma for each action.

\* The start of a registration keeps Inv.
LEMMA StartRegisterInv ==
  ASSUME Inv, TypeOK', NEW r \in Requests, NEW u \in Users,
         StartRegister(r, u)
  PROVE  Inv'
<1>1. \A s \in Requests \ {r} : req'[s] = req[s]
  BY DEF StartRegister, Idle, Inv, TypeOK
<1>2. /\ req'[r].op = "register" /\ req'[r].pc = "insert" /\ req'[r].user = u
      /\ req'[r].tok = NoToken /\ req'[r].new = NoToken /\ req'[r].target = NoToken
      /\ req'[r].snap = {}
  BY DEF StartRegister, Idle, Inv, TypeOK, Request, Live
<1>3. /\ req[r].pc = "idle"
      /\ account[u] = "none"
      /\ UNCHANGED <<account, owner, parent, store, index, delivered>>
  BY DEF StartRegister, Redis, Jwts, Presentable, RevokeGet, RevokeDel, Mint
<1>4. \A x \in Tokens : Pending(x)' => Pending(x)
  BY <1>1, <1>2 DEF Pending, Inv
<1>5. Provenance' /\ RotationRetiresParent'
  BY <1>3 DEF Inv, Live, Provenance, RotationRetiresParent
<1>6. NewIsOwn' /\ NewIsFresh'
  BY <1>1, <1>2, <1>3 DEF Inv, Live, Minting, NewIsOwn, NewIsFresh
<1>7. RotationState'
  BY <1>1, <1>2, <1>3 DEF Inv, Live, Minting, RotationState, NewIsFresh, NewIsOwn
<1>8. RevocationState'
  BY <1>1, <1>2, <1>3, <1>4 DEF Inv, Live, TypeOK, Request, RevocationState
<1>9. RegisterState' /\ OneRegistrantPerEmail'
  BY <1>1, <1>2, <1>3 DEF Inv, RegisterState, OneRegistrantPerEmail
<1>. QED  BY <1>5, <1>6, <1>7, <1>8, <1>9 DEF Inv

\* assignRoleToUser and the mint keeps Inv.
LEMMA AssignRoleInv ==
  ASSUME Inv, TypeOK', NEW r \in Requests, NEW t \in Tokens,
         AssignRole(r, t)
  PROVE  Inv'
<1>1. \A s \in Requests \ {r} : req'[s] = req[s]
  BY DEF AssignRole, Mint, Redis, Inv, TypeOK
<1>2. /\ req'[r].pc = "store" /\ req'[r].new = t /\ req'[r].op = req[r].op
      /\ req'[r].user = req[r].user /\ req'[r].tok = req[r].tok /\ req'[r].target = req[r].target
      /\ req'[r].snap = req[r].snap
  BY DEF AssignRole, Mint, Redis, Inv, TypeOK, Request, Live
<1>3. /\ req[r].pc = "role"
      /\ UNCHANGED <<store, index, delivered>>
  BY DEF AssignRole, Redis, Jwts, Presentable, RevokeGet, RevokeDel, Mint
<1>4. /\ owner[t] = NoUser /\ owner'[t] = req[r].user /\ parent'[t] = NoToken
      /\ req[r].user \in Users
      /\ \A x \in Tokens \ {t} : owner'[x] = owner[x] /\ parent'[x] = parent[x]
  BY DEF AssignRole, Mint, Inv, TypeOK
<1>5. \A s \in Requests : req[s].new # t /\ req[s].tok # t /\ req[s].target # t /\ t \notin req[s].snap
  BY <1>4, NoUserAssumption, NoTokenAssumption DEF Inv, NewIsOwn, RevocationState,
     RotationState, Provenance
<1>6. \A u \in Users : account'[u] = IF u = req[r].user THEN "ready" ELSE account[u]
  BY DEF AssignRole, Inv, TypeOK
<1>7. \A x \in Tokens : Pending(x)' => x = t \/ Pending(x)
  BY <1>1, <1>2 DEF Pending, Inv, TypeOK, Request
<1>8. Provenance'
  BY <1>3, <1>4, NoUserAssumption DEF Inv, TypeOK, Provenance
<1>9. RotationRetiresParent'
  BY <1>3, <1>4 DEF Inv, Live, RotationRetiresParent, Provenance
<1>10. NewIsOwn'
  BY <1>1, <1>2, <1>4, <1>5 DEF Inv, TypeOK, Request, NewIsOwn
<1>11. NewIsFresh'
  BY <1>1, <1>2, <1>3, <1>4, NoUserAssumption, NoTokenAssumption DEF Inv, Live, NewIsFresh,
     NewIsOwn, Provenance
<1>12. RotationState'
  BY <1>1, <1>2, <1>3, <1>4, <1>5 DEF Inv, Live, TypeOK, Request, RotationState, RegisterState,
     NewIsFresh
<1>13. RevocationState'
  BY <1>1, <1>2, <1>3, <1>4, <1>7 DEF Inv, Live, TypeOK, Request, RevocationState
<1>14. RegisterState' /\ OneRegistrantPerEmail'
  BY <1>1, <1>2, <1>3, <1>6 DEF Inv, RegisterState, OneRegistrantPerEmail
<1>. QED  BY <1>8, <1>9, <1>10, <1>11, <1>12, <1>13, <1>14 DEF Inv

\* A login, which mints a token out of nothing, keeps Inv.
LEMMA StartLoginInv ==
  ASSUME Inv, TypeOK', NEW r \in Requests, NEW u \in Users, NEW t \in Tokens,
         StartLogin(r, u, t)
  PROVE  Inv'
<1>1. \A s \in Requests \ {r} : req'[s] = req[s]
  BY DEF StartLogin, Mint, Redis, Idle, Inv, TypeOK
<1>2. /\ req'[r].op = "login" /\ req'[r].pc = "store" /\ req'[r].user = u
      /\ req'[r].tok = NoToken /\ req'[r].new = t /\ req'[r].target = NoToken
      /\ req'[r].snap = {}
  BY DEF StartLogin, Idle, Inv, TypeOK
<1>3. UNCHANGED <<account, store, index, delivered>>
  BY DEF StartLogin, Redis, Jwts, Presentable, RevokeGet, RevokeDel, Mint
<1>4. /\ owner[t] = NoUser /\ owner'[t] = u /\ parent'[t] = NoToken /\ u \in Users
      /\ \A x \in Tokens \ {t} : owner'[x] = owner[x] /\ parent'[x] = parent[x]
  BY DEF StartLogin, Mint, Inv, TypeOK
<1>5. \A s \in Requests : req[s].new # t /\ req[s].tok # t /\ req[s].target # t /\ t \notin req[s].snap
  BY <1>4, NoUserAssumption, NoTokenAssumption DEF Inv, NewIsOwn, RevocationState,
     RotationState, Provenance
<1>6. \A x \in Tokens : Pending(x)' => x = t \/ Pending(x)
  BY <1>1, <1>2 DEF Pending, Inv, TypeOK, Request
<1>7. Provenance' /\ RotationRetiresParent'
  BY <1>3, <1>4, NoUserAssumption, NoTokenAssumption DEF Inv, Live, TypeOK, Provenance,
     RotationRetiresParent
<1>8. NewIsOwn'
  BY <1>1, <1>2, <1>3, <1>4, <1>5 DEF Inv, TypeOK, Request, NewIsOwn
<1>9. NewIsFresh'
  BY <1>1, <1>2, <1>3, <1>4, NoUserAssumption, NoTokenAssumption DEF Inv, Live, NewIsFresh,
     NewIsOwn, Provenance
<1>10. RotationState'
  BY <1>1, <1>2, <1>3, <1>4, <1>5 DEF Inv, Live, TypeOK, Request, RotationState, NewIsFresh
<1>11. RevocationState'
  BY <1>1, <1>2, <1>3, <1>4, <1>6 DEF Inv, Live, TypeOK, Request, RevocationState
<1>12. RegisterState' /\ OneRegistrantPerEmail'
  BY <1>1, <1>2, <1>3 DEF Inv, RegisterState, OneRegistrantPerEmail
<1>. QED  BY <1>7, <1>8, <1>9, <1>10, <1>11, <1>12 DEF Inv

\* The start of a rotation keeps Inv.
LEMMA StartRefreshInv ==
  ASSUME Inv, TypeOK', NEW r \in Requests, NEW t \in Tokens,
         StartRefresh(r, t)
  PROVE  Inv'
<1>1. \A s \in Requests \ {r} : req'[s] = req[s]
  BY DEF StartRefresh, Presentable, Idle, Inv, TypeOK
<1>2. /\ req'[r].op = "refresh" /\ req'[r].pc = "verify" /\ req'[r].user = owner[t]
      /\ req'[r].tok = t /\ req'[r].new = NoToken /\ req'[r].target = NoToken
      /\ req'[r].snap = {}
  BY DEF StartRefresh, Presentable, Idle, Inv, TypeOK, Request, Live
<1>3. /\ t \in delivered
      /\ UNCHANGED <<account, owner, parent, store, index, delivered>>
  BY DEF StartRefresh, Redis, Jwts, Presentable, RevokeGet, RevokeDel, Mint
<1>4. \A x \in Tokens : Pending(x)' => Pending(x)
  BY <1>1, <1>2 DEF Pending, Inv
<1>5. Provenance' /\ RotationRetiresParent'
  BY <1>3 DEF Inv, Live, Provenance, RotationRetiresParent
<1>6. NewIsOwn' /\ NewIsFresh'
  BY <1>1, <1>2, <1>3 DEF Inv, Live, Minting, NewIsOwn, NewIsFresh
<1>7. RotationState'
  BY <1>1, <1>2, <1>3, NoTokenAssumption DEF Inv, Live, Minting, RotationState, NewIsFresh,
     NewIsOwn
<1>8. RevocationState'
  BY <1>1, <1>2, <1>3, <1>4 DEF Inv, Live, TypeOK, Request, RevocationState
<1>9. RegisterState' /\ OneRegistrantPerEmail'
  BY <1>1, <1>2, <1>3 DEF Inv, RegisterState, OneRegistrantPerEmail
<1>. QED  BY <1>5, <1>6, <1>7, <1>8, <1>9 DEF Inv

\* A request that comes with a cookie only keeps Inv.
LEMMA StartWithCookieInv ==
  ASSUME Inv, TypeOK', NEW r \in Requests, NEW op \in AuthOps,
         NEW t \in Tokens, NEW target \in Tokens \cup {NoToken},
         StartWithCookie(r, op, t, target)
  PROVE  Inv'
<1>1. \A s \in Requests \ {r} : req'[s] = req[s]
  BY DEF StartWithCookie, Presentable, Idle, Inv, TypeOK
<1>2. /\ req'[r].op = op /\ req'[r].pc = "verify" /\ req'[r].user = owner[t]
      /\ req'[r].tok = t /\ req'[r].new = NoToken /\ req'[r].target = target
      /\ req'[r].snap = {}
  BY DEF StartWithCookie, Presentable, Idle, Inv, TypeOK, Request, Live
<1>3. /\ t \in delivered
      /\ UNCHANGED <<account, owner, parent, store, index, delivered>>
  BY DEF StartWithCookie, Redis, Jwts, Presentable, RevokeGet, RevokeDel, Mint
<1>4. target # NoToken => owner[target] # NoUser /\ ~Pending(target)
  BY DEF StartWithCookie, Known
<1>5. op = "revoke" => target # NoToken
  BY NoTokenAssumption DEF StartWithCookie, Known
<1>6. \A x \in Tokens : Pending(x)' => Pending(x)
  BY <1>1, <1>2 DEF Pending, Inv
<1>7. Provenance' /\ RotationRetiresParent'
  BY <1>3 DEF Inv, Live, Provenance, RotationRetiresParent
<1>8. NewIsOwn' /\ NewIsFresh'
  BY <1>1, <1>2, <1>3 DEF Inv, Live, Minting, NewIsOwn, NewIsFresh
<1>9. RotationState'
  BY <1>1, <1>2, <1>3, NoTokenAssumption DEF Inv, Live, Minting, RotationState, NewIsFresh,
     NewIsOwn
<1>10. RevocationState'
  BY <1>2, <1>3, <1>4, <1>5 DEF StartWithCookie, Pending, Inv, Live, RevocationState, AuthOps
<1>11. RegisterState'
  BY <1>1, <1>2 DEF Inv, RegisterState, AuthOps
<1>12. OneRegistrantPerEmail'
  BY <1>1, <1>2, <1>3 DEF Inv, OneRegistrantPerEmail, RegisterState, AuthOps
<1>. QED  BY <1>7, <1>8, <1>9, <1>10, <1>11, <1>12 DEF Inv

\* A request with a valid access token keeps Inv.
LEMMA StartWithAccessInv ==
  ASSUME Inv, TypeOK', NEW r \in Requests, NEW op \in AuthOps,
         NEW t \in Tokens, NEW target \in Tokens \cup {NoToken},
         StartWithAccess(r, op, t, target)
  PROVE  Inv'
<1>1. \A s \in Requests \ {r} : req'[s] = req[s]
  BY DEF StartWithAccess, Presentable, Idle, Inv, TypeOK
<1>2. /\ req'[r].op = op /\ req'[r].pc = Entry(op) /\ req'[r].user = owner[t]
      /\ req'[r].tok = NoToken /\ req'[r].new = NoToken /\ req'[r].target = target
      /\ req'[r].snap = {}
  BY DEF StartWithAccess, Presentable, Idle, Inv, TypeOK, Request, Live
<1>3. /\ t \in delivered
      /\ UNCHANGED <<account, owner, parent, store, index, delivered>>
  BY DEF StartWithAccess, Redis, Jwts, Presentable, RevokeGet, RevokeDel, Mint
<1>4. target # NoToken => owner[target] # NoUser /\ ~Pending(target)
  BY DEF StartWithAccess, Known
<1>5. op = "revoke" => target # NoToken
  BY NoTokenAssumption DEF StartWithAccess, Known
<1>6. \A x \in Tokens : Pending(x)' => Pending(x)
  BY <1>1, <1>2 DEF Pending, Entry, Inv
<1>7. Provenance' /\ RotationRetiresParent'
  BY <1>3 DEF Inv, Live, Provenance, RotationRetiresParent
<1>8. NewIsOwn' /\ NewIsFresh'
  BY <1>1, <1>2, <1>3 DEF Inv, Live, Minting, Entry, NewIsOwn, NewIsFresh
<1>9. RotationState'
  BY <1>1, <1>2, <1>3 DEF Inv, Live, Minting, Entry, RotationState, NewIsFresh, NewIsOwn
<1>10. RevocationState'
  BY <1>2, <1>3, <1>4, <1>5 DEF StartWithAccess, Pending, TypeOK, Inv, Live, Entry, AuthOps,
     RevocationState, Provenance
<1>11. RegisterState' /\ OneRegistrantPerEmail'
  BY <1>1, <1>2, <1>3 DEF Inv, Entry, AuthOps, RegisterState, OneRegistrantPerEmail
<1>. QED  BY <1>7, <1>8, <1>9, <1>10, <1>11 DEF Inv

\* verifyRefreshToken and the mint of the successor keeps Inv.
LEMMA VerifyStoredInv ==
  ASSUME Inv, TypeOK', NEW r \in Requests, NEW t \in Tokens,
         VerifyStored(r, t)
  PROVE  Inv'
<1>1. \A s \in Requests \ {r} : req'[s] = req[s]
  BY DEF VerifyStored, Mint, Redis, Inv, TypeOK
<1>2. /\ req'[r].pc = "rotateGet" /\ req'[r].new = t /\ req'[r].op = req[r].op
      /\ req'[r].user = req[r].user /\ req'[r].tok = req[r].tok /\ req'[r].target = req[r].target
      /\ req'[r].snap = req[r].snap
  BY DEF VerifyStored, Mint, Redis, Inv, TypeOK, Request, Live
<1>3. /\ req[r].pc = "verify"
      /\ UNCHANGED <<account, store, index, delivered>>
  BY DEF VerifyStored, Redis, Jwts, Presentable, RevokeGet, RevokeDel, Mint
<1>4. /\ owner[t] = NoUser /\ owner'[t] = req[r].user /\ parent'[t] = req[r].tok
      /\ req[r].user \in Users
      /\ \A x \in Tokens \ {t} : owner'[x] = owner[x] /\ parent'[x] = parent[x]
  BY DEF VerifyStored, Mint, Inv, TypeOK, Provenance, RotationState
<1>5. \A s \in Requests : req[s].new # t /\ req[s].tok # t /\ req[s].target # t /\ t \notin req[s].snap
  BY <1>4, NoUserAssumption, NoTokenAssumption DEF Inv, NewIsOwn, RevocationState,
     RotationState, Provenance
<1>6. \A x \in Tokens : Pending(x)' => x = t \/ Pending(x)
  BY <1>1, <1>2 DEF Pending, Inv, TypeOK, Request
<1>7. Provenance'
  BY <1>3, <1>4, NoUserAssumption DEF Inv, TypeOK, Provenance, RotationState
<1>8. RotationRetiresParent'
  BY <1>3, <1>4 DEF Inv, Live, RotationRetiresParent, Provenance
<1>9. NewIsOwn'
  BY <1>1, <1>2, <1>4, <1>5 DEF Inv, TypeOK, Request, NewIsOwn
<1>10. NewIsFresh'
  BY <1>1, <1>2, <1>3, <1>4, NoUserAssumption, NoTokenAssumption DEF Inv, Live, NewIsFresh,
     NewIsOwn, Provenance
<1>11. RotationState'
  BY <1>1, <1>2, <1>3, <1>4, <1>5 DEF Inv, Live, TypeOK, Request, RotationState, NewIsFresh
<1>12. RevocationState'
  BY <1>3 DEF VerifyStored, Mint, Pending, Inv, Live, RevocationState
<1>13. RegisterState' /\ OneRegistrantPerEmail'
  BY <1>1, <1>2, <1>3 DEF Inv, RegisterState, OneRegistrantPerEmail
<1>. QED  BY <1>7, <1>8, <1>9, <1>10, <1>11, <1>12, <1>13 DEF Inv

\* A refused rotation keeps Inv.
LEMMA VerifyRefusedInv ==
  ASSUME Inv, TypeOK', NEW r \in Requests,
         VerifyRefused(r)
  PROVE  Inv'
<1>1. \A s \in Requests \ {r} : req'[s] = req[s]
  BY DEF VerifyRefused, Idle, Inv, TypeOK
<1>2. /\ req'[r].op = "none" /\ req'[r].pc = "idle" /\ req'[r].user = NoUser
      /\ req'[r].tok = NoToken /\ req'[r].new = NoToken /\ req'[r].target = NoToken
      /\ req'[r].snap = {}
  BY DEF VerifyRefused, Idle, Inv, TypeOK, Request, Live
<1>3. UNCHANGED <<account, owner, parent, store, index, delivered>>
  BY DEF VerifyRefused, Redis, Jwts, Presentable, RevokeGet, RevokeDel, Mint
<1>4. \A x \in Tokens : Pending(x)' => Pending(x)
  BY <1>1, <1>2 DEF Pending, Inv
<1>5. Provenance' /\ RotationRetiresParent'
  BY <1>3 DEF Inv, Live, Provenance, RotationRetiresParent
<1>6. NewIsOwn' /\ NewIsFresh'
  BY <1>1, <1>2, <1>3 DEF Inv, Live, Minting, NewIsOwn, NewIsFresh
<1>7. RotationState'
  BY <1>1, <1>2, <1>3 DEF Inv, Live, Minting, RotationState, NewIsFresh, NewIsOwn
<1>8. RevocationState'
  BY <1>1, <1>2, <1>3, <1>4 DEF Inv, Live, TypeOK, Request, RevocationState
<1>9. RegisterState'
  BY <1>2 DEF VerifyRefused, TypeOK, Inv, RegisterState
<1>10. OneRegistrantPerEmail'
  BY <1>1, <1>2, <1>3 DEF Inv, OneRegistrantPerEmail, RegisterState
<1>. QED  BY <1>5, <1>6, <1>7, <1>8, <1>9, <1>10 DEF Inv

\* The GET of the old token keeps Inv.
LEMMA RotateGetInv ==
  ASSUME Inv, TypeOK', NEW r \in Requests,
         RotateGet(r)
  PROVE  Inv'
<1>1. \A s \in Requests \ {r} : req'[s] = req[s]
  BY DEF RotateGet, RevokeGet, Inv, TypeOK
<1>2. /\ req'[r].pc = (IF Live(req[r].tok) THEN "rotateDel" ELSE "store")
      /\ req'[r].op = req[r].op /\ req'[r].user = req[r].user
      /\ req'[r].tok = req[r].tok /\ req'[r].new = req[r].new /\ req'[r].target = req[r].target
      /\ req'[r].snap = req[r].snap
  BY DEF RotateGet, RevokeGet, Inv, TypeOK, Request, Live
<1>3. /\ req[r].pc = "rotateGet"
      /\ UNCHANGED <<account, owner, parent, store, index, delivered>>
  BY DEF RotateGet, Redis, Jwts, Presentable, RevokeGet, RevokeDel, Mint
<1>4. \A x \in Tokens : Pending(x)' => Pending(x)
  BY <1>1, <1>2, <1>3 DEF Pending, Inv
<1>5. Provenance' /\ RotationRetiresParent'
  BY <1>3 DEF Inv, Live, Provenance, RotationRetiresParent
<1>6. NewIsOwn' /\ NewIsFresh'
  BY <1>1, <1>2, <1>3 DEF Inv, Live, Minting, NewIsOwn, NewIsFresh
<1>7. RotationState'
  BY <1>1, <1>2, <1>3 DEF Inv, Live, Minting, RotationState, NewIsFresh, NewIsOwn
<1>8. RevocationState'
  BY <1>1, <1>2, <1>3, <1>4 DEF Inv, Live, TypeOK, Request, RevocationState
<1>9. RegisterState' /\ OneRegistrantPerEmail'
  BY <1>1, <1>2, <1>3 DEF Inv, RegisterState, OneRegistrantPerEmail
<1>. QED  BY <1>5, <1>6, <1>7, <1>8, <1>9 DEF Inv

\* The MULTI that revokes the old token keeps Inv.
LEMMA RotateDelInv ==
  ASSUME Inv, TypeOK', NEW r \in Requests,
         RotateDel(r)
  PROVE  Inv'
<1>1. \A s \in Requests \ {r} : req'[s] = req[s]
  BY DEF RotateDel, RevokeDel, Inv, TypeOK
<1>2. /\ req'[r].pc = "store" /\ req'[r].op = req[r].op /\ req'[r].user = req[r].user
      /\ req'[r].tok = req[r].tok /\ req'[r].new = req[r].new /\ req'[r].target = req[r].target
      /\ req'[r].snap = req[r].snap
  BY DEF RotateDel, RevokeDel, Inv, TypeOK, Request, Live
<1>3. /\ req[r].pc = "rotateDel"
      /\ UNCHANGED <<account, owner, parent, delivered>>
  BY DEF RotateDel, Redis, Jwts, Presentable, RevokeGet, RevokeDel, Mint
<1>4. /\ \A t \in Tokens : store'[t] = IF t = req[r].tok THEN NoUser ELSE store[t]
      /\ \A u \in Users : index'[u] \subseteq index[u]
  BY DEF RotateDel, RevokeDel, Inv, TypeOK
<1>5. \A x \in Tokens : Pending(x)' => Pending(x)
  BY <1>1, <1>2, <1>3 DEF Pending, Inv
<1>6. Provenance' /\ RotationRetiresParent'
  BY <1>3, <1>4 DEF Inv, Live, TypeOK, Provenance, RotationRetiresParent
<1>7. NewIsOwn'
  BY <1>1, <1>2, <1>3 DEF Inv, NewIsOwn
<1>8. NewIsFresh'
  BY <1>1, <1>2, <1>3, <1>4 DEF Inv, Live, Minting, TypeOK, Request, NewIsFresh, NewIsOwn
<1>9. RotationState'
  BY <1>1, <1>2, <1>3, <1>4 DEF Inv, Live, Minting, TypeOK, RotationState, NewIsFresh
<1>10. RevocationState'
  BY <1>1, <1>2, <1>3, <1>4, <1>5 DEF Inv, Live, TypeOK, Request, RevocationState
<1>11. RegisterState' /\ OneRegistrantPerEmail'
  BY <1>1, <1>2, <1>3 DEF Inv, RegisterState, OneRegistrantPerEmail
<1>. QED  BY <1>6, <1>7, <1>8, <1>9, <1>10, <1>11 DEF Inv

\* storeRefreshToken keeps Inv.
LEMMA StoreTokenInv ==
  ASSUME Inv, TypeOK', NEW r \in Requests,
         StoreToken(r)
  PROVE  Inv'
<1>1. \A s \in Requests \ {r} : req'[s] = req[s]
  BY DEF StoreToken, Inv, TypeOK
<1>2. /\ req'[r].pc = Entry(req[r].op) /\ req'[r].op = req[r].op /\ req'[r].user = req[r].user
      /\ req'[r].tok = req[r].tok /\ req'[r].new = req[r].new /\ req'[r].target = req[r].target
      /\ req'[r].snap = req[r].snap
  BY DEF StoreToken, Inv, TypeOK, Request, Live
<1>3. /\ req[r].pc = "store"
      /\ UNCHANGED <<account, owner, parent, delivered>>
  BY DEF StoreToken, Redis, Jwts, Presentable, RevokeGet, RevokeDel, Mint
<1>4. /\ \A t \in Tokens : store'[t] = IF t = req[r].new THEN req[r].user ELSE store[t]
      /\ \A u \in Users : index'[u] = IF u = req[r].user THEN index[u] \cup {req[r].new} ELSE index[u]
  BY DEF StoreToken, Inv, TypeOK
<1>5. \A x \in Tokens : Pending(x)' => Pending(x)
  BY <1>1, <1>2, <1>3 DEF Pending, Inv
<1>6. Provenance'
  BY <1>3, <1>4, NoTokenAssumption DEF Inv, TypeOK, Provenance, NewIsOwn
<1>7. RotationRetiresParent'
  BY <1>3, <1>4 DEF Inv, Live, Minting, TypeOK, RotationRetiresParent, Provenance, NewIsFresh,
     RotationState
<1>8. NewIsOwn'
  BY <1>1, <1>2, <1>3 DEF Inv, NewIsOwn
<1>9. NewIsFresh'
  BY <1>1, <1>2, <1>3, <1>4 DEF Inv, Live, Minting, TypeOK, Request, Entry, NewIsFresh, NewIsOwn
<1>10. RotationState'
  BY <1>1, <1>2, <1>3, <1>4 DEF Inv, Live, Minting, TypeOK, Entry, RotationState, NewIsFresh
<1>11. RevocationState'
  BY <1>3 DEF StoreToken, Pending, Inv, Live, Minting, Entry, RevocationState, NewIsOwn,
     NewIsFresh
<1>12. RegisterState' /\ OneRegistrantPerEmail'
  BY <1>1, <1>2, <1>3 DEF Inv, Entry, RegisterState, OneRegistrantPerEmail
<1>. QED  BY <1>6, <1>7, <1>8, <1>9, <1>10, <1>11, <1>12 DEF Inv

\* The start of a logout keeps Inv.
LEMMA StartLogoutInv ==
  ASSUME Inv, TypeOK', NEW r \in Requests, NEW t \in Tokens,
         StartLogout(r, t)
  PROVE  Inv'
<1>1. \A s \in Requests \ {r} : req'[s] = req[s]
  BY DEF StartLogout, Presentable, Idle, Inv, TypeOK
<1>2. /\ req'[r].op = "logout" /\ req'[r].pc = "revokeGet" /\ req'[r].user = owner[t]
      /\ req'[r].tok = NoToken /\ req'[r].new = NoToken /\ req'[r].target = t
      /\ req'[r].snap = {}
  BY DEF StartLogout, Presentable, Idle, Inv, TypeOK, Request, Live
<1>3. /\ t \in delivered
      /\ UNCHANGED <<account, owner, parent, store, index, delivered>>
  BY DEF StartLogout, Redis, Jwts, Presentable, RevokeGet, RevokeDel, Mint
<1>4. \A x \in Tokens : Pending(x)' => Pending(x)
  BY <1>1, <1>2 DEF Pending, Inv
<1>5. Provenance' /\ RotationRetiresParent'
  BY <1>3 DEF Inv, Live, Provenance, RotationRetiresParent
<1>6. NewIsOwn' /\ NewIsFresh'
  BY <1>1, <1>2, <1>3 DEF Inv, Live, Minting, NewIsOwn, NewIsFresh
<1>7. RotationState'
  BY <1>1, <1>2, <1>3 DEF Inv, Live, Minting, RotationState, NewIsFresh, NewIsOwn
<1>8. RevocationState'
  BY <1>2, <1>3, NoTokenAssumption DEF StartLogout, Pending, Inv, Live, Minting,
     RevocationState, NewIsFresh, Provenance
<1>9. RegisterState' /\ OneRegistrantPerEmail'
  BY <1>1, <1>2, <1>3 DEF Inv, RegisterState, OneRegistrantPerEmail
<1>. QED  BY <1>5, <1>6, <1>7, <1>8, <1>9 DEF Inv

\* The owner check of DELETE /auth/tokens/:tokenId keeps Inv.
LEMMA CheckOwnerInv ==
  ASSUME Inv, TypeOK', NEW r \in Requests,
         CheckOwner(r)
  PROVE  Inv'
<1>1. \A s \in Requests \ {r} : req'[s] = req[s]
  BY DEF CheckOwner, Inv, TypeOK
<1>2. /\ req'[r].pc = (IF store[req[r].target] \in {NoUser, req[r].user} THEN "revokeGet" ELSE "respond")
      /\ req'[r].op = req[r].op /\ req'[r].user = req[r].user
      /\ req'[r].tok = req[r].tok /\ req'[r].new = req[r].new /\ req'[r].target = req[r].target
      /\ req'[r].snap = req[r].snap
  BY DEF CheckOwner, Inv, TypeOK, Request, Live
<1>3. /\ req[r].pc = "owns"
      /\ UNCHANGED <<account, owner, parent, store, index, delivered>>
  BY DEF CheckOwner, Redis, Jwts, Presentable, RevokeGet, RevokeDel, Mint
<1>4. \A x \in Tokens : Pending(x)' => Pending(x)
  BY <1>1, <1>2 DEF Pending, Inv
<1>5. Provenance' /\ RotationRetiresParent'
  BY <1>3 DEF Inv, Live, Provenance, RotationRetiresParent
<1>6. NewIsOwn' /\ NewIsFresh'
  BY <1>1, <1>2, <1>3 DEF Inv, Live, Minting, NewIsOwn, NewIsFresh
<1>7. RotationState'
  BY <1>1, <1>2, <1>3 DEF Inv, Live, Minting, RotationState, NewIsFresh, NewIsOwn
<1>8. RevocationState'
  BY <1>3, <1>4, NoUserAssumption, NoTokenAssumption DEF CheckOwner, TypeOK, Request, Inv, Live,
     Minting, RevocationState, NewIsOwn, NewIsFresh, Provenance, AuthOps
<1>9. RegisterState' /\ OneRegistrantPerEmail'
  BY <1>1, <1>2, <1>3 DEF Inv, RegisterState, OneRegistrantPerEmail
<1>. QED  BY <1>5, <1>6, <1>7, <1>8, <1>9 DEF Inv

\* The GET of the target of a revocation keeps Inv.
LEMMA TargetGetInv ==
  ASSUME Inv, TypeOK', NEW r \in Requests,
         TargetGet(r)
  PROVE  Inv'
<1>1. \A s \in Requests \ {r} : req'[s] = req[s]
  BY DEF TargetGet, RevokeGet, Inv, TypeOK
<1>2. /\ req'[r].pc = (IF Live(req[r].target) THEN "revokeDel" ELSE "respond")
      /\ req'[r].op = req[r].op /\ req'[r].user = req[r].user
      /\ req'[r].tok = req[r].tok /\ req'[r].new = req[r].new /\ req'[r].target = req[r].target
      /\ req'[r].snap = req[r].snap
  BY DEF TargetGet, RevokeGet, Inv, TypeOK, Request, Live
<1>3. /\ req[r].pc = "revokeGet"
      /\ UNCHANGED <<account, owner, parent, store, index, delivered>>
  BY DEF TargetGet, Redis, Jwts, Presentable, RevokeGet, RevokeDel, Mint
<1>4. \A x \in Tokens : Pending(x)' => Pending(x)
  BY <1>1, <1>2 DEF Pending, Inv
<1>5. Provenance' /\ RotationRetiresParent'
  BY <1>3 DEF Inv, Live, Provenance, RotationRetiresParent
<1>6. NewIsOwn' /\ NewIsFresh'
  BY <1>1, <1>2, <1>3 DEF Inv, Live, Minting, NewIsOwn, NewIsFresh
<1>7. RotationState'
  BY <1>1, <1>2, <1>3 DEF Inv, Live, Minting, RotationState, NewIsFresh, NewIsOwn
<1>8. RevocationState'
  BY <1>1, <1>2, <1>3, <1>4 DEF Inv, Live, TypeOK, Request, RevocationState
<1>9. RegisterState' /\ OneRegistrantPerEmail'
  BY <1>1, <1>2, <1>3 DEF Inv, RegisterState, OneRegistrantPerEmail
<1>. QED  BY <1>5, <1>6, <1>7, <1>8, <1>9 DEF Inv

\* The MULTI that revokes the target keeps Inv.
LEMMA TargetDelInv ==
  ASSUME Inv, TypeOK', NEW r \in Requests,
         TargetDel(r)
  PROVE  Inv'
<1>1. \A s \in Requests \ {r} : req'[s] = req[s]
  BY DEF TargetDel, RevokeDel, Inv, TypeOK
<1>2. /\ req'[r].pc = "respond" /\ req'[r].op = req[r].op /\ req'[r].user = req[r].user
      /\ req'[r].tok = req[r].tok /\ req'[r].new = req[r].new /\ req'[r].target = req[r].target
      /\ req'[r].snap = req[r].snap
  BY DEF TargetDel, RevokeDel, Inv, TypeOK, Request, Live
<1>3. /\ req[r].pc = "revokeDel"
      /\ UNCHANGED <<account, owner, parent, delivered>>
  BY DEF TargetDel, Redis, Jwts, Presentable, RevokeGet, RevokeDel, Mint
<1>4. /\ \A t \in Tokens : store'[t] = IF t = req[r].target THEN NoUser ELSE store[t]
      /\ \A u \in Users : index'[u] \subseteq index[u]
  BY DEF TargetDel, RevokeDel, Inv, TypeOK
<1>5. \A x \in Tokens : Pending(x)' => Pending(x)
  BY <1>1, <1>2 DEF Pending, Inv
<1>6. Provenance' /\ RotationRetiresParent'
  BY <1>3, <1>4 DEF Inv, Live, TypeOK, Provenance, RotationRetiresParent
<1>7. NewIsOwn'
  BY <1>1, <1>2, <1>3 DEF Inv, NewIsOwn
<1>8. NewIsFresh'
  BY <1>1, <1>2, <1>3, <1>4 DEF Inv, Live, Minting, TypeOK, Request, NewIsFresh, NewIsOwn
<1>9. RotationState'
  BY <1>1, <1>2, <1>3, <1>4 DEF Inv, Live, Minting, TypeOK, RotationState, NewIsFresh
<1>10. RevocationState'
  BY <1>1, <1>2, <1>3, <1>4, <1>5 DEF Inv, Live, TypeOK, Request, RevocationState
<1>11. RegisterState' /\ OneRegistrantPerEmail'
  BY <1>1, <1>2, <1>3 DEF Inv, RegisterState, OneRegistrantPerEmail
<1>. QED  BY <1>6, <1>7, <1>8, <1>9, <1>10, <1>11 DEF Inv

\* The MULTI of revokeAllUserTokens keeps Inv.
LEMMA PurgeInv ==
  ASSUME Inv, TypeOK', NEW r \in Requests,
         Purge(r)
  PROVE  Inv'
<1>1. \A s \in Requests \ {r} : req'[s] = req[s]
  BY DEF Purge, Inv, TypeOK
<1>2. /\ req'[r].pc = "respond" /\ req'[r].op = req[r].op /\ req'[r].user = req[r].user
      /\ req'[r].tok = req[r].tok /\ req'[r].new = req[r].new /\ req'[r].target = req[r].target
      /\ req'[r].snap = req[r].snap
  BY DEF Purge, Inv, TypeOK, Request, Live
<1>3. /\ req[r].pc = "purge"
      /\ UNCHANGED <<account, owner, parent, delivered>>
  BY DEF Purge, Redis, Jwts, Presentable, RevokeGet, RevokeDel, Mint
<1>4. /\ \A t \in Tokens : store'[t] = IF t \in req[r].snap THEN NoUser ELSE store[t]
      /\ \A u \in Users : index'[u] \subseteq index[u]
  BY DEF Purge, Inv, TypeOK
<1>5. \A x \in Tokens : Pending(x)' => Pending(x)
  BY <1>1, <1>2 DEF Pending, Inv
<1>6. Provenance' /\ RotationRetiresParent'
  BY <1>3, <1>4 DEF Inv, Live, TypeOK, Provenance, RotationRetiresParent
<1>7. NewIsOwn'
  BY <1>1, <1>2, <1>3 DEF Inv, NewIsOwn
<1>8. NewIsFresh'
  BY <1>1, <1>2, <1>3, <1>4 DEF Inv, Live, Minting, TypeOK, Request, NewIsFresh, NewIsOwn
<1>9. RotationState'
  BY <1>1, <1>2, <1>3, <1>4 DEF Inv, Live, Minting, TypeOK, RotationState, NewIsFresh
<1>10. RevocationState'
  BY <1>1, <1>2, <1>3, <1>4, <1>5 DEF Inv, Live, TypeOK, Request, RevocationState
<1>11. RegisterState' /\ OneRegistrantPerEmail'
  BY <1>1, <1>2, <1>3 DEF Inv, RegisterState, OneRegistrantPerEmail
<1>. QED  BY <1>6, <1>7, <1>8, <1>9, <1>10, <1>11 DEF Inv

\* An answer that arrives keeps Inv.
LEMMA RespondInv ==
  ASSUME Inv, TypeOK', NEW r \in Requests,
         Respond(r)
  PROVE  Inv'
<1>1. \A s \in Requests \ {r} : req'[s] = req[s]
  BY DEF Respond, Idle, Inv, TypeOK
<1>2. /\ req'[r].op = "none" /\ req'[r].pc = "idle" /\ req'[r].user = NoUser
      /\ req'[r].tok = NoToken /\ req'[r].new = NoToken /\ req'[r].target = NoToken
      /\ req'[r].snap = {}
  BY DEF Respond, Idle, Inv, TypeOK, Request, Live
<1>3. /\ req[r].pc = "respond"
      /\ UNCHANGED <<account, owner, parent, store, index>>
  BY DEF Respond, Redis, Jwts, Presentable, RevokeGet, RevokeDel, Mint
<1>4. \A t \in delivered' : t \in delivered \/ (t = req[r].new /\ t # NoToken)
  BY <1>1 DEF Respond
<1>5. \A x \in Tokens : Pending(x)' => Pending(x)
  BY <1>1, <1>2 DEF Pending, Inv
<1>6. Provenance'
  BY <1>3, NoUserAssumption DEF Respond, Pending, Inv, Provenance, NewIsOwn
<1>7. RotationRetiresParent'
  BY <1>3 DEF Inv, Live, RotationRetiresParent, Provenance
<1>8. NewIsOwn' /\ NewIsFresh'
  BY <1>1, <1>2, <1>3, <1>4 DEF Inv, Live, Minting, NewIsOwn, NewIsFresh
<1>9. RotationState'
  BY <1>2, <1>3 DEF Respond, Inv, Live, Minting, RotationState, NewIsOwn, NewIsFresh
<1>10. RevocationState'
  BY <1>1, <1>2, <1>3, <1>5 DEF Inv, Live, TypeOK, Request, RevocationState
<1>11. RegisterState'
  BY <1>2 DEF Respond, TypeOK, Inv, RegisterState
<1>12. OneRegistrantPerEmail'
  BY <1>1, <1>2, <1>3 DEF Inv, OneRegistrantPerEmail, RegisterState
<1>. QED  BY <1>6, <1>7, <1>8, <1>9, <1>10, <1>11, <1>12 DEF Inv

\* An answer that is lost keeps Inv.
LEMMA ResponseLostInv ==
  ASSUME Inv, TypeOK', NEW r \in Requests,
         ResponseLost(r)
  PROVE  Inv'
<1>1. \A s \in Requests \ {r} : req'[s] = req[s]
  BY DEF ResponseLost, Idle, Inv, TypeOK
<1>2. /\ req'[r].op = "none" /\ req'[r].pc = "idle" /\ req'[r].user = NoUser
      /\ req'[r].tok = NoToken /\ req'[r].new = NoToken /\ req'[r].target = NoToken
      /\ req'[r].snap = {}
  BY DEF ResponseLost, Idle, Inv, TypeOK, Request, Live
<1>3. UNCHANGED <<account, owner, parent, store, index, delivered>>
  BY DEF ResponseLost, Redis, Jwts, Presentable, RevokeGet, RevokeDel, Mint
<1>4. \A x \in Tokens : Pending(x)' => Pending(x)
  BY <1>1, <1>2 DEF Pending, Inv
<1>5. Provenance' /\ RotationRetiresParent'
  BY <1>3 DEF Inv, Live, Provenance, RotationRetiresParent
<1>6. NewIsOwn' /\ NewIsFresh'
  BY <1>1, <1>2, <1>3 DEF Inv, Live, Minting, NewIsOwn, NewIsFresh
<1>7. RotationState'
  BY <1>1, <1>2, <1>3 DEF Inv, Live, Minting, RotationState, NewIsFresh, NewIsOwn
<1>8. RevocationState'
  BY <1>1, <1>2, <1>3, <1>4 DEF Inv, Live, TypeOK, Request, RevocationState
<1>9. RegisterState'
  BY <1>2 DEF ResponseLost, TypeOK, Inv, RegisterState
<1>10. OneRegistrantPerEmail'
  BY <1>1, <1>2, <1>3 DEF Inv, OneRegistrantPerEmail, RegisterState
<1>. QED  BY <1>5, <1>6, <1>7, <1>8, <1>9, <1>10 DEF Inv

\* SMEMBERS keeps Inv.
LEMMA MembersInv ==
  ASSUME Inv, TypeOK', NEW r \in Requests,
         Members(r)
  PROVE  Inv'
<1>1. \A s \in Requests \ {r} : req'[s] = req[s]
  BY DEF Members, Inv, TypeOK
<1>2. /\ req'[r].op = req[r].op /\ req'[r].user = req[r].user /\ req'[r].tok = req[r].tok
      /\ req'[r].new = req[r].new /\ req'[r].target = req[r].target
      /\ req'[r].snap = index[req[r].user]
      /\ req'[r].pc = IF req[r].op = "logoutAll" THEN "purge"
                     ELSE IF index[req[r].user] = {} THEN "respond" ELSE "exists"
  <2>1. req[r] \in Request /\ DOMAIN req = Requests
    BY DEF Inv, TypeOK
  <2>2. req'[r] = [req[r] EXCEPT
                     !.snap = index[req[r].user],
                     !.pc = IF req[r].op = "logoutAll" THEN "purge"
                            ELSE IF index[req[r].user] = {} THEN "respond" ELSE "exists"]
    BY <2>1 DEF Members
  <2>. QED  BY <2>1, <2>2 DEF Request
<1>3. /\ req[r].pc = "members"
      /\ req'[r].pc \in {"purge", "respond", "exists"}
      /\ req'[r].pc = "purge" <=> req[r].op = "logoutAll"
      /\ UNCHANGED <<account, owner, parent, store, index, delivered>>
  BY <1>2 DEF Members, Redis, Jwts
<1>4. \A t \in Tokens : Pending(t)' <=> Pending(t)
  BY <1>1, <1>2, <1>3 DEF Pending
<1>5. Provenance' /\ RotationRetiresParent'
  BY <1>3 DEF Inv, Provenance, RotationRetiresParent, Live
<1>6. NewIsOwn' /\ NewIsFresh'
  BY <1>1, <1>2, <1>3 DEF Inv, NewIsOwn, NewIsFresh, Minting, Live
<1>7. RotationState'
  BY <1>1, <1>2, <1>3 DEF Inv, RotationState, Minting, Live
<1>8. req[r].user \in Users
  BY <1>3 DEF Inv, RevocationState
<1>9. \A t \in req'[r].snap : owner[t] = req[r].user /\ owner[t] # NoUser /\ ~Pending(t)
  BY <1>2, <1>8, NoUserAssumption DEF Inv, Provenance, NewIsFresh, Minting, Pending
<1>10. RevocationState'
  BY <1>1, <1>2, <1>3, <1>4, <1>9 DEF Inv, TypeOK, Request, RevocationState, Live
<1>11. RegisterState' /\ OneRegistrantPerEmail'
  BY <1>1, <1>2, <1>3 DEF Inv, RegisterState, OneRegistrantPerEmail
<1>. QED
  BY <1>5, <1>6, <1>7, <1>10, <1>11 DEF Inv

\* The MULTI of EXISTS keeps Inv.
LEMMA ExistsInv ==
  ASSUME Inv, TypeOK', NEW r \in Requests,
         Exists(r)
  PROVE  Inv'
<1>1. \A s \in Requests \ {r} : req'[s] = req[s]
  BY DEF Exists, Inv, TypeOK
<1>2. /\ req'[r].op = req[r].op /\ req'[r].user = req[r].user /\ req'[r].tok = req[r].tok
      /\ req'[r].new = req[r].new /\ req'[r].target = req[r].target
      /\ req'[r].snap \subseteq req[r].snap /\ req'[r].pc = "respond"
  BY DEF Exists, Inv, TypeOK, Request
<1>3. /\ req[r].pc = "exists"
      /\ UNCHANGED <<account, owner, parent, store, index, delivered>>
  BY DEF Exists, Redis, Jwts
<1>4. \A t \in Tokens : Pending(t)' <=> Pending(t)
  BY <1>1, <1>2, <1>3 DEF Pending
<1>5. Provenance' /\ RotationRetiresParent'
  BY <1>3 DEF Inv, Provenance, RotationRetiresParent, Live
<1>6. NewIsOwn' /\ NewIsFresh'
  BY <1>1, <1>2, <1>3 DEF Inv, NewIsOwn, NewIsFresh, Minting, Live
<1>7. RotationState'
  BY <1>1, <1>2, <1>3 DEF Inv, RotationState, Minting, Live
<1>8. RevocationState'
  BY <1>1, <1>2, <1>3, <1>4 DEF Inv, TypeOK, Request, RevocationState, Live
<1>9. RegisterState' /\ OneRegistrantPerEmail'
  BY <1>1, <1>2, <1>3 DEF Inv, RegisterState, OneRegistrantPerEmail
<1>. QED
  BY <1>5, <1>6, <1>7, <1>8, <1>9 DEF Inv

\* createAuthUser, with or without the unique violation, keeps Inv.
LEMMA InsertUserInv ==
  ASSUME Inv, TypeOK', NEW r \in Requests,
         InsertUser(r)
  PROVE  Inv'
<1>1. /\ \A s \in Requests \ {r} : req'[s] = req[s]
      /\ req'[r] = Idle \/ req'[r] = [req[r] EXCEPT !.pc = "role"]
      /\ req[r].pc = "insert"
      /\ UNCHANGED <<owner, parent, store, index, delivered>>
  BY DEF InsertUser, Redis, Jwts, Inv, TypeOK
<1>2. req[r].op = "register" /\ req[r].user \in Users /\ req[r].tok = NoToken
  BY <1>1 DEF Inv, RegisterState
<1>3. CASE req'[r] = Idle
  <2>1. UNCHANGED account
    BY <1>3 DEF InsertUser, Inv, TypeOK, Request, Idle
  <2>2. \A x \in Tokens : Pending(x)' => Pending(x)
    BY <1>1, <1>3 DEF Pending, Idle
  <2>3. Provenance' /\ RotationRetiresParent'
    BY <1>1 DEF Inv, Provenance, RotationRetiresParent, Live
  <2>4. NewIsOwn' /\ NewIsFresh'
    BY <1>1, <1>3 DEF Inv, NewIsOwn, NewIsFresh, Minting, Live, Idle
  <2>5. RotationState'
    BY <1>1, <1>3 DEF Inv, RotationState, Minting, Live, Idle
  <2>6. RevocationState'
    BY <1>1, <2>2 DEF Inv, TypeOK, Request, RevocationState, Live, Idle
  <2>7. RegisterState'
    <3>1. req'[r].op = "none" /\ req'[r].pc = "idle"
      BY <1>3 DEF Idle
    <3>. QED  BY <1>1, <1>3, <3>1 DEF Inv, RegisterState
  <2>8. OneRegistrantPerEmail'
    BY <1>1, <1>3, <2>1 DEF Inv, OneRegistrantPerEmail, Idle
  <2>. QED
    BY <2>3, <2>4, <2>5, <2>6, <2>7, <2>8 DEF Inv
<1>4. CASE req'[r] = [req[r] EXCEPT !.pc = "role"]
  <2>1. /\ req'[r].op = "register" /\ req'[r].pc = "role" /\ req'[r].user = req[r].user
        /\ req'[r].tok = NoToken /\ req'[r].new = req[r].new /\ req'[r].target = req[r].target
        /\ req'[r].snap = req[r].snap
    BY <1>2, <1>4 DEF Inv, TypeOK, Request
  <2>2. /\ account[req[r].user] = "none"
        /\ \A u \in Users : account'[u] = IF u = req[r].user THEN "norole" ELSE account[u]
    BY <1>1, <2>1 DEF InsertUser, Inv, TypeOK, Request, Idle
  <2>3. \A x \in Tokens : Pending(x)' => Pending(x)
    BY <1>1, <2>1 DEF Pending
  <2>4. Provenance' /\ RotationRetiresParent'
    BY <1>1 DEF Inv, Provenance, RotationRetiresParent, Live
  <2>5. NewIsOwn' /\ NewIsFresh'
    BY <1>1, <2>1 DEF Inv, NewIsOwn, NewIsFresh, Minting, Live
  <2>6. RotationState'
    BY <1>1, <2>1 DEF Inv, RotationState, Minting, Live
  <2>7. RevocationState'
    BY <1>1, <2>1, <2>3 DEF Inv, TypeOK, Request, RevocationState, Live
  <2>8. RegisterState'
    BY <1>1, <1>2, <2>1 DEF Inv, RegisterState
  <2>9. OneRegistrantPerEmail'
    BY <1>1, <1>2, <2>1, <2>2 DEF Inv, OneRegistrantPerEmail, RegisterState
  <2>. QED
    BY <2>4, <2>5, <2>6, <2>7, <2>8, <2>9 DEF Inv
<1>. QED
  BY <1>1, <1>3, <1>4

\* A rejected call ends the handler, or sends it to its error answer.
LEMMA CallFailsInv ==
  ASSUME Inv, TypeOK', NEW r \in Requests,
         CallFails(r)
  PROVE  Inv'
<1>1. /\ \A s \in Requests \ {r} : req'[s] = req[s]
      /\ UNCHANGED <<account, owner, parent, store, index, delivered>>
  BY DEF CallFails, Redis, Jwts, Inv, TypeOK
<1>2. \/ req'[r] = Idle
      \/ /\ AnswersFailure(req[r].op)
         /\ req'[r] = [req[r] EXCEPT !.pc = "respond", !.snap = {}, !.failed = TRUE]
  BY DEF CallFails, Inv, TypeOK
<1>3. /\ req'[r].pc \in {"idle", "respond"} /\ req'[r].snap = {}
      /\ req'[r].tok \in {req[r].tok, NoToken} /\ req'[r].target \in {req[r].target, NoToken}
      /\ req'[r].new \in {req[r].new, NoToken}
      /\ req'[r].new # NoToken => req'[r].user = req[r].user
      /\ req'[r].tok # NoToken => req'[r].user = req[r].user
      /\ req'[r].op \in AuthOps \cup {"none", "logout"}
      /\ req'[r].op \in {"revoke", "logout"} =>
           req[r].op = req'[r].op /\ req'[r].target = req[r].target
      /\ req'[r].op = "logout" => req'[r].failed /\ req'[r].pc = "respond"
      /\ req'[r].pc = "idle" => req'[r] = Idle
  <2>1. CASE req'[r] = Idle
    BY <2>1 DEF Idle
  <2>2. CASE /\ req[r].op \in AuthOps \cup {"logout"}
             /\ req'[r] = [req[r] EXCEPT !.pc = "respond", !.snap = {}, !.failed = TRUE]
    <3>1. /\ req'[r].pc = "respond" /\ req'[r].snap = {} /\ req'[r].op = req[r].op
          /\ req'[r].failed = TRUE
          /\ req'[r].user = req[r].user /\ req'[r].tok = req[r].tok
          /\ req'[r].new = req[r].new /\ req'[r].target = req[r].target
      BY <2>2 DEF Inv, TypeOK, Request
    <3>. QED  BY <2>2, <3>1
  <2>. QED  BY <1>2, <2>1, <2>2 DEF AnswersFailure
<1>4. \A x \in Tokens : Pending(x)' => Pending(x)
  BY <1>1, <1>3 DEF Pending
<1>5. Provenance' /\ RotationRetiresParent'
  BY <1>1 DEF Inv, Provenance, RotationRetiresParent, Live
<1>6. NewIsOwn' /\ NewIsFresh'
  BY <1>1, <1>3 DEF Inv, NewIsOwn, NewIsFresh, Minting, Live
<1>7. RotationState'
  BY <1>1, <1>3 DEF Inv, RotationState, Minting, Live
<1>8. RevocationState'
  BY <1>1, <1>3, <1>4 DEF Inv, TypeOK, Request, RevocationState, Live, AuthOps
<1>9. RegisterState' /\ OneRegistrantPerEmail'
  BY <1>1, <1>3 DEF Inv, RegisterState, OneRegistrantPerEmail, AuthOps
<1>. QED
  BY <1>5, <1>6, <1>7, <1>8, <1>9 DEF Inv

\* A crash takes every handler and leaves Redis and Postgres as they are.
LEMMA CrashInv ==
  ASSUME Inv, TypeOK', Crash
  PROVE  Inv'
<1>1. /\ \A r \in Requests : req'[r] = Idle
      /\ UNCHANGED <<account, owner, parent, store, index, delivered>>
  BY DEF Crash, Redis, Jwts
<1>2. Provenance' /\ RotationRetiresParent'
  BY <1>1 DEF Inv, Provenance, RotationRetiresParent, Live
<1>3. NewIsOwn' /\ NewIsFresh' /\ RotationState'
  BY <1>1 DEF NewIsOwn, NewIsFresh, RotationState, Minting, Idle
<1>4. RevocationState'
  BY <1>1 DEF RevocationState, Idle
<1>5. RegisterState' /\ OneRegistrantPerEmail'
  <2>1. \A r \in Requests : req'[r].op = "none" /\ req'[r].pc = "idle"
    BY <1>1 DEF Idle
  <2>. QED  BY <1>1, <2>1 DEF RegisterState, OneRegistrantPerEmail
<1>. QED
  BY <1>2, <1>3, <1>4, <1>5 DEF Inv

\* Keys and sets that disappear on their own, and time, keep Inv.
LEMMA ExpireInv ==
  ASSUME Inv, TypeOK',
         \/ \E t \in Tokens : ExpireJwt(t) \/ ExpireKey(t)
         \/ \E u \in Users : ExpireIndex(u)
  PROVE  Inv'
<1>1. /\ UNCHANGED <<account, owner, parent, delivered, req>>
      /\ \A t \in Tokens : store'[t] \in {store[t], NoUser}
      /\ \A u \in Users : index'[u] \subseteq index[u]
  BY DEF ExpireJwt, ExpireKey, ExpireIndex, Jwts, Inv, TypeOK
<1>2. \A t \in Tokens : (Pending(t)' <=> Pending(t)) /\ (Live(t)' => Live(t) /\ store'[t] = store[t])
  BY <1>1 DEF Pending, Live
<1>3. Provenance'
  BY <1>1 DEF Inv, Provenance
<1>4. NewIsOwn' /\ NewIsFresh'
  BY <1>1, <1>2 DEF Inv, TypeOK, Request, NewIsOwn, NewIsFresh
<1>5. RotationState' /\ RotationRetiresParent'
  BY <1>1, <1>2 DEF Inv, TypeOK, RotationState, RotationRetiresParent
<1>6. RevocationState'
  BY <1>1, <1>2 DEF Inv, TypeOK, Request, RevocationState
<1>7. RegisterState' /\ OneRegistrantPerEmail'
  BY <1>1 DEF Inv, RegisterState, OneRegistrantPerEmail
<1>. QED
  BY <1>3, <1>4, <1>5, <1>6, <1>7 DEF Inv

-----------------------------------------------------------------------------
\* The inductive invariant.

\* Nobody is registered, nothing is minted and no handler runs at first.
LEMMA InitInv == Init => Inv
<1> SUFFICES ASSUME Init PROVE Inv
  OBVIOUS
<1>1. Idle \in Request
  BY DEF Idle, Request, Ops, Pcs
<1>2. TypeOK
  BY <1>1 DEF Init, TypeOK
<1>3. Provenance /\ RotationRetiresParent
  BY <1>2, NoTokenAssumption DEF Init, TypeOK, Provenance, RotationRetiresParent
<1>4. NewIsOwn /\ NewIsFresh /\ RotationState
  BY DEF Init, Idle, NewIsOwn, NewIsFresh, RotationState, Minting
<1>5. RevocationState /\ RegisterState /\ OneRegistrantPerEmail
  BY DEF Init, Idle, RevocationState, RegisterState, OneRegistrantPerEmail
<1>. QED
  BY <1>2, <1>3, <1>4, <1>5 DEF Inv

\* Every step keeps the inductive invariant.
LEMMA NextInv ==
  ASSUME Inv, [Next]_vars
  PROVE  Inv'
<1>1. TypeOK'
  BY TypeStep
<1>2. CASE UNCHANGED vars
  BY <1>2 DEF vars, Inv, TypeOK, Provenance, NewIsOwn, NewIsFresh, RotationState,
     RotationRetiresParent, RevocationState, RegisterState, OneRegistrantPerEmail, Live, Pending
<1>3. CASE Next
  <2>1. CASE \E r \in Requests, u \in Users : StartRegister(r, u)
    BY <1>1, <2>1, StartRegisterInv
  <2>2. CASE \E r \in Requests, u \in Users, t \in Tokens : StartLogin(r, u, t)
    BY <1>1, <2>2, StartLoginInv
  <2>3. CASE \E r \in Requests, t \in Tokens :
               StartRefresh(r, t) \/ StartLogout(r, t) \/ AssignRole(r, t) \/ VerifyStored(r, t)
    BY <1>1, <2>3, StartRefreshInv, StartLogoutInv, AssignRoleInv, VerifyStoredInv
  <2>4. CASE \E r \in Requests, op \in AuthOps, t \in Tokens, target \in Tokens \cup {NoToken} :
               \/ StartWithCookie(r, op, t, target)
               \/ StartWithAccess(r, op, t, target)
    BY <1>1, <2>4, StartWithCookieInv, StartWithAccessInv
  <2>5. CASE \E r \in Requests :
               \/ InsertUser(r) \/ VerifyRefused(r) \/ RotateGet(r) \/ RotateDel(r)
               \/ StoreToken(r) \/ CheckOwner(r) \/ TargetGet(r) \/ TargetDel(r)
               \/ Members(r) \/ Purge(r) \/ Exists(r)
               \/ Respond(r) \/ ResponseLost(r) \/ CallFails(r)
    BY <1>1, <2>5, InsertUserInv, VerifyRefusedInv, RotateGetInv, RotateDelInv, StoreTokenInv,
       CheckOwnerInv, TargetGetInv, TargetDelInv, MembersInv, PurgeInv, ExistsInv, RespondInv,
       ResponseLostInv, CallFailsInv
  <2>6. CASE Crash
    BY <1>1, <2>6, CrashInv
  <2>7. CASE \/ \E t \in Tokens : ExpireJwt(t) \/ ExpireKey(t)
             \/ \E u \in Users : ExpireIndex(u)
    BY <1>1, <2>7, ExpireInv
  <2>. QED
    BY <1>3, <2>1, <2>2, <2>3, <2>4, <2>5, <2>6, <2>7 DEF Next
<1>. QED
  BY <1>2, <1>3

\* Inv holds in every reachable state.
THEOREM InvHolds == Spec => []Inv
  BY InitInv, NextInv, PTL DEF Spec

-----------------------------------------------------------------------------
\* The invariants the runs check.

\* Every variable keeps its type.
THEOREM TypeCorrect == Spec => []TypeOK
<1>1. Inv => TypeOK
  BY DEF Inv
<1>. QED
  BY <1>1, InvHolds, PTL

\* A rotated token and its successor are never honoured together: refresh and
\* refreshUsingCookie revoke the old token before they store the new one.
THEOREM RotationIsExclusive == Spec => []RotationRetiresParent
<1>1. Inv => RotationRetiresParent
  BY DEF Inv
<1>. QED
  BY <1>1, InvHolds, PTL

\* A logout none of whose calls rejected has revoked its token when it answers; a
\* logout-all that answers without an error, every token that it listed.
THEOREM LogoutIsEffective == Spec => []AnsweredLogoutIsEffective
<1>1. Inv => AnsweredLogoutIsEffective
  BY DEF Inv, RevocationState, AnsweredLogoutIsEffective
<1>. QED
  BY <1>1, InvHolds, PTL

\* Two registrations of one e-mail never both pass createAuthUser.
THEOREM RegistrationIsUnique == Spec => []OneRegistrantPerEmail
<1>1. Inv => OneRegistrantPerEmail
  BY DEF Inv
<1>. QED
  BY <1>1, InvHolds, PTL

-----------------------------------------------------------------------------
\* The action properties the runs check.

\* A key refresh_token:<id> changes only by the four MULTIs and by expiry.
LEMMA StoreChanges ==
  ASSUME Inv, [Next]_vars, NEW t \in Tokens, Live(t)' # Live(t)
  PROVE  \/ \E r \in Requests : StoreToken(r) /\ t = req[r].new /\ ~Live(t)
         \/ \E r \in Requests : RotateDel(r) /\ t = req[r].tok /\ Live(t)
         \/ \E r \in Requests : TargetDel(r) /\ t = req[r].target /\ Live(t)
         \/ \E r \in Requests : Purge(r) /\ t \in req[r].snap /\ Live(t)
         \/ ExpireKey(t) /\ Live(t)
<1>1. store'[t] # store[t]
  BY DEF Live
<1>2. TypeOK
  BY DEF Inv
<1>3. CASE \E r \in Requests : StoreToken(r)
  <2>1. PICK r \in Requests : StoreToken(r)
    BY <1>3
  <2>2. store' = [store EXCEPT ![req[r].new] = req[r].user] /\ req[r].pc = "store"
    BY <2>1 DEF StoreToken
  <2>3. t = req[r].new /\ ~Live(t)
    BY <1>1, <1>2, <2>2 DEF TypeOK, Inv, NewIsFresh, Minting
  <2>. QED
    BY <2>1, <2>3
<1>4. CASE \E r \in Requests : RotateDel(r)
  BY <1>1, <1>2, <1>4 DEF RotateDel, RevokeDel, TypeOK, Live
<1>5. CASE \E r \in Requests : TargetDel(r)
  BY <1>1, <1>2, <1>5 DEF TargetDel, RevokeDel, TypeOK, Live
<1>6. CASE \E r \in Requests : Purge(r)
  BY <1>1, <1>2, <1>6 DEF Purge, TypeOK, Live
<1>7. CASE \E s \in Tokens : ExpireKey(s)
  BY <1>1, <1>2, <1>7 DEF ExpireKey, TypeOK, Live
<1>8. CASE \/ UNCHANGED store
  BY <1>1, <1>8
<1>9. \/ UNCHANGED store
      \/ \E r \in Requests : StoreToken(r) \/ RotateDel(r) \/ TargetDel(r) \/ Purge(r)
      \/ \E s \in Tokens : ExpireKey(s)
  BY DEF Next, vars, Redis, StartRegister, StartLogin, StartRefresh, StartLogout, AssignRole,
     VerifyStored, StartWithCookie, StartWithAccess, InsertUser, VerifyRefused, RotateGet,
     RevokeGet, CheckOwner, TargetGet, Members, Exists, Respond, ResponseLost, CallFails, Crash,
     ExpireJwt, ExpireIndex
<1>. QED
  BY <1>3, <1>4, <1>5, <1>6, <1>7, <1>8, <1>9

\* A token a client holds that was revoked is never honoured again.
THEOREM RevocationIsFinal == Spec => RevokedStaysRevoked
<1>1. ASSUME Inv, [Next]_vars, NEW t \in delivered, ~Live(t), Live(t)'
      PROVE  FALSE
  <2>1. t \in Tokens
    BY <1>1 DEF Inv, TypeOK
  <2>2. PICK r \in Requests : StoreToken(r) /\ t = req[r].new
    BY <1>1, <2>1, StoreChanges
  <2>. QED
    BY <1>1, <2>2 DEF StoreToken, Inv, NewIsFresh, Minting
<1>2. Inv /\ [Next]_vars => [\A t \in delivered : ~Live(t) => ~Live(t)']_vars
  BY <1>1
<1>. QED
  BY <1>2, InvHolds, PTL DEF Spec, RevokedStaysRevoked

\* Only time, or a handler acting for the owner, takes a token away.
THEOREM RevocationIsByOwner == Spec => OnlyOwnerRevokes
<1>1. ASSUME Inv, [Next]_vars, NEW t \in Tokens, Live(t), ~Live(t)'
      PROVE  \/ t \in expired
             \/ \E r \in Requests : req[r].user = owner[t] /\ req'[r] # req[r]
  <2>1. \A r \in Requests : req'[r].pc # req[r].pc => req'[r] # req[r]
    OBVIOUS
  <2>2. CASE \E r \in Requests : RotateDel(r) /\ t = req[r].tok
    <3>1. PICK r \in Requests : RotateDel(r) /\ t = req[r].tok
      BY <2>2
    <3>2. req[r].user = owner[t]
      BY <1>1, <3>1, NoTokenAssumption DEF Inv, RotationState
    <3>3. req[r].pc = "rotateDel" /\ req'[r].pc = "store"
      BY <1>1, <3>1 DEF RotateDel, RevokeDel, Inv, TypeOK, Request
    <3>. QED
      BY <2>1, <3>2, <3>3
  <2>3. CASE \E r \in Requests : TargetDel(r) /\ t = req[r].target
    <3>1. PICK r \in Requests : TargetDel(r) /\ t = req[r].target
      BY <2>3
    <3>2. req[r].pc = "revokeDel" /\ req'[r].pc = "respond"
      BY <1>1, <3>1 DEF TargetDel, RevokeDel, Inv, TypeOK, Request
    <3>3. req[r].user = owner[t]
      BY <1>1, <3>1, <3>2 DEF Inv, RevocationState
    <3>. QED
      BY <2>1, <3>2, <3>3
  <2>4. CASE \E r \in Requests : Purge(r) /\ t \in req[r].snap
    <3>1. PICK r \in Requests : Purge(r) /\ t \in req[r].snap
      BY <2>4
    <3>2. req[r].user = owner[t]
      BY <1>1, <3>1 DEF Inv, RevocationState
    <3>3. req[r].pc = "purge" /\ req'[r].pc = "respond"
      BY <1>1, <3>1 DEF Purge, Inv, TypeOK, Request
    <3>. QED
      BY <2>1, <3>2, <3>3
  <2>5. CASE ExpireKey(t)
    BY <2>5 DEF ExpireKey
  <2>. QED
    BY <1>1, <2>2, <2>3, <2>4, <2>5, StoreChanges
<1>2. Inv /\ [Next]_vars =>
        [\A t \in Tokens : Live(t) /\ ~Live(t)' =>
           \/ t \in expired
           \/ \E r \in Requests : req[r].user = owner[t] /\ req'[r] # req[r]]_vars
  BY <1>1
<1>. QED
  BY <1>2, InvHolds, PTL DEF Spec, OnlyOwnerRevokes

\* A token still honoured leaves its user's set only through a logout-all that
\* read the set before the token was in it.
THEOREM IndexLossIsARace == Spec => OnlyRacedTokensLeaveIndex
<1>1. ASSUME Inv, [Next]_vars, NEW u \in Users, NEW t \in index[u], t \notin index'[u], Live(t)'
      PROVE  \E r \in Requests :
               /\ req[r].op = "logoutAll" /\ req[r].pc = "purge"
               /\ req[r].user = u /\ t \notin req[r].snap
  <2>1. TypeOK /\ t \in Tokens
    BY <1>1 DEF Inv, TypeOK
  <2>2. CASE \E r \in Requests : RotateDel(r) \/ TargetDel(r)
    <3>1. PICK r \in Requests, s \in Tokens \cup {NoToken} :
            /\ store' = [store EXCEPT ![s] = NoUser]
            /\ index' = [index EXCEPT ![req[r].seen] = @ \ {s}]
      BY <2>1, <2>2 DEF RotateDel, TargetDel, RevokeDel, TypeOK, Request
    <3>2. t = s
      BY <1>1, <2>1, <3>1 DEF TypeOK
    <3>. QED
      BY <1>1, <2>1, <3>1, <3>2 DEF TypeOK, Live
  <2>3. CASE \E r \in Requests : Purge(r)
    <3>1. PICK r \in Requests : Purge(r)
      BY <2>3
    <3>2. req[r].user = u
      BY <1>1, <2>1, <3>1 DEF Purge, TypeOK
    <3>3. t \notin req[r].snap
      BY <1>1, <2>1, <3>1 DEF Purge, Live
    <3>. QED
      BY <1>1, <3>1, <3>2, <3>3 DEF Purge, Inv, RegisterState
  <2>4. CASE \E v \in Users : ExpireIndex(v)
    BY <1>1, <2>1, <2>4 DEF ExpireIndex, TypeOK, Live
  <2>5. CASE \E r \in Requests : StoreToken(r)
    BY <1>1, <2>1, <2>5 DEF StoreToken, TypeOK
  <2>6. CASE UNCHANGED index
    BY <1>1, <2>6
  <2>7. \/ UNCHANGED index
        \/ \E r \in Requests : StoreToken(r) \/ RotateDel(r) \/ TargetDel(r) \/ Purge(r)
        \/ \E v \in Users : ExpireIndex(v)
    BY <1>1 DEF Next, vars, Redis, StartRegister, StartLogin, StartRefresh, StartLogout,
       AssignRole, VerifyStored, StartWithCookie, StartWithAccess, InsertUser, VerifyRefused,
       RotateGet, RevokeGet, CheckOwner, TargetGet, Members, Exists, Respond, ResponseLost,
       CallFails, Crash, ExpireJwt, ExpireKey
  <2>. QED
    BY <2>2, <2>3, <2>4, <2>5, <2>6, <2>7
<1>2. Inv /\ [Next]_vars =>
        [\A u \in Users : \A t \in index[u] :
           t \notin index'[u] /\ Live(t)' =>
             \E r \in Requests :
               /\ req[r].op = "logoutAll" /\ req[r].pc = "purge"
               /\ req[r].user = u /\ t \notin req[r].snap]_vars
  BY <1>1
<1>. QED
  BY <1>2, InvHolds, PTL DEF Spec, OnlyRacedTokensLeaveIndex

=============================================================================
